---------------------------- MODULE Credentials ----------------------------
(***************************************************************************)
(* Passwords, one-time passwords and the tokens around them: the admin     *)
(* token that adapters share (keycloak.adapter.util.ts), the handlers of   *)
(* src/src/user/user.service.ts that reset a password, directly or over a  *)
(* link, those that send and verify an OTP, and login and logout of        *)
(* auth.service.ts.                                                        *)
(*                                                                         *)
(* Time passes between any two statements.  A token is what it carries: an *)
(* admin token the time it dies, a link its user and the time it dies.  A  *)
(* keyed hash is the tuple that was hashed.  A request runs once.          *)
(***************************************************************************)
EXTENDS Naturals, FiniteSets

CONSTANTS
    Requests,   \* the requests
    Users,      \* the users; any other name is unknown
    MobileOf,   \* MobileOf[u]: the mobile number of u, or None
    WithMail,   \* the users with an address, their own or that of who created them
    Passwords, FirstPassword, \* passwords, and the one that accounts have at first
    Otps,       \* the OTPs that may be drawn; one when static OTPs are enabled
    TokenLife, TokenBuffer, \* expires_in of an admin token, TOKEN_BUFFER_SECONDS
    OtpLife, LinkLife,      \* how long an OTP and a link are good
    Scenarios,  \* records [ops, faults, time]: what is requested, whether "keycloak",
                \* "database" and "notify" may fail, and the bound of the clock
    None

\* value: a new password, a status, a mobile number or a session.
Op(name, user, value, otp, reason) ==
    [name |-> name, user |-> user, value |-> value, otp |-> otp, reason |-> reason]

Names == {"resetUserPassword", "forgotPassword", "syncUserStatusWithKeycloak",
          "sendPasswordResetLink", "sendOtp", "sendPasswordResetOTP", "verifyOtp", "login",
          "refreshToken", "logout"}

ASSUME CredentialsAssumption ==
    /\ TokenLife \in Nat /\ TokenBuffer \in Nat /\ TokenBuffer <= TokenLife
    /\ OtpLife \in Nat /\ LinkLife \in Nat
    /\ FirstPassword \in Passwords /\ WithMail \subseteq Users
    /\ None \notin Users \cup Passwords \cup Requests
    /\ \A c \in Scenarios :
        /\ c.time \in Nat
        /\ \A o \in c.ops : o.name \in Names /\ o = Op(o.name, o.user, o.value, o.otp, o.reason)

VARIABLES
    clock,      \* the time
    cached,     \* cachedAdminToken
    account,    \* Keycloak: per user the password, whether it is enabled, and
                \* whether password_auth_enabled allows a password
    temporary,  \* Users: per user temporaryPassword
    sessions,   \* Keycloak: the requests whose login is not logged out
    run,        \* the requests
    sent,       \* the hashes that clients have been given
    links,      \* the links and reset tokens that clients have been given
    enabledTo,  \* history: the status that Keycloak was last given for a user
    raced,      \* history: users whose status was last put while a reset of theirs was
                \* between its read of the account and its write
    scenario

keycloak == <<account, sessions>>
history == <<enabledTo, raced>>
vars == <<clock, cached, account, temporary, sessions, run, sent, links, enabledTo, raced,
          scenario>>

Waiting == [at |-> "new", op |-> Op("none", None, None, None, None), link |-> None,
            asked |-> 0, token |-> 0, saw |-> FALSE, account |-> None, otp |-> None,
            took |-> FALSE, reply |-> 0]

Init ==
    /\ clock = 0 /\ cached = None /\ sessions = {} /\ sent = {} /\ links = {} /\ raced = {}
    /\ account = [u \in Users |-> [password |-> FirstPassword, enabled |-> TRUE,
                                   passwordAuth |-> FALSE]]
    /\ temporary = [u \in Users |-> TRUE]
    /\ enabledTo = [u \in Users |-> TRUE]
    /\ run = [r \in Requests |-> Waiting]
    /\ scenario \in Scenarios

Tick == clock < scenario.time /\ clock' = clock + 1
        /\ UNCHANGED <<cached, temporary, keycloak, run, sent, links, history, scenario>>

At(r, names, here) == run[r].op.name \in names /\ run[r].at = here
Set(r, f) == run' = [run EXCEPT ![r] = f]
Go(r, there) == Set(r, [run[r] EXCEPT !.at = there])
Answered(f, code) == [f EXCEPT !.at = "done", !.reply = code, !.saw = FALSE, !.token = 0,
                               !.account = None, !.link = None]
Reply(r, code) == Set(r, Answered(run[r], code))
May(fault) == fault \in scenario.faults

Alive(r) == clock < run[r].token
User(r) == run[r].op.user

-----------------------------------------------------------------------------
First(name) ==
    CASE name \in {"resetUserPassword", "sendPasswordResetLink", "sendPasswordResetOTP"} -> "find"
      [] name = "forgotPassword" -> "validate"
      [] name = "syncUserStatusWithKeycloak" -> "token"
      [] name \in {"sendOtp", "login"} -> "captcha"
      [] name = "verifyOtp" -> "verify"
      [] name \in {"refreshToken", "logout"} -> "session"

\* A request arrives; forgotPassword with a link that was sent.
Arrive(r, o) ==
    /\ run[r].at = "new"
    /\ LET new == [Waiting EXCEPT !.at = First(o.name), !.op = o] IN
       IF o.name = "forgotPassword"
       THEN \E l \in links : Set(r, [new EXCEPT !.link = l, !.op.user = l.user])
       ELSE Set(r, new)
    /\ UNCHANGED <<clock, cached, temporary, keycloak, sent, links, history, scenario>>

\* TokenExpiredError, which verifyAsync throws.
LinkExpired == 401

\* The token of the link.
Validate(r) ==
    /\ run[r].at = "validate"
    /\ IF clock < run[r].link.dies THEN Go(r, "subject") ELSE Reply(r, LinkExpired)
    /\ UNCHANGED <<clock, cached, temporary, keycloak, sent, links, history, scenario>>

\* The row of its user, temporaryPassword with it.
FindSubject(r) ==
    /\ run[r].at = "subject"
    /\ Set(r, [run[r] EXCEPT !.at = "token", !.saw = temporary[User(r)]])
    /\ UNCHANGED <<clock, cached, temporary, keycloak, sent, links, history, scenario>>

\* findUserDetails, by the username.
FindUser(r) ==
    /\ run[r].at = "find"
    /\ LET name == run[r].op.name IN
       IF User(r) \notin Users
       THEN Reply(r, IF name = "sendPasswordResetOTP" THEN 400 ELSE 404)
       ELSE Set(r, [run[r] EXCEPT !.saw = temporary[User(r)],
                !.at = CASE name = "sendPasswordResetLink" -> "mail"
                         [] name = "sendPasswordResetOTP" -> "otp"
                         [] OTHER -> "token"])
    /\ UNCHANGED <<clock, cached, temporary, keycloak, sent, links, history, scenario>>

-----------------------------------------------------------------------------
(* getKeycloakAdminToken. *)

AfterToken(r) == IF run[r].op.name = "syncUserStatusWithKeycloak" THEN "status" ELSE "put"

TakeToken(r) ==
    /\ run[r].at = "token"
    /\ IF cached # None /\ clock < cached.until
       THEN Set(r, [run[r] EXCEPT !.at = AfterToken(r), !.token = cached.dies])
       ELSE Set(r, [run[r] EXCEPT !.at = "ask", !.asked = clock])
    /\ UNCHANGED <<clock, cached, temporary, keycloak, sent, links, history, scenario>>

\* Keycloak gives out a token, and the answer is under way.
Issue(r) ==
    /\ run[r].at = "ask"
    /\ Set(r, [run[r] EXCEPT !.at = "answer", !.token = clock + TokenLife])
    /\ UNCHANGED <<clock, cached, temporary, keycloak, sent, links, history, scenario>>

\* Mutant of KeepToken: its life is counted from when the answer is there.
KeepTokenFromNow(r) ==
    /\ run[r].at = "answer"
    /\ cached' = [dies |-> run[r].token, until |-> clock + TokenLife - TokenBuffer]
    /\ Set(r, [run[r] EXCEPT !.at = AfterToken(r), !.asked = 0])
    /\ UNCHANGED <<clock, temporary, keycloak, sent, links, history, scenario>>

KeepToken(r) ==
    /\ run[r].at = "answer"
    /\ cached' = [dies |-> run[r].token, until |-> run[r].asked + TokenLife - TokenBuffer]
    /\ Set(r, [run[r] EXCEPT !.at = AfterToken(r), !.asked = 0])
    /\ UNCHANGED <<clock, temporary, keycloak, sent, links, history, scenario>>

\* The token that others cached is forgotten, and the caller reads .data of undefined.
TokenFails(r) ==
    /\ run[r].at \in {"ask", "answer"} /\ May("keycloak")
    /\ cached' = None
    /\ Reply(r, 500)
    /\ UNCHANGED <<clock, temporary, keycloak, sent, links, history, scenario>>

-----------------------------------------------------------------------------
(* resetKeycloakPassword and its callers. *)

Changes(r) == account' = [account EXCEPT ![User(r)].password = run[r].op.value]

PutPassword(r) ==
    /\ run[r].at = "put" /\ Alive(r)
    /\ Changes(r)
    /\ Set(r, [run[r] EXCEPT !.took = TRUE,
                !.at = IF run[r].op.name = "resetUserPassword" THEN "get" ELSE "flag"])
    /\ UNCHANGED <<clock, cached, temporary, sessions, sent, links, history, scenario>>

\* An error with a status becomes an ErrorResponse, which forgotPassword does not tell
\* from a success.
PutRefused(r) ==
    /\ run[r].at = "put" /\ (~Alive(r) \/ May("keycloak"))
    /\ Reply(r, IF run[r].op.name = "resetUserPassword" THEN 400 ELSE 200)
    /\ UNCHANGED <<clock, cached, temporary, keycloak, sent, links, history, scenario>>

\* Mutant of Unanswered: no answer counts as an error with a status.
UnansweredIsRefused == 400

\* The catch reads the status of no response: a TypeError, and both callers answer 500.
Unanswered == 500

PutUnanswered(r) ==
    /\ run[r].at = "put" /\ May("keycloak")
    /\ \/ UNCHANGED account /\ Reply(r, Unanswered)
       \/ Alive(r) /\ Changes(r) /\ Set(r, Answered([run[r] EXCEPT !.took = TRUE], Unanswered))
    /\ UNCHANGED <<clock, cached, temporary, sessions, sent, links, history, scenario>>

\* enablePasswordAuthenticationIfNeeded reads the whole account ...
GetAccount(r) ==
    /\ run[r].at = "get"
    /\ \/ /\ Alive(r)
          /\ LET a == account[User(r)] IN
             Set(r, [run[r] EXCEPT !.account = a,
                        !.at = IF a.passwordAuth THEN "flag" ELSE "putBack"])
       \/ (~Alive(r) \/ May("keycloak")) /\ Go(r, "flag")
    /\ UNCHANGED <<clock, cached, temporary, keycloak, sent, links, history, scenario>>

\* Mutant of Back: as updateUserInKeyCloak has it, enabled.
BackEnabled(r) == [run[r].account EXCEPT !.passwordAuth = TRUE, !.enabled = TRUE,
                                         !.password = account[User(r)].password]

\* ... and writes it back whole, but for the password, which is not in it.
Back(r) == [run[r].account EXCEPT !.passwordAuth = TRUE,
                                  !.password = account[User(r)].password]

\* Whatever comes of it, the request goes on.
PutBack(r) ==
    /\ run[r].at = "putBack"
    /\ \/ Alive(r) /\ account' = [account EXCEPT ![User(r)] = Back(r)]
       \/ (~Alive(r) \/ May("keycloak")) /\ UNCHANGED account
    /\ Go(r, "flag")
    /\ UNCHANGED <<clock, cached, temporary, sessions, sent, links, history, scenario>>

\* temporaryPassword, if it was set when the row was read; then the reply.
ClearFlag(r) ==
    /\ run[r].at = "flag"
    /\ \/ /\ temporary' = IF run[r].saw THEN [temporary EXCEPT ![User(r)] = FALSE]
                          ELSE temporary
          /\ Reply(r, 200)
       \/ run[r].saw /\ May("database") /\ Reply(r, 500) /\ UNCHANGED temporary
    /\ UNCHANGED <<clock, cached, keycloak, sent, links, history, scenario>>

\* Somebody is between the two.
Overlapped(u) == \E q \in Requests : run[q].at = "putBack" /\ User(q) = u

\* updateUserEnabledStatusInKeycloak, of an update of the user.
PutStatus(r) ==
    /\ run[r].at = "status"
    /\ \/ /\ Alive(r)
          /\ account' = [account EXCEPT ![User(r)].enabled = run[r].op.value]
          /\ enabledTo' = [enabledTo EXCEPT ![User(r)] = run[r].op.value]
          /\ raced' = IF Overlapped(User(r)) THEN raced \cup {User(r)} ELSE raced \ {User(r)}
          /\ \/ Reply(r, 200)
             \/ May("keycloak") /\ Reply(r, 500)
       \/ (~Alive(r) \/ May("keycloak")) /\ Reply(r, 500) /\ UNCHANGED <<account, history>>
    /\ UNCHANGED <<clock, cached, temporary, sessions, sent, links, scenario>>

-----------------------------------------------------------------------------
(* OTPs and links. *)

Captcha(r) ==
    /\ run[r].at = "captcha"
    /\ \/ Go(r, IF run[r].op.name = "login" THEN "session" ELSE "otp")
       \/ Reply(r, 400)
    /\ UNCHANGED <<clock, cached, temporary, keycloak, sent, links, history, scenario>>

\* generateOtpHash.
Hash(who, otp, reason) ==
    [who |-> who, otp |-> otp, reason |-> reason, expires |-> clock + OtpLife]

\* sendOTPOnMobile hashes the mobile number ...
MakeOtp(r) ==
    /\ At(r, {"sendOtp"}, "otp")
    /\ \E x \in Otps : Set(r, [run[r] EXCEPT !.at = "notify",
                                !.otp = Hash(run[r].op.value, x, run[r].op.reason)])
    /\ UNCHANGED <<clock, cached, temporary, keycloak, sent, links, history, scenario>>

\* ... sendPasswordResetOTP the username.
MakeResetOtp(r) ==
    /\ At(r, {"sendPasswordResetOTP"}, "otp")
    /\ IF MobileOf[User(r)] = None /\ User(r) \notin WithMail THEN Reply(r, 400)
       ELSE \E x \in Otps : Set(r, [run[r] EXCEPT !.at = "notify",
                                        !.otp = Hash(User(r), x, "forgot")])
    /\ UNCHANGED <<clock, cached, temporary, keycloak, sent, links, history, scenario>>

\* Only then has the client the hash.
Told(r) == Reply(r, 200) /\ sent' = sent \cup {run[r].otp}

\* smsNotification, which throws if the message cannot be sent.
NotifyBySms(r) ==
    /\ At(r, {"sendOtp"}, "notify")
    /\ \/ Told(r)
       \/ May("notify") /\ Reply(r, 500) /\ UNCHANGED sent
    /\ UNCHANGED <<clock, cached, temporary, keycloak, links, history, scenario>>

\* It fails if both channels do; a user with one of them is answered 200.
Notify(r) ==
    /\ At(r, {"sendPasswordResetOTP"}, "notify")
    /\ \/ Told(r)
       \/ /\ May("notify") /\ MobileOf[User(r)] # None /\ User(r) \in WithMail
          /\ Reply(r, 500)
          /\ UNCHANGED sent
    /\ UNCHANGED <<clock, cached, temporary, keycloak, links, history, scenario>>

\* Mutant of Matches: the reason is not part of the hash.
MatchesAnyReason(o, h) == h.who = o.value /\ h.otp = o.otp

\* verifyOtp hashes the mobile number, whatever the reason.
Matches(o, h) == h.who = o.value /\ h.otp = o.otp /\ h.reason = o.reason

Verdict(o, h) ==
    IF clock > h.expires \/ o.reason \notin {"signup", "forgot"} THEN 400
    ELSE IF o.reason = "forgot" /\ o.user \notin Users THEN 404
    ELSE IF Matches(o, h) THEN 200 ELSE 400

\* Hash h comes back with what the client says was hashed.
VerifyOtp(r) ==
    /\ run[r].at = "verify"
    /\ LET o == run[r].op IN
       \E h \in sent :
         /\ Set(r, Answered([run[r] EXCEPT !.asked = clock, !.otp = h], Verdict(o, h)))
         /\ links' = IF Verdict(o, h) = 200 /\ o.reason = "forgot"
                     THEN links \cup {[user |-> o.user, dies |-> clock + LinkLife]} ELSE links
    /\ UNCHANGED <<clock, cached, temporary, keycloak, sent, history, scenario>>

MailLink(r) ==
    /\ run[r].at = "mail"
    /\ \/ /\ User(r) \in WithMail
          /\ links' = links \cup {[user |-> User(r), dies |-> clock + LinkLife]}
          /\ Reply(r, 200)
       \/ (User(r) \notin WithMail \/ May("notify")) /\ Reply(r, 400) /\ UNCHANGED links
    /\ UNCHANGED <<clock, cached, temporary, keycloak, sent, history, scenario>>

-----------------------------------------------------------------------------
(* auth.service.ts: a session is named by the login that opened it. *)

Accepts(o) == account[o.user].enabled /\ account[o.user].password = o.value
Open(o) == o.value \in sessions

Login(r) ==
    /\ At(r, {"login"}, "session")
    /\ \/ Accepts(run[r].op) /\ sessions' = sessions \cup {r} /\ Reply(r, 200)
       \/ ~Accepts(run[r].op) /\ Reply(r, 404) /\ UNCHANGED sessions
       \/ May("keycloak") /\ Reply(r, 500) /\ UNCHANGED sessions
    /\ UNCHANGED <<clock, cached, account, temporary, sent, links, history, scenario>>

\* Whatever goes wrong is a 401.
Refresh(r) ==
    /\ At(r, {"refreshToken"}, "session")
    /\ \/ Open(run[r].op) /\ Reply(r, 200)
       \/ (~Open(run[r].op) \/ May("keycloak")) /\ Reply(r, 401)
    /\ UNCHANGED <<clock, cached, temporary, keycloak, sent, links, history, scenario>>

\* Keycloak refuses what it has ended; an answer may be lost.
Logout(r) ==
    /\ At(r, {"logout"}, "session")
    /\ \/ /\ Open(run[r].op)
          /\ sessions' = sessions \ {run[r].op.value}
          /\ \/ Reply(r, 200)
             \/ May("keycloak") /\ Reply(r, 500)
       \/ ~Open(run[r].op) /\ Reply(r, 401) /\ UNCHANGED sessions
       \/ May("keycloak") /\ Reply(r, 500) /\ UNCHANGED sessions
    /\ UNCHANGED <<clock, cached, account, temporary, sent, links, history, scenario>>

-----------------------------------------------------------------------------
Next ==
    \/ Tick
    \/ \E r \in Requests :
        \/ \E o \in scenario.ops : Arrive(r, o)
        \/ Validate(r) \/ FindSubject(r) \/ FindUser(r)
        \/ TakeToken(r) \/ Issue(r) \/ KeepToken(r) \/ TokenFails(r)
        \/ PutPassword(r) \/ PutRefused(r) \/ PutUnanswered(r)
        \/ GetAccount(r) \/ PutBack(r) \/ ClearFlag(r) \/ PutStatus(r)
        \/ Captcha(r) \/ MakeOtp(r) \/ MakeResetOtp(r) \/ NotifyBySms(r) \/ Notify(r)
        \/ VerifyOtp(r) \/ MailLink(r)
        \/ Login(r) \/ Refresh(r) \/ Logout(r)

Spec == Init /\ [][Next]_vars

-----------------------------------------------------------------------------
Account == [password : Passwords, enabled : BOOLEAN, passwordAuth : BOOLEAN]
Link == [user : Users, dies : Nat]

\* The types of the variables.
TypeOK ==
    /\ clock \in Nat
    /\ cached \in [dies : Nat, until : Nat] \cup {None}
    /\ account \in [Users -> Account] /\ temporary \in [Users -> BOOLEAN]
    /\ sessions \subseteq Requests
    /\ links \subseteq Link
    /\ \A r \in Requests : run[r].asked \in Nat /\ run[r].token \in Nat /\ run[r].took \in BOOLEAN

\* An admin token that getKeycloakAdminToken takes from its cache is good for the
\* seconds of the buffer, however long Keycloak took to answer and whichever of several
\* answers was cached last.
TokensLast ==
    cached # None /\ clock < cached.until => clock + TokenBuffer < cached.dies

Done(r, name) == run[r].op.name = name /\ run[r].at = "done"

\* The replies to a reset tell what became of it, though calls fail, their answers get
\* lost and tokens die on the way: a client error means that the password was not
\* changed; a 200 of resetUserPassword that it was, and that temporaryPassword is off;
\* and temporaryPassword is off only if a password was changed.
AnswersAreTrue ==
    /\ \A r \in Requests :
        /\ run[r].reply \in 400..499 => ~run[r].took
        /\ Done(r, "resetUserPassword") /\ run[r].reply = 200 =>
              run[r].took /\ ~temporary[User(r)]
        /\ Done(r, "logout") /\ run[r].reply = 200 => run[r].op.value \notin sessions
    /\ \A u \in Users : ~temporary[u] => \E r \in Requests : run[r].took /\ User(r) = u

\* An account is enabled or not as Keycloak was last told, unless it was told so while
\* enablePasswordAuthenticationIfNeeded of a reset was between its read and its write.
StatusLostToRaces == \A u \in Users \ raced : account[u].enabled = enabledTo[u]

\* Request r brings back in time, with its hash and its reason, the OTP that q has sent.
BringsBack(r, q) ==
    /\ run[q].at = "done" /\ run[q].reply = 200 /\ run[r].otp = run[q].otp
    /\ run[r].op.otp = run[q].otp.otp /\ run[r].asked <= run[q].otp.expires

\* An OTP is accepted if sendOtp has sent it to that number for that reason, signup or
\* forgot, and it has not expired, and only then; of a user who forgot a password if there
\* is one.  This says nothing of numbers that are names of users.
OtpAsSent ==
    \A r \in Requests :
        Done(r, "verifyOtp") /\ run[r].op.value \notin Users =>
        (run[r].reply = 200 <=>
            /\ run[r].op.reason \in {"signup", "forgot"}
            /\ run[r].op.reason = "forgot" => User(r) \in Users
            /\ \E q \in Requests :
                /\ run[q].op.name = "sendOtp" /\ BringsBack(r, q)
                /\ run[q].op.value = run[r].op.value /\ run[q].op.reason = run[r].op.reason)

\* "For forgot password flow, include the reset token in response": the OTP that
\* sendPasswordResetOTP has sent to a user is accepted of that user in time.
ResetOtpsWork ==
    \A r, q \in Requests :
        /\ Done(r, "verifyOtp") /\ run[r].op.reason = "forgot"
        /\ run[q].op.name = "sendPasswordResetOTP" /\ User(q) = User(r) /\ BringsBack(r, q)
        => run[r].reply = 200
=============================================================================
