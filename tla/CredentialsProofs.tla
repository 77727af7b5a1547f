-------------------------- MODULE CredentialsProofs --------------------------
(***************************************************************************)
(* What admin tokens and the status of accounts keep, what a reset, a      *)
(* logout and an accepted OTP promise, for any users, requests, lives of   *)
(* tokens, OTPs and links, and any mix of requests and faults.             *)
(*                                                                         *)
(* TokensLast is not inductive: what is cached comes from an answer that   *)
(* was under way, while the clock ran on.  Timely says what a request      *)
(* knows of its token: it was asked for in the past, and once it is given  *)
(* out it lives its whole life from then at least.                         *)
(*                                                                         *)
(* Most steps neither ask for a token nor read an account: they are Plain, *)
(* and a plain step keeps all that is said of requests.                    *)
(*                                                                         *)
(* For the answers, Way says which requests come to a place, Says what a   *)
(* request has done and answered, Found and Tells what it knows.  Most     *)
(* steps are Quiet: they tell nothing and promise nothing.  The others     *)
(* are Lawful: what they tell is so, and stays so, because what is done    *)
(* takes no more steps.                                                    *)
(***************************************************************************)
EXTENDS Credentials, TLAPS

Fields == {"at", "op", "link", "asked", "token", "saw", "account", "otp", "took", "reply"}
AccountFields == {"password", "enabled", "passwordAuth"}

\* What a request f knows of its token, and what it has read of the account.
Timely(f) ==
    /\ f.asked \in Nat /\ f.token \in Nat /\ f.asked <= clock
    /\ f.at = "answer" => f.asked + TokenLife <= f.token
HasRead(f) ==
    f.at = "putBack" /\ f.op.user \in Users => DOMAIN f.account = AccountFields

RunsOK ==
    /\ DOMAIN run = Requests
    /\ \A r \in Requests :
        DOMAIN run[r] = Fields /\ Timely(run[r]) /\ HasRead(run[r])

CacheOK ==
    cached # None =>
        /\ cached.dies \in Nat /\ cached.until \in Nat
        /\ cached.until + TokenBuffer <= cached.dies

AccountsOK ==
    /\ DOMAIN account = Users /\ DOMAIN enabledTo = Users
    /\ \A u \in Users : DOMAIN account[u] = AccountFields

\* The status that a reset is about to write back is that of the account, but for the users
\* whose status was put since it was read.
ReadsCurrent ==
    \A q \in Requests :
        run[q].at = "putBack" /\ User(q) \in Users \ raced =>
            run[q].account.enabled = account[User(q)].enabled

IInv ==
    /\ clock \in Nat /\ scenario \in Scenarios
    /\ RunsOK /\ CacheOK /\ AccountsOK /\ StatusLostToRaces /\ ReadsCurrent

\* Request r takes a step, and no other.
Only(r) ==
    /\ DOMAIN run' = Requests /\ \A q \in Requests \ {r} : run'[q] = run[q]
    /\ DOMAIN run'[r] = Fields

\* A step after which r has no token, and no account, that it had not.
Plain(r) ==
    /\ Only(r)
    /\ run'[r].at \notin {"answer", "putBack"}
    /\ run'[r].asked \in {run[r].asked, 0, clock}
    /\ run'[r].token \in {run[r].token, 0}

-----------------------------------------------------------------------------
(* Steps of one request. *)

LEMMA GoIsPlain ==
    ASSUME RunsOK, NEW r \in Requests, NEW there, there \notin {"answer", "putBack"},
           Go(r, there)
    PROVE  Plain(r)
BY DEF RunsOK, Go, Set, Fields, Plain, Only

LEMMA ReplyIsPlain ==
    ASSUME RunsOK, NEW r \in Requests, NEW code, Reply(r, code)
    PROVE  Plain(r)
BY DEF RunsOK, Reply, Answered, Set, Fields, Plain, Only

\* A step that changes the record in one field more than its place.
LEMMA SawIsPlain ==
    ASSUME RunsOK, NEW r \in Requests, NEW there, there \notin {"answer", "putBack"},
           NEW v, Set(r, [run[r] EXCEPT !.saw = v, !.at = there])
    PROVE  Plain(r)
BY DEF RunsOK, Set, Fields, Plain, Only

LEMMA OtpIsPlain ==
    ASSUME RunsOK, NEW r \in Requests, NEW v,
           Set(r, [run[r] EXCEPT !.at = "notify", !.otp = v])
    PROVE  Plain(r)
BY DEF RunsOK, Set, Fields, Plain, Only

LEMMA TookIsPlain ==
    ASSUME RunsOK, NEW r \in Requests, NEW there, there \notin {"answer", "putBack"},
           Set(r, [run[r] EXCEPT !.took = TRUE, !.at = there])
    PROVE  Plain(r)
BY DEF RunsOK, Set, Fields, Plain, Only

LEMMA TookAndRepliedIsPlain ==
    ASSUME RunsOK, NEW r \in Requests, NEW code,
           Set(r, Answered([run[r] EXCEPT !.took = TRUE], code))
    PROVE  Plain(r)
BY DEF RunsOK, Answered, Set, Fields, Plain, Only

LEMMA VerifiedIsPlain ==
    ASSUME RunsOK, NEW r \in Requests, NEW code, NEW h,
           Set(r, Answered([run[r] EXCEPT !.asked = clock, !.otp = h], code))
    PROVE  Plain(r)
BY DEF RunsOK, Answered, Set, Fields, Plain, Only

LEMMA PlainKeepsRuns ==
    ASSUME RunsOK, NEW r \in Requests, Plain(r), clock \in Nat, clock' = clock
    PROVE  RunsOK'
BY DEF RunsOK, Plain, Only, Timely, HasRead

\* A request arrives.
LEMMA ArriveIsPlain ==
    ASSUME RunsOK, scenario \in Scenarios, NEW r \in Requests, NEW o \in scenario.ops,
           Arrive(r, o)
    PROVE  Plain(r)
<1>1. o.name \in Names
  BY CredentialsAssumption
<1> DEFINE there == First(o.name)
<1>2. there \notin {"answer", "putBack"}
  BY <1>1 DEF Names, First
<1> HIDE DEF there
<1>3. CASE o.name = "forgotPassword"
  <2>1. PICK l \in links :
          Set(r, [[Waiting EXCEPT !.at = there, !.op = o] EXCEPT !.link = l, !.op.user = l.user])
    BY <1>3 DEF Arrive, there
  <2> QED BY <1>2, <2>1 DEF RunsOK, Set, Waiting, Fields, Plain, Only
<1>4. CASE o.name # "forgotPassword"
  <2>1. Set(r, [Waiting EXCEPT !.at = there, !.op = o])
    BY <1>4 DEF Arrive, there
  <2> QED BY <1>2, <2>1 DEF RunsOK, Set, Waiting, Fields, Plain, Only
<1> QED BY <1>3, <1>4

\* The lookups before anything is asked of Keycloak, and the token that is kept or given up.
LEMMA LookupIsPlain ==
    ASSUME RunsOK, NEW r \in Requests,
           \/ Validate(r) \/ FindSubject(r) \/ FindUser(r) \/ KeepToken(r) \/ TokenFails(r)
    PROVE  Plain(r)
<1>1. CASE Validate(r)
  BY <1>1, GoIsPlain, ReplyIsPlain DEF Validate
<1>2. CASE FindSubject(r)
  <2>1. Set(r, [run[r] EXCEPT !.at = "token", !.saw = temporary[User(r)]])
    BY <1>2 DEF FindSubject
  <2> QED BY <2>1 DEF RunsOK, Set, Fields, Plain, Only
<1>3. CASE FindUser(r)
  <2>1. CASE User(r) \notin Users
    <3>1. PICK code : Reply(r, code) BY <1>3, <2>1 DEF FindUser
    <3> QED BY <3>1, ReplyIsPlain
  <2>2. CASE User(r) \in Users
    <3> DEFINE there == CASE run[r].op.name = "sendPasswordResetLink" -> "mail"
                         [] run[r].op.name = "sendPasswordResetOTP" -> "otp"
                         [] OTHER -> "token"
    <3>1. there \notin {"answer", "putBack"} OBVIOUS
    <3>2. Set(r, [run[r] EXCEPT !.saw = temporary[User(r)], !.at = there])
      BY Zenon, <1>3, <2>2 DEF FindUser
    <3> HIDE DEF there
    <3> QED BY <3>1, <3>2, SawIsPlain
  <2> QED BY <2>1, <2>2
<1>4. CASE KeepToken(r)
  <2> DEFINE there == AfterToken(r)
  <2>1. there \notin {"answer", "putBack"} BY DEF AfterToken
  <2>2. Set(r, [run[r] EXCEPT !.at = there, !.asked = 0]) BY <1>4 DEF KeepToken
  <2> HIDE DEF there
  <2> QED BY <2>1, <2>2 DEF RunsOK, Set, Fields, Plain, Only
<1>5. CASE TokenFails(r)
  BY <1>5, ReplyIsPlain DEF TokenFails
<1> QED BY <1>1, <1>2, <1>3, <1>4, <1>5

\* The statements that change a password or a status.
LEMMA PutIsPlain ==
    ASSUME RunsOK, NEW r \in Requests,
           \/ PutPassword(r) \/ PutRefused(r) \/ PutUnanswered(r) \/ PutBack(r)
           \/ ClearFlag(r) \/ PutStatus(r)
    PROVE  Plain(r)
<1>1. CASE PutPassword(r)
  <2> DEFINE there == IF run[r].op.name = "resetUserPassword" THEN "get" ELSE "flag"
  <2>1. there \notin {"answer", "putBack"} OBVIOUS
  <2>2. Set(r, [run[r] EXCEPT !.took = TRUE, !.at = there]) BY <1>1 DEF PutPassword
  <2> HIDE DEF there
  <2> QED BY <2>1, <2>2, TookIsPlain
<1>2. CASE PutRefused(r)
  <2>1. PICK code : Reply(r, code) BY <1>2 DEF PutRefused
  <2> QED BY <2>1, ReplyIsPlain
<1>3. CASE PutUnanswered(r)
  <2>1. CASE Reply(r, Unanswered) BY <2>1, ReplyIsPlain
  <2>2. CASE Set(r, Answered([run[r] EXCEPT !.took = TRUE], Unanswered))
    BY <2>2, TookAndRepliedIsPlain
  <2> QED BY <1>3, <2>1, <2>2 DEF PutUnanswered
<1>4. CASE PutBack(r)
  BY <1>4, GoIsPlain DEF PutBack
<1>5. CASE ClearFlag(r)
  BY <1>5, ReplyIsPlain DEF ClearFlag
<1>6. CASE PutStatus(r)
  BY <1>6, ReplyIsPlain DEF PutStatus
<1> QED BY <1>1, <1>2, <1>3, <1>4, <1>5, <1>6

\* OTPs and links.
LEMMA OtpStepIsPlain ==
    ASSUME RunsOK, NEW r \in Requests,
           \/ Captcha(r) \/ MakeOtp(r) \/ MakeResetOtp(r) \/ NotifyBySms(r) \/ Notify(r)
           \/ VerifyOtp(r) \/ MailLink(r)
    PROVE  Plain(r)
<1>1. CASE Captcha(r)
  <2>1. (\E there \in {"session", "otp"} : Go(r, there)) \/ Reply(r, 400)
    BY <1>1 DEF Captcha
  <2> QED BY <2>1, GoIsPlain, ReplyIsPlain
<1>2. CASE MakeOtp(r)
  <2>1. PICK v : Set(r, [run[r] EXCEPT !.at = "notify", !.otp = v])
    BY <1>2 DEF MakeOtp
  <2> QED BY <2>1, OtpIsPlain
<1>3. CASE MakeResetOtp(r)
  <2>1. Reply(r, 400) \/ \E v : Set(r, [run[r] EXCEPT !.at = "notify", !.otp = v])
    BY <1>3 DEF MakeResetOtp
  <2> QED BY <2>1, OtpIsPlain, ReplyIsPlain
<1>4. CASE NotifyBySms(r)
  BY <1>4, ReplyIsPlain DEF NotifyBySms, Told
<1>5. CASE Notify(r)
  BY <1>5, ReplyIsPlain DEF Notify, Told
<1>6. CASE VerifyOtp(r)
  <2>1. PICK h \in sent :
          Set(r, Answered([run[r] EXCEPT !.asked = clock, !.otp = h], Verdict(run[r].op, h)))
    BY <1>6 DEF VerifyOtp
  <2> QED BY <2>1, VerifiedIsPlain
<1>7. CASE MailLink(r)
  BY <1>7, ReplyIsPlain DEF MailLink
<1> QED BY <1>1, <1>2, <1>3, <1>4, <1>5, <1>6, <1>7

\* Sessions.
LEMMA SessionStepIsPlain ==
    ASSUME RunsOK, NEW r \in Requests, Login(r) \/ Refresh(r) \/ Logout(r)
    PROVE  Plain(r)
BY ReplyIsPlain DEF Login, Refresh, Logout

-----------------------------------------------------------------------------
(* The steps that take a token, or read an account. *)

LEMMA TakeKeepsRuns ==
    ASSUME RunsOK, CacheOK, clock \in Nat, NEW r \in Requests, TakeToken(r)
    PROVE  RunsOK' /\ Only(r) /\ run'[r].at # "putBack"
<1>1. CASE Set(r, [run[r] EXCEPT !.at = AfterToken(r), !.token = cached.dies]) /\ cached # None
  <2> DEFINE there == AfterToken(r)
             dies == cached.dies
  <2>1. there \notin {"answer", "putBack"} /\ dies \in Nat BY <1>1 DEF AfterToken, CacheOK
  <2>2. Set(r, [run[r] EXCEPT !.at = there, !.token = dies]) BY <1>1
  <2> HIDE DEF there, dies
  <2>3. Only(r) /\ run'[r].at = there /\ run'[r].asked = run[r].asked /\ run'[r].token = dies
    BY <2>2 DEF RunsOK, Set, Fields, Only
  <2> QED BY <2>1, <2>3 DEF RunsOK, Only, Timely, HasRead, TakeToken
<1>2. CASE Set(r, [run[r] EXCEPT !.at = "ask", !.asked = clock])
  BY <1>2 DEF RunsOK, Set, Fields, Plain, Only, Timely, HasRead, TakeToken
<1> QED BY <1>1, <1>2 DEF TakeToken

LEMMA IssueKeepsRuns ==
    ASSUME RunsOK, clock \in Nat, NEW r \in Requests, Issue(r)
    PROVE  RunsOK' /\ Only(r) /\ run'[r].at # "putBack"
<1>1. /\ Only(r) /\ run'[r].at = "answer" /\ run'[r].asked = run[r].asked
      /\ run'[r].token = clock + TokenLife
  BY DEF RunsOK, Issue, Set, Fields, Only
<1> QED BY <1>1, CredentialsAssumption DEF RunsOK, Only, Timely, HasRead, Issue

\* Nobody else's reads change, and no status but of the users in raced.
LEMMA ReadsStay ==
    ASSUME ReadsCurrent, NEW r \in Requests, Only(r), run'[r].at # "putBack", raced' = raced,
           \A u \in Users \ raced : account'[u].enabled = account[u].enabled
    PROVE  ReadsCurrent'
BY DEF ReadsCurrent, Only, User

LEMMA GetKeepsRuns ==
    ASSUME RunsOK, AccountsOK, ReadsCurrent, clock \in Nat, NEW r \in Requests, GetAccount(r)
    PROVE  RunsOK' /\ ReadsCurrent'
<1>1. clock' = clock /\ account' = account /\ raced' = raced
  BY DEF GetAccount, keycloak, history
<1>2. CASE Go(r, "flag")
  <2>1. Plain(r) BY <1>2, GoIsPlain
  <2> QED BY <1>1, <2>1, PlainKeepsRuns, ReadsStay DEF Plain
<1>3. CASE ~Go(r, "flag")
  <2> DEFINE a == account[User(r)]
             there == IF a.passwordAuth THEN "flag" ELSE "putBack"
  <2>1. there # "answer" OBVIOUS
  <2>2. Set(r, [run[r] EXCEPT !.account = a, !.at = there])
    BY <1>3 DEF GetAccount
  <2>3. run[r].op.user \in Users => DOMAIN a = AccountFields
    BY DEF AccountsOK, User
  <2>4. a = account[run[r].op.user] BY DEF User
  <2> HIDE DEF a, there
  <2>5. /\ Only(r) /\ run'[r].at = there /\ run'[r].account = a /\ run'[r].op = run[r].op
        /\ run'[r].asked = run[r].asked /\ run'[r].token = run[r].token
    BY <2>2 DEF RunsOK, Set, Fields, Only
  <2>6. RunsOK' BY <1>1, <2>1, <2>3, <2>5 DEF RunsOK, Only, Timely, HasRead
  <2>7. ReadsCurrent' BY <1>1, <2>4, <2>5 DEF ReadsCurrent, Only, User
  <2> QED BY <2>6, <2>7
<1> QED BY <1>2, <1>3

-----------------------------------------------------------------------------
(* Accounts. *)

\* What Keycloak has of an account changes with the password.
LEMMA PasswordKeepsAccounts ==
    ASSUME AccountsOK, StatusLostToRaces, ReadsCurrent, NEW r \in Requests, Changes(r),
           Plain(r), UNCHANGED <<enabledTo, raced>>
    PROVE  AccountsOK' /\ StatusLostToRaces' /\ ReadsCurrent'
<1>1. AccountsOK' /\ \A u \in Users : account'[u].enabled = account[u].enabled
  BY DEF AccountsOK, Changes, AccountFields
<1> QED BY <1>1, ReadsStay DEF StatusLostToRaces, Plain

\* What was read is written back: it is what is there, unless the status was put since.
LEMMA BackKeepsAccounts ==
    ASSUME RunsOK, AccountsOK, StatusLostToRaces, ReadsCurrent, NEW r \in Requests,
           PutBack(r), Plain(r)
    PROVE  AccountsOK' /\ StatusLostToRaces' /\ ReadsCurrent'
<1>0. UNCHANGED <<enabledTo, raced>>
  BY DEF PutBack, history
<1>1. CASE UNCHANGED account
  BY <1>0, <1>1, ReadsStay DEF AccountsOK, StatusLostToRaces, Plain
<1>2. CASE ~UNCHANGED account
  <2> DEFINE old == run[r].account
             back == Back(r)
  <2>1. account' = [account EXCEPT ![User(r)] = back]
    BY <1>2 DEF PutBack
  <2>2. User(r) \in Users => DOMAIN back = AccountFields /\ back.enabled = old.enabled
    <3>1. User(r) \in Users => DOMAIN old = AccountFields
      BY DEF RunsOK, HasRead, User, PutBack
    <3> QED BY <3>1 DEF Back, AccountFields
  <2>3. User(r) \in Users \ raced => old.enabled = account[User(r)].enabled
    BY DEF ReadsCurrent, PutBack
  <2> HIDE DEF old, back
  <2>4. AccountsOK'
    BY <1>0, <2>1, <2>2 DEF AccountsOK
  <2>5. \A u \in Users \ raced : account'[u].enabled = account[u].enabled
    BY <2>1, <2>2, <2>3 DEF AccountsOK
  <2> QED BY <1>0, <2>4, <2>5, ReadsStay DEF StatusLostToRaces, Plain
<1> QED BY <1>1, <1>2

\* The status that Keycloak is given is the one that it is expected to have; who has read
\* another is Overlapped.
LEMMA StatusKeepsAccounts ==
    ASSUME AccountsOK, StatusLostToRaces, ReadsCurrent, NEW r \in Requests, PutStatus(r),
           Plain(r)
    PROVE  AccountsOK' /\ StatusLostToRaces' /\ ReadsCurrent'
<1>1. CASE UNCHANGED <<account, history>>
  BY <1>1, ReadsStay DEF AccountsOK, StatusLostToRaces, history, Plain
<1>2. CASE /\ account' = [account EXCEPT ![User(r)].enabled = run[r].op.value]
           /\ enabledTo' = [enabledTo EXCEPT ![User(r)] = run[r].op.value]
           /\ raced' = IF Overlapped(User(r)) THEN raced \cup {User(r)}
                       ELSE raced \ {User(r)}
  <2>1. AccountsOK' /\ \A u \in Users \ {User(r)} :
          account'[u] = account[u] /\ enabledTo'[u] = enabledTo[u]
    BY <1>2 DEF AccountsOK, AccountFields
  <2>2. User(r) \in Users => account'[User(r)].enabled = enabledTo'[User(r)]
    BY <1>2 DEF AccountsOK, AccountFields
  <2>3. StatusLostToRaces'
    BY <1>2, <2>1, <2>2 DEF StatusLostToRaces
  <2>4. ASSUME NEW q \in Requests, run'[q].at = "putBack", run'[q].op.user \in Users \ raced'
        PROVE  run'[q].account.enabled = account'[run'[q].op.user].enabled
    <3>1. run'[q] = run[q] BY <2>4 DEF Plain, Only
    <3>2. User(q) # User(r) BY <1>2, <2>4, <3>1 DEF Overlapped, User
    <3> QED BY <1>2, <2>1, <2>4, <3>1, <3>2 DEF ReadsCurrent, User
  <2> QED BY <2>1, <2>3, <2>4 DEF ReadsCurrent, User
<1> QED BY <1>1, <1>2 DEF PutStatus

-----------------------------------------------------------------------------
LEMMA InitInvariant == Init => IInv
<1> SUFFICES ASSUME Init PROVE IInv
  OBVIOUS
<1>1. RunsOK
  BY CredentialsAssumption DEF Init, RunsOK, Waiting, Fields, Timely, HasRead
<1>2. AccountsOK /\ StatusLostToRaces /\ ReadsCurrent
  BY DEF Init, AccountsOK, AccountFields, StatusLostToRaces, ReadsCurrent, Waiting
<1> QED BY <1>1, <1>2 DEF Init, IInv, CacheOK

LEMMA StepInvariant == IInv /\ [Next]_vars => IInv'
<1> SUFFICES ASSUME IInv, [Next]_vars PROVE IInv'
  OBVIOUS
<1> USE DEF IInv
<1>0. ASSUME UNCHANGED <<account, enabledTo, raced>>
      PROVE  AccountsOK' /\ StatusLostToRaces'
  BY <1>0 DEF AccountsOK, StatusLostToRaces
<1>00. ASSUME NEW r \in Requests, Only(r), run'[r].at # "putBack", UNCHANGED <<account, raced>>
       PROVE  ReadsCurrent'
  BY <1>00, ReadsStay
<1>1. CASE UNCHANGED vars
  <2>1. ReadsCurrent' BY <1>1 DEF vars, ReadsCurrent, User
  <2> QED BY <1>1, <1>0, <2>1 DEF vars, RunsOK, CacheOK, Timely, HasRead
<1>2. CASE Tick
  <2>1. clock' = clock + 1 /\ clock' \in Nat /\ UNCHANGED <<run, cached, scenario>>
    BY <1>2 DEF Tick
  <2>2. RunsOK'
    BY <2>1 DEF RunsOK, Timely, HasRead
  <2>3. ReadsCurrent'
    BY <1>2, <2>1 DEF Tick, keycloak, history, ReadsCurrent, User
  <2> QED BY <1>2, <1>0, <2>1, <2>2, <2>3 DEF Tick, keycloak, history, CacheOK
<1>3. ASSUME NEW r \in Requests, NEW o \in scenario.ops, Arrive(r, o) PROVE IInv'
  <2>1. Plain(r) /\ UNCHANGED <<clock, cached, account, enabledTo, raced, scenario>>
    BY <1>3, ArriveIsPlain DEF Arrive, keycloak, history
  <2> QED BY <1>0, <1>00, <2>1, PlainKeepsRuns DEF CacheOK, Plain
<1>4. ASSUME NEW r \in Requests, Validate(r) \/ FindSubject(r) \/ FindUser(r) PROVE IInv'
  <2>1. UNCHANGED <<clock, cached, account, enabledTo, raced, scenario>>
    BY <1>4 DEF Validate, FindSubject, FindUser, keycloak, history
  <2> QED BY <1>4, <1>0, <1>00, <2>1, LookupIsPlain, PlainKeepsRuns DEF CacheOK, Plain
<1>5. ASSUME NEW r \in Requests, TakeToken(r) PROVE IInv'
  BY <1>5, <1>0, <1>00, TakeKeepsRuns DEF TakeToken, keycloak, history, CacheOK
<1>6. ASSUME NEW r \in Requests, Issue(r) PROVE IInv'
  BY <1>6, <1>0, <1>00, IssueKeepsRuns DEF Issue, keycloak, history, CacheOK
<1>7. ASSUME NEW r \in Requests, KeepToken(r) PROVE IInv'
  <2>1. UNCHANGED <<clock, account, enabledTo, raced, scenario>>
    BY <1>7 DEF KeepToken, keycloak, history
  <2>2. CacheOK'
    <3>1. /\ run[r].asked \in Nat /\ run[r].token \in Nat
          /\ run[r].asked + TokenLife <= run[r].token
      BY <1>7 DEF KeepToken, RunsOK, Timely
    <3>2. cached' = [dies |-> run[r].token, until |-> run[r].asked + TokenLife - TokenBuffer]
      BY <1>7 DEF KeepToken
    <3> QED BY <3>1, <3>2, CredentialsAssumption DEF CacheOK
  <2> QED BY <1>7, <1>0, <1>00, <2>1, <2>2, LookupIsPlain, PlainKeepsRuns DEF Plain
<1>8. ASSUME NEW r \in Requests, TokenFails(r) PROVE IInv'
  <2>1. UNCHANGED <<clock, account, enabledTo, raced, scenario>> /\ cached' = None
    BY <1>8 DEF TokenFails, keycloak, history
  <2> QED BY <1>8, <1>0, <1>00, <2>1, LookupIsPlain, PlainKeepsRuns DEF CacheOK, Plain
<1>9. ASSUME NEW r \in Requests,
             \/ PutPassword(r) \/ PutRefused(r) \/ PutUnanswered(r) \/ PutBack(r)
             \/ ClearFlag(r) \/ PutStatus(r)
      PROVE  IInv'
  <2>1. UNCHANGED <<clock, cached, scenario>>
    BY <1>9 DEF PutPassword, PutRefused, PutUnanswered, PutBack, ClearFlag, PutStatus
  <2>0. Plain(r)
    BY <1>9, PutIsPlain
  <2>2. AccountsOK' /\ StatusLostToRaces' /\ ReadsCurrent'
    <3>1. CASE PutPassword(r)
      BY <2>0, <3>1, PasswordKeepsAccounts DEF PutPassword, history
    <3>2. CASE PutRefused(r) \/ ClearFlag(r)
      BY <2>0, <3>2, <1>0, <1>00 DEF PutRefused, ClearFlag, keycloak, history, Plain
    <3>3. CASE PutUnanswered(r)
      BY <2>0, <3>3, <1>0, <1>00, PasswordKeepsAccounts DEF PutUnanswered, history, Plain
    <3>4. CASE PutBack(r)
      BY <2>0, <3>4, BackKeepsAccounts
    <3>5. CASE PutStatus(r)
      BY <2>0, <3>5, StatusKeepsAccounts
    <3> QED BY <1>9, <3>1, <3>2, <3>3, <3>4, <3>5
  <2> QED BY <2>0, <2>1, <2>2, PlainKeepsRuns DEF CacheOK
<1>10. ASSUME NEW r \in Requests, GetAccount(r) PROVE IInv'
  BY <1>10, <1>0, GetKeepsRuns DEF GetAccount, keycloak, history, CacheOK
<1>11. ASSUME NEW r \in Requests,
              \/ Captcha(r) \/ MakeOtp(r) \/ MakeResetOtp(r) \/ NotifyBySms(r) \/ Notify(r)
              \/ VerifyOtp(r) \/ MailLink(r)
       PROVE  IInv'
  <2>1. UNCHANGED <<clock, cached, account, enabledTo, raced, scenario>>
    BY <1>11 DEF Captcha, MakeOtp, MakeResetOtp, NotifyBySms, Notify, VerifyOtp, MailLink,
                 keycloak, history
  <2> QED BY <1>11, <1>0, <1>00, <2>1, OtpStepIsPlain, PlainKeepsRuns DEF CacheOK, Plain
<1>12. ASSUME NEW r \in Requests, Login(r) \/ Refresh(r) \/ Logout(r) PROVE IInv'
  <2>1. UNCHANGED <<clock, cached, account, enabledTo, raced, scenario>>
    BY <1>12 DEF Login, Refresh, Logout, keycloak, history
  <2> QED BY <1>12, <1>0, <1>00, <2>1, SessionStepIsPlain, PlainKeepsRuns DEF CacheOK, Plain
<1> QED
  BY <1>1, <1>2, <1>3, <1>4, <1>5, <1>6, <1>7, <1>8, <1>9, <1>10, <1>11, <1>12 DEF Next

\* The invariant behind the others: a token under way outlives the time it was asked for
\* by its whole life, what is cached outlives its use by the buffer, and what a reset has
\* read of an account is so still, or the status was put in between.
THEOREM Invariance == Spec => []IInv
<1> QED BY InitInvariant, StepInvariant, PTL DEF Spec

\* getKeycloakAdminToken takes no token from its cache that dies within the buffer.
THEOREM TokensAreGood == Spec => []TokensLast
<1>1. IInv => TokensLast
  BY CredentialsAssumption DEF IInv, CacheOK, TokensLast
<1> QED BY Invariance, <1>1, PTL

\* An account is enabled or not as Keycloak was last told, however resets, status updates and
\* errors follow each other, unless it was told while a reset of the user was between the
\* read and the write of enablePasswordAuthenticationIfNeeded.
THEOREM StatusIsKept == Spec => []StatusLostToRaces
<1>1. IInv => StatusLostToRaces
  BY DEF IInv
<1> QED BY Invariance, <1>1, PTL

-----------------------------------------------------------------------------
(* What requests are answered. *)

Resets == {"resetUserPassword", "forgotPassword"}

\* The names of the requests that come to a place.
Way(f) ==
    /\ f.at = "find" =>
          f.op.name \in {"resetUserPassword", "sendPasswordResetLink", "sendPasswordResetOTP"}
    /\ f.at \in {"validate", "subject"} => f.op.name = "forgotPassword"
    /\ f.at \in {"token", "ask", "answer"} =>
          f.op.name \in Resets \cup {"syncUserStatusWithKeycloak"}
    /\ f.at \in {"put", "flag"} => f.op.name \in Resets
    /\ f.at \in {"get", "putBack"} => f.op.name = "resetUserPassword"
    /\ f.at = "status" => f.op.name = "syncUserStatusWithKeycloak"
    /\ f.at = "captcha" => f.op.name \in {"sendOtp", "login"}
    /\ f.at \in {"otp", "notify"} => f.op.name \in {"sendOtp", "sendPasswordResetOTP"}
    /\ f.at = "mail" => f.op.name = "sendPasswordResetLink"
    /\ f.at = "verify" => f.op.name = "verifyOtp"
    /\ f.at = "session" => f.op.name \in {"login", "refreshToken", "logout"}

\* What a request f has done to the password, and what it has answered.
Says(f) ==
    /\ f.took \in BOOLEAN
    /\ f.took = TRUE => f.at \in {"get", "putBack", "flag", "done"} /\ f.reply \notin 400..499
    /\ f.at \in {"get", "putBack", "flag"} => f.took = TRUE
    /\ f.at # "done" => f.reply = 0

\* The users that a request f has found.
Found(f) ==
    /\ f.op.name = "sendPasswordResetOTP" /\ f.at = "otp" => f.op.user \in Users
    /\ f.op.name = "resetUserPassword"
          /\ f.at \in {"token", "ask", "answer", "put", "get", "putBack", "flag"} =>
          f.op.user \in Users /\ (f.saw = TRUE \/ temporary[f.op.user] = FALSE)

\* Whose OTP a request f is about to tell.
Tells(f) ==
    f.at = "notify" =>
        /\ f.otp.expires \in Nat
        /\ IF f.op.name = "sendOtp" THEN f.otp.who = f.op.value /\ f.otp.reason = f.op.reason
           ELSE f.otp.who \in Users

Honest(f) == Way(f) /\ Says(f) /\ Found(f) /\ Tells(f)

\* A reset that is answered 200, and a logout.
ResetDone(f) ==
    f.op.name = "resetUserPassword" /\ f.at = "done" /\ f.reply = 200 =>
        f.took = TRUE /\ f.op.user \in Users /\ temporary[f.op.user] = FALSE
LogoutDone(f) ==
    f.op.name = "logout" /\ f.at = "done" /\ f.reply = 200 =>
        /\ f.op.value \in Requests \ sessions
        /\ run[f.op.value].at = "done"

\* Hash h was sent by sendOtp, to the number that was hashed.
SentBy(q, h) ==
    /\ Done(q, "sendOtp") /\ run[q].reply = 200 /\ run[q].otp = h
    /\ h.who = run[q].op.value /\ h.reason = run[q].op.reason
SentOK ==
    \A h \in sent :
        h.expires \in Nat /\ (h.who \in Users \/ \E q \in Requests : SentBy(q, h))

\* When what o brings back with hash h at time now is accepted.
Good(o, h, now) ==
    /\ now <= h.expires /\ o.reason \in {"signup", "forgot"} /\ Matches(o, h)
    /\ o.reason = "forgot" => o.user \in Users

\* Request r was answered that its OTP is right, or that it is not; or that it was sent.
VerifiedOK(r) ==
    /\ Done(r, "verifyOtp") =>
        run[r].otp \in sent /\ (run[r].reply = 200 <=> Good(run[r].op, run[r].otp, run[r].asked))
    /\ Done(r, "sendOtp") /\ run[r].reply = 200 => SentBy(r, run[r].otp)

Sessions == \A s \in sessions : s \in Requests /\ run[s].at = "done"
Flags ==
    /\ temporary \in [Users -> BOOLEAN]
    /\ \A u \in Users : temporary[u] = FALSE =>
          \E r \in Requests : run[r].took = TRUE /\ run[r].op.user = u

AnswersInv ==
    /\ SentOK /\ Sessions /\ Flags
    /\ \A r \in Requests :
          Honest(run[r]) /\ ResetDone(run[r]) /\ LogoutDone(run[r]) /\ VerifiedOK(r)

\* Request r takes a step that keeps the parts of others: what is done stays, what is told is
\* true, and only a request that has changed the password clears temporaryPassword.
Lawful(r) ==
    /\ Only(r) /\ run[r].at # "done"
    /\ run[r].took = TRUE => run'[r].took = TRUE /\ run'[r].op = run[r].op
    /\ Honest(run[r])' /\ ResetDone(run[r])' /\ LogoutDone(run[r])' /\ VerifiedOK(r)'
    /\ sent \subseteq sent'
    /\ \A h \in sent' \ sent : h.expires \in Nat /\ (h.who \in Users \/ SentBy(r, h)')
    /\ sessions' \subseteq sessions \cup {r} /\ (r \in sessions' => run'[r].at = "done")
    /\ \/ temporary' = temporary
       \/ temporary' = [temporary EXCEPT ![User(r)] = FALSE] /\ run[r].took = TRUE

\* A step that tells nothing but its own request, and no 200 that promises anything.
Quiet(r) ==
    /\ Only(r) /\ run[r].at # "done"
    /\ run[r].took = TRUE => run'[r].took = TRUE /\ run'[r].op = run[r].op
    /\ Honest(run[r])'
    /\ run'[r].at = "done" => run'[r].op.name # "verifyOtp"
    /\ run'[r].at = "done" /\ run'[r].reply = 200 =>
          run'[r].op.name \notin {"sendOtp", "resetUserPassword", "logout"}
    /\ UNCHANGED <<sent, sessions, temporary>>

\* A step to another place, by which nothing is answered.
Moves(r, there) ==
    /\ Only(r) /\ run'[r].at = there
    /\ run'[r].op = run[r].op /\ run'[r].took = run[r].took /\ run'[r].reply = run[r].reply
    /\ UNCHANGED <<sent, sessions, temporary>>

LEMMA QuietIsLawful ==
    ASSUME Sessions, NEW r \in Requests, Quiet(r)
    PROVE  Lawful(r)
<1>1. r \notin sessions'
  BY DEF Quiet, Sessions
<1>2. ResetDone(run[r])' /\ LogoutDone(run[r])' /\ VerifiedOK(r)'
  BY DEF Quiet, ResetDone, LogoutDone, VerifiedOK, Done
<1> QED BY <1>1, <1>2 DEF Quiet, Lawful

LEMMA LawfulKeepsAnswers ==
    ASSUME AnswersInv, NEW r \in Requests, Lawful(r)
    PROVE  AnswersInv'
<1>1. \A q \in Requests : q # r => run'[q] = run[q]
  BY DEF Lawful, Only
<1>2. \A q \in Requests : run[q].at = "done" => run'[q] = run[q]
  BY <1>1 DEF Lawful
<1>3. temporary' \in [Users -> BOOLEAN]
      /\ \A u \in Users : temporary[u] = FALSE => temporary'[u] = FALSE
  BY DEF AnswersInv, Flags, Lawful
<1>4. SentOK'
  <2> SUFFICES ASSUME NEW h \in sent'
               PROVE  h.expires \in Nat /\ (h.who \in Users \/ \E q \in Requests : SentBy(q, h)')
    BY DEF SentOK
  <2>1. CASE h \in sent /\ h.who \notin Users
    <3>1. h.expires \in Nat
      BY <2>1 DEF AnswersInv, SentOK
    <3>2. PICK q \in Requests : SentBy(q, h)
      BY <2>1 DEF AnswersInv, SentOK
    <3>3. run'[q] = run[q]
      BY <3>2, <1>2 DEF SentBy, Done
    <3>4. SentBy(q, h)'
      BY <3>2, <3>3 DEF SentBy, Done
    <3> QED BY <3>1, <3>4
  <2>2. CASE h \in sent /\ h.who \in Users
    BY <2>2 DEF AnswersInv, SentOK
  <2>3. CASE h \notin sent
    BY <2>3 DEF Lawful
  <2> QED BY <2>1, <2>2, <2>3
<1>5. Sessions'
  BY <1>2 DEF AnswersInv, Sessions, Lawful
<1>6. Flags'
  <2> SUFFICES ASSUME NEW u \in Users, temporary'[u] = FALSE
               PROVE  \E q \in Requests : run'[q].took = TRUE /\ run'[q].op.user = u
    BY <1>3 DEF Flags
  <2>1. CASE temporary[u] = FALSE
    <3>1. PICK q \in Requests : run[q].took = TRUE /\ run[q].op.user = u
      BY <2>1 DEF AnswersInv, Flags
    <3> QED BY <3>1, <1>1 DEF Lawful
  <2>2. CASE temporary[u] # FALSE
    <3>1. u = User(r) /\ run[r].took = TRUE
      BY <2>2 DEF Lawful, AnswersInv, Flags
    <3> QED BY <3>1 DEF Lawful, User
  <2> QED BY <2>1, <2>2
<1>7. ASSUME NEW q \in Requests
      PROVE  Honest(run[q])' /\ ResetDone(run[q])' /\ LogoutDone(run[q])' /\ VerifiedOK(q)'
  <2>1. CASE q = r
    BY <2>1 DEF Lawful
  <2>2. CASE q # r
    <3>1. run'[q] = run[q]
      BY <2>2, <1>1
    <3>2. Honest(run[q]) /\ ResetDone(run[q]) /\ LogoutDone(run[q]) /\ VerifiedOK(q)
      BY DEF AnswersInv
    <3>3. Honest(run[q])'
      BY <3>1, <3>2, <1>3 DEF Honest, Way, Says, Found, Tells
    <3>4. ResetDone(run[q])'
      BY <3>1, <3>2, <1>3 DEF ResetDone
    <3>5. LogoutDone(run[q])'
      BY <3>1, <3>2, <1>2 DEF LogoutDone, Lawful
    <3>6. VerifiedOK(q)'
      BY <3>1, <3>2 DEF VerifiedOK, Done, Lawful, Good, Matches, SentBy
    <3> QED BY <3>3, <3>4, <3>5, <3>6
  <2> QED BY <2>1, <2>2
<1> QED BY <1>4, <1>5, <1>6, <1>7 DEF AnswersInv

-----------------------------------------------------------------------------
(* What Set does. *)

LEMMA ReplyDoes ==
    ASSUME RunsOK, NEW r \in Requests, NEW code, Reply(r, code)
    PROVE  /\ Only(r) /\ run'[r].at = "done" /\ run'[r].reply = code
           /\ run'[r].op = run[r].op /\ run'[r].took = run[r].took
           /\ run'[r].otp = run[r].otp /\ run'[r].asked = run[r].asked
BY DEF RunsOK, Reply, Answered, Set, Fields, Only

LEMMA GoMoves ==
    ASSUME RunsOK, NEW r \in Requests, NEW there, Go(r, there),
           UNCHANGED <<sent, sessions, temporary>>
    PROVE  Moves(r, there) /\ run'[r].saw = run[r].saw
BY DEF RunsOK, Go, Set, Fields, Only, Moves

\* A server error is no promise.
LEMMA FailureIsQuiet ==
    ASSUME RunsOK, NEW r \in Requests, Reply(r, 500), Says(run[r]), run[r].at # "done",
           run[r].op.name # "verifyOtp", UNCHANGED <<sent, sessions, temporary>>
    PROVE  Quiet(r)
<1>1. /\ Only(r) /\ run'[r].at = "done" /\ run'[r].reply = 500
      /\ run'[r].op = run[r].op /\ run'[r].took = run[r].took
  BY ReplyDoes
<1>2. run'[r].reply \notin 400..499 /\ run'[r].reply # 200
  BY <1>1
<1>3. Says(run[r])'
  BY <1>1, <1>2 DEF Says
<1>4. Honest(run[r])'
  BY <1>1, <1>3 DEF Honest, Way, Found, Tells
<1> QED BY <1>1, <1>2, <1>4 DEF Quiet

\* A client error is answered by a request that has not changed the password.
LEMMA RefusalIsQuiet ==
    ASSUME RunsOK, NEW r \in Requests, Reply(r, 400) \/ Reply(r, 401) \/ Reply(r, 404),
           Says(run[r]), run[r].took = FALSE, run[r].at # "done",
           run[r].op.name # "verifyOtp", UNCHANGED <<sent, sessions, temporary>>
    PROVE  Quiet(r)
<1>1. /\ Only(r) /\ run'[r].at = "done"
      /\ run'[r].op = run[r].op /\ run'[r].took = run[r].took
  BY ReplyDoes
<1>2. run'[r].reply # 200
  BY ReplyDoes
<1>3. Says(run[r])'
  BY <1>1 DEF Says
<1>4. Honest(run[r])'
  BY <1>1, <1>3 DEF Honest, Way, Found, Tells
<1> QED BY <1>1, <1>2, <1>4 DEF Quiet

\* A 200 of other requests than these promises nothing.
LEMMA SuccessIsQuiet ==
    ASSUME RunsOK, NEW r \in Requests, Reply(r, 200), Says(run[r]), run[r].at # "done",
           run[r].op.name \notin {"verifyOtp", "sendOtp", "resetUserPassword", "logout"},
           UNCHANGED <<sent, sessions, temporary>>
    PROVE  Quiet(r)
<1>1. /\ Only(r) /\ run'[r].at = "done" /\ run'[r].reply = 200
      /\ run'[r].op = run[r].op /\ run'[r].took = run[r].took
  BY ReplyDoes
<1>2. run'[r].reply \notin 400..499
  BY <1>1
<1>3. Says(run[r])'
  BY <1>1, <1>2 DEF Says
<1>4. Honest(run[r])'
  BY <1>1, <1>3 DEF Honest, Way, Found, Tells
<1> QED BY <1>1, <1>4 DEF Quiet

\* A request that moves on knows what its new place asks for.
LEMMA MovesIsQuiet ==
    ASSUME NEW r \in Requests, NEW there, Moves(r, there), Says(run[r]),
           run[r].at # "done", there # "done",
           there \in {"get", "putBack", "flag"} <=> run[r].at \in {"get", "putBack", "flag"},
           Way(run[r])', Found(run[r])', Tells(run[r])'
    PROVE  Quiet(r)
<1>1. Says(run[r])'
  BY DEF Says, Moves
<1>2. Honest(run[r])'
  BY <1>1 DEF Honest
<1> QED BY <1>2 DEF Quiet, Moves

-----------------------------------------------------------------------------
(* The actions. *)

LEMMA ArriveIsQuiet ==
    ASSUME RunsOK, scenario \in Scenarios, NEW r \in Requests, NEW o \in scenario.ops,
           Says(run[r]), Arrive(r, o)
    PROVE  Quiet(r)
<1> DEFINE there == First(o.name)
<1>1. o.name \in Names /\ o = Op(o.name, o.user, o.value, o.otp, o.reason)
  BY CredentialsAssumption
<1>2. /\ Only(r) /\ run'[r].at = there /\ run'[r].op.name = o.name
      /\ run'[r].took = FALSE /\ run'[r].reply = 0
  <2> HIDE DEF there
  <2>1. CASE o.name = "forgotPassword"
    <3>1. PICK l \in links :
            Set(r, [[Waiting EXCEPT !.at = there, !.op = o] EXCEPT !.link = l, !.op.user = l.user])
      BY <2>1 DEF Arrive, there
    <3>2. Only(r) /\ run'[r] = [[Waiting EXCEPT !.at = there, !.op = o]
                                  EXCEPT !.link = l, !.op.user = l.user]
      BY <3>1 DEF RunsOK, Set, Waiting, Fields, Only
    <3>3. /\ run'[r].at = there /\ run'[r].op = [o EXCEPT !.user = l.user]
          /\ run'[r].took = FALSE /\ run'[r].reply = 0
      BY <3>2 DEF Waiting
    <3>4. [o EXCEPT !.user = l.user].name = o.name
      BY <1>1 DEF Op
    <3> QED BY <3>2, <3>3, <3>4
  <2>2. CASE o.name # "forgotPassword"
    <3>1. Set(r, [Waiting EXCEPT !.at = there, !.op = o])
      BY <2>2 DEF Arrive, there
    <3> QED BY <3>1 DEF RunsOK, Set, Waiting, Fields, Only
  <2> QED BY <2>1, <2>2
<1>3. /\ there \in {"find", "validate", "token", "captcha", "verify", "session"}
      /\ there = "token" => o.name = "syncUserStatusWithKeycloak"
  BY <1>1 DEF First, Names
<1>4. Way(run[r])'
  BY <1>1, <1>2 DEF Way, First, Names, Resets
<1> HIDE DEF there
<1>5. Says(run[r])' /\ Tells(run[r])'
  <2>1. run'[r].at \notin {"get", "putBack", "flag", "notify", "done"}
    BY <1>2, <1>3
  <2> QED BY <1>2, <2>1 DEF Says, Tells
<1>6. Found(run[r])'
  BY <1>2, <1>3, <1>4 DEF Found, Way
<1>7. run[r].took # TRUE /\ run[r].at # "done"
  BY DEF Arrive, Says
<1>8. UNCHANGED <<sent, sessions, temporary>>
  BY DEF Arrive, keycloak
<1> QED BY <1>2, <1>3, <1>4, <1>5, <1>6, <1>7, <1>8 DEF Quiet, Honest

\* The row that is found is that of the user, and its temporaryPassword what it is now.
LEMMA LookupIsQuiet ==
    ASSUME RunsOK, Flags, NEW r \in Requests, Honest(run[r]),
           Validate(r) \/ FindSubject(r) \/ FindUser(r)
    PROVE  Quiet(r)
<1>1. UNCHANGED <<sent, sessions, temporary>>
  BY DEF Validate, FindSubject, FindUser, keycloak
<1>2. CASE Validate(r)
  <2>1. CASE Reply(r, LinkExpired)
    <3>1. /\ Says(run[r]) /\ run[r].took = FALSE /\ run[r].at # "done"
          /\ run[r].op.name # "verifyOtp"
      BY <1>2 DEF Validate, Honest, Says, Way
    <3> QED BY <1>1, <2>1, <3>1, RefusalIsQuiet DEF LinkExpired
  <2>2. CASE Go(r, "subject")
    <3>1. Moves(r, "subject") BY <1>1, <2>2, GoMoves
    <3> QED BY <1>2, <3>1, MovesIsQuiet DEF Validate, Honest, Moves, Way, Found, Tells
  <2> QED BY <1>2, <2>1, <2>2 DEF Validate
<1>3. CASE FindSubject(r)
  <2>1. Moves(r, "token")
    <3>1. Set(r, [run[r] EXCEPT !.at = "token", !.saw = temporary[User(r)]])
      BY <1>3 DEF FindSubject
    <3> QED BY <1>1, <3>1 DEF RunsOK, Set, Fields, Only, Moves
  <2> QED BY <1>3, <2>1, MovesIsQuiet DEF FindSubject, Honest, Moves, Way, Found, Tells, Resets
<1>4. CASE FindUser(r)
  <2>1. CASE User(r) \notin Users
    <3>1. Reply(r, 400) \/ Reply(r, 404) BY <1>4, <2>1 DEF FindUser
    <3>2. /\ Says(run[r]) /\ run[r].took = FALSE /\ run[r].at # "done"
          /\ run[r].op.name # "verifyOtp"
      BY <1>4 DEF FindUser, Honest, Says, Way
    <3> QED BY <1>1, <3>1, <3>2, RefusalIsQuiet
  <2>2. CASE User(r) \in Users
    <3> DEFINE there == CASE run[r].op.name = "sendPasswordResetLink" -> "mail"
                         [] run[r].op.name = "sendPasswordResetOTP" -> "otp"
                         [] OTHER -> "token"
    <3>1. /\ there \in {"mail", "otp", "token"}
          /\ there = "mail" => run[r].op.name = "sendPasswordResetLink"
          /\ there = "otp" => run[r].op.name = "sendPasswordResetOTP"
          /\ there = "token" => run[r].op.name = "resetUserPassword"
      BY <1>4 DEF FindUser, Honest, Way
    <3>2. Set(r, [run[r] EXCEPT !.saw = temporary[User(r)], !.at = there])
      BY Zenon, <1>4, <2>2 DEF FindUser
    <3> HIDE DEF there
    <3>3. Moves(r, there) /\ run'[r].saw = temporary[User(r)]
      BY <1>1, <3>2 DEF RunsOK, Set, Fields, Only, Moves
    <3>4. Way(run[r])' /\ Tells(run[r])'
      BY <3>1, <3>3 DEF Moves, Way, Tells, Resets
    <3>5. Found(run[r])'
      <4>1. temporary[User(r)] \in BOOLEAN BY <2>2 DEF Flags
      <4> QED BY <2>2, <3>1, <3>3, <4>1 DEF Moves, Found, User
    <3> QED BY <1>4, <3>1, <3>3, <3>4, <3>5, MovesIsQuiet DEF FindUser, Honest
  <2> QED BY <2>1, <2>2
<1> QED BY <1>2, <1>3, <1>4

\* A token is asked for, and the request knows what it knew.
LEMMA TokenIsQuiet ==
    ASSUME RunsOK, NEW r \in Requests, Honest(run[r]),
           TakeToken(r) \/ Issue(r) \/ KeepToken(r) \/ TokenFails(r)
    PROVE  Quiet(r)
<1> DEFINE after == AfterToken(r)
<1>0. /\ UNCHANGED <<sent, sessions, temporary>>
      /\ run[r].at \in {"token", "ask", "answer"} /\ run[r].op.name # "verifyOtp"
  BY DEF TakeToken, Issue, KeepToken, TokenFails, keycloak, Honest, Way, Resets
<1>1. /\ after \in {"status", "put"}
      /\ after = "status" => run[r].op.name = "syncUserStatusWithKeycloak"
      /\ after = "put" => run[r].op.name \in Resets
  BY <1>0 DEF AfterToken, Honest, Way, Resets
<1>2. CASE TokenFails(r)
  <2>1. Reply(r, 500) BY <1>2 DEF TokenFails
  <2> QED BY <1>0, <2>1, FailureIsQuiet DEF Honest
<1>3. ASSUME NEW there \in {"ask", "answer", after},
             Moves(r, there), run'[r].saw = run[r].saw
      PROVE  Quiet(r)
  <2> HIDE DEF after
  <2>1. Way(run[r])' /\ Tells(run[r])'
    BY <1>0, <1>1, <1>3 DEF Moves, Honest, Way, Tells, Resets
  <2>2. Found(run[r])'
    BY <1>0, <1>1, <1>3 DEF Moves, Honest, Found
  <2> QED BY <1>0, <1>1, <1>3, <2>1, <2>2, MovesIsQuiet DEF Honest
<1>4. CASE TakeToken(r)
  <2>1. CASE Set(r, [run[r] EXCEPT !.at = AfterToken(r), !.token = cached.dies])
    <3> DEFINE dies == cached.dies
    <3>1. Set(r, [run[r] EXCEPT !.at = after, !.token = dies]) BY <2>1
    <3> HIDE DEF after, dies
    <3>2. Moves(r, after) /\ run'[r].saw = run[r].saw
      BY <1>0, <3>1 DEF RunsOK, Set, Fields, Only, Moves
    <3> QED BY <1>3, <3>2
  <2>2. CASE Set(r, [run[r] EXCEPT !.at = "ask", !.asked = clock])
    <3>1. Moves(r, "ask") /\ run'[r].saw = run[r].saw
      BY <1>0, <2>2 DEF RunsOK, Set, Fields, Only, Moves
    <3> QED BY <1>3, <3>1
  <2> QED BY <1>4, <2>1, <2>2 DEF TakeToken
<1>5. CASE Issue(r)
  <2>1. Moves(r, "answer") /\ run'[r].saw = run[r].saw
    BY <1>0, <1>5 DEF RunsOK, Issue, Set, Fields, Only, Moves
  <2> QED BY <1>3, <2>1
<1>6. CASE KeepToken(r)
  <2>1. Set(r, [run[r] EXCEPT !.at = after, !.asked = 0]) BY <1>6 DEF KeepToken
  <2> HIDE DEF after
  <2>2. Moves(r, after) /\ run'[r].saw = run[r].saw
    BY <1>0, <2>1 DEF RunsOK, Set, Fields, Only, Moves
  <2> QED BY <1>3, <2>2
<1> QED BY <1>2, <1>4, <1>5, <1>6

\* The password is put, refused, or put without an answer.
LEMMA PutIsQuiet ==
    ASSUME RunsOK, NEW r \in Requests, Honest(run[r]),
           PutPassword(r) \/ PutRefused(r) \/ PutUnanswered(r)
    PROVE  Quiet(r)
<1>0. /\ UNCHANGED <<sent, sessions, temporary>>
      /\ run[r].at = "put" /\ Says(run[r]) /\ run[r].took = FALSE
      /\ run[r].op.name \in Resets
  BY DEF PutPassword, PutRefused, PutUnanswered, keycloak, Honest, Says, Way
<1>1. CASE PutPassword(r)
  <2> DEFINE there == IF run[r].op.name = "resetUserPassword" THEN "get" ELSE "flag"
  <2>1. there \in {"get", "flag"} /\ (there = "get" => run[r].op.name = "resetUserPassword")
    OBVIOUS
  <2>2. Set(r, [run[r] EXCEPT !.took = TRUE, !.at = there]) BY <1>1 DEF PutPassword
  <2> HIDE DEF there
  <2>3. /\ Only(r) /\ run'[r].at = there /\ run'[r].took = TRUE /\ run'[r].op = run[r].op
        /\ run'[r].reply = run[r].reply /\ run'[r].saw = run[r].saw
    BY <2>2 DEF RunsOK, Set, Fields, Only
  <2>4. Way(run[r])' /\ Tells(run[r])'
    BY <1>0, <2>1, <2>3 DEF Way, Tells
  <2>6. Says(run[r])'
    <3>1. run'[r].reply = 0 /\ run'[r].reply \notin 400..499
      BY <1>0, <2>3 DEF Says
    <3> QED BY <2>1, <2>3, <3>1 DEF Says
  <2>5. Found(run[r])'
    BY <1>0, <2>1, <2>3 DEF Found, Honest
  <2> QED BY <1>0, <2>1, <2>3, <2>4, <2>5, <2>6 DEF Quiet, Honest
<1>2. CASE PutRefused(r)
  <2>1. CASE run[r].op.name = "resetUserPassword"
    <3>1. Reply(r, 400) BY <1>2, <2>1 DEF PutRefused
    <3> QED BY <1>0, <2>1, <3>1, RefusalIsQuiet
  <2>2. CASE run[r].op.name = "forgotPassword"
    <3>1. Reply(r, 200) BY <1>2, <2>2 DEF PutRefused
    <3> QED BY <1>0, <2>2, <3>1, SuccessIsQuiet
  <2> QED BY <1>0, <2>1, <2>2 DEF Resets
<1>3. CASE PutUnanswered(r)
  <2>1. CASE Reply(r, Unanswered)
    <3>1. Reply(r, 500) BY <2>1 DEF Unanswered
    <3> QED BY <1>0, <3>1, FailureIsQuiet DEF Resets
  <2>2. CASE Set(r, Answered([run[r] EXCEPT !.took = TRUE], Unanswered))
    <3>1. /\ Only(r) /\ run'[r].at = "done" /\ run'[r].took = TRUE /\ run'[r].op = run[r].op
          /\ run'[r].reply = 500
      BY <2>2 DEF RunsOK, Answered, Unanswered, Set, Fields, Only
    <3>2. Says(run[r])'
      <4>1. run'[r].reply \notin 400..499 BY <3>1
      <4> QED BY <3>1, <4>1 DEF Says
    <3>3. Honest(run[r])'
      BY <3>1, <3>2 DEF Honest, Way, Found, Tells
    <3> QED BY <1>0, <3>1, <3>3 DEF Quiet, Resets
  <2> QED BY <1>3, <2>1, <2>2 DEF PutUnanswered
<1> QED BY <1>1, <1>2, <1>3

\* enablePasswordAuthenticationIfNeeded, whatever comes of it.
LEMMA EnableIsQuiet ==
    ASSUME RunsOK, NEW r \in Requests, Honest(run[r]), GetAccount(r) \/ PutBack(r)
    PROVE  Quiet(r)
<1>0. /\ UNCHANGED <<sent, sessions, temporary>>
      /\ run[r].at \in {"get", "putBack"} /\ run[r].op.name = "resetUserPassword"
  BY DEF GetAccount, PutBack, keycloak, Honest, Way
<1>1. PICK there \in {"flag", "putBack"} : Moves(r, there) /\ run'[r].saw = run[r].saw
  <2>1. CASE Go(r, "flag")
    BY <1>0, <2>1, GoMoves
  <2>2. CASE ~Go(r, "flag")
    <3> DEFINE a == account[User(r)]
               there == IF a.passwordAuth THEN "flag" ELSE "putBack"
    <3>1. Set(r, [run[r] EXCEPT !.account = a, !.at = there])
      BY <2>2 DEF GetAccount, PutBack
    <3>2. there \in {"flag", "putBack"}
      OBVIOUS
    <3> HIDE DEF a, there
    <3>3. Moves(r, there) /\ run'[r].saw = run[r].saw
      BY <1>0, <3>1 DEF RunsOK, Set, Fields, Only, Moves
    <3> QED BY <3>2, <3>3
  <2> QED BY <2>1, <2>2
<1>2. Way(run[r])' /\ Tells(run[r])'
  BY <1>0, <1>1 DEF Moves, Way, Tells, Resets
<1>3. Found(run[r])'
  BY <1>0, <1>1 DEF Moves, Honest, Found
<1> QED BY <1>0, <1>1, <1>2, <1>3, MovesIsQuiet DEF Honest

\* temporaryPassword is off when a reset is answered 200: it was when the row was read, or
\* it is cleared.
LEMMA ClearIsLawful ==
    ASSUME RunsOK, AnswersInv, NEW r \in Requests, ClearFlag(r)
    PROVE  Lawful(r)
<1>0. /\ UNCHANGED <<sent, sessions>> /\ run[r].at = "flag" /\ Honest(run[r])
      /\ run[r].took = TRUE /\ run[r].op.name \in Resets
  BY DEF ClearFlag, keycloak, AnswersInv, Honest, Says, Way
<1>1. CASE Reply(r, 500) /\ UNCHANGED temporary
  <2>1. Says(run[r]) /\ run[r].at # "done" /\ run[r].op.name # "verifyOtp"
    BY <1>0 DEF Honest, Resets
  <2>2. Quiet(r) BY <1>0, <1>1, <2>1, FailureIsQuiet
  <2> QED BY <2>2, QuietIsLawful DEF AnswersInv
<1>2. CASE /\ Reply(r, 200)
           /\ temporary' = IF run[r].saw THEN [temporary EXCEPT ![User(r)] = FALSE]
                           ELSE temporary
  <2>1. /\ Only(r) /\ run'[r].at = "done" /\ run'[r].reply = 200
        /\ run'[r].op = run[r].op /\ run'[r].took = run[r].took
    BY <1>2, ReplyDoes
  <2>2. \/ temporary' = temporary
        \/ temporary' = [temporary EXCEPT ![User(r)] = FALSE]
    BY <1>2
  <2>3. ResetDone(run[r])'
    <3>1. SUFFICES ASSUME run[r].op.name = "resetUserPassword"
                   PROVE  run[r].op.user \in Users /\ temporary'[run[r].op.user] = FALSE
      BY <1>0, <2>1 DEF ResetDone
    <3>2. run[r].op.user \in Users
          /\ (run[r].saw = TRUE \/ temporary[run[r].op.user] = FALSE)
      BY <1>0, <3>1 DEF Honest, Found
    <3>3. CASE run[r].saw = TRUE
      BY <1>2, <3>2, <3>3 DEF AnswersInv, Flags, User
    <3>4. CASE temporary[run[r].op.user] = FALSE
      BY <2>2, <3>2, <3>4 DEF AnswersInv, Flags, User
    <3> QED BY <3>2, <3>3, <3>4
  <2>4. Honest(run[r])'
    BY <1>0, <2>1 DEF Honest, Way, Says, Found, Tells
  <2>5. LogoutDone(run[r])' /\ VerifiedOK(r)'
    BY <1>0, <2>1 DEF LogoutDone, VerifiedOK, Done, Resets
  <2>6. r \notin sessions
    BY <1>0 DEF AnswersInv, Sessions
  <2> QED BY <1>0, <2>1, <2>2, <2>3, <2>4, <2>5, <2>6 DEF Lawful
<1> QED BY <1>1, <1>2 DEF ClearFlag

\* What is answered of a status, a captcha, a mail or a refresh is no promise.
LEMMA OtherIsQuiet ==
    ASSUME RunsOK, NEW r \in Requests, Honest(run[r]),
           PutStatus(r) \/ Captcha(r) \/ MailLink(r) \/ Refresh(r)
    PROVE  Quiet(r)
<1>0. /\ UNCHANGED <<sent, sessions, temporary>>
      /\ Says(run[r]) /\ run[r].took = FALSE
      /\ run[r].at \in {"status", "captcha", "mail", "session"}
  BY DEF PutStatus, Captcha, MailLink, Refresh, At, keycloak, Honest, Says
<1>01. run[r].op.name # "verifyOtp"
  BY <1>0 DEF Honest, Way
<1>1. CASE PutStatus(r)
  <2>1. run[r].op.name = "syncUserStatusWithKeycloak"
    BY <1>1 DEF PutStatus, Honest, Way
  <2>2. Reply(r, 200) \/ Reply(r, 500) BY <1>1 DEF PutStatus
  <2>3. CASE Reply(r, 200) BY <1>0, <2>1, <2>3, SuccessIsQuiet
  <2>4. CASE Reply(r, 500) BY <1>0, <1>01, <2>4, FailureIsQuiet
  <2> QED BY <2>2, <2>3, <2>4
<1>2. CASE Captcha(r)
  <2>1. CASE Reply(r, 400)
    BY <1>0, <1>01, <2>1, RefusalIsQuiet
  <2>2. CASE Go(r, IF run[r].op.name = "login" THEN "session" ELSE "otp")
    <3> DEFINE there == IF run[r].op.name = "login" THEN "session" ELSE "otp"
    <3>1. /\ there \in {"session", "otp"}
          /\ there = "session" => run[r].op.name = "login"
          /\ there = "otp" => run[r].op.name = "sendOtp"
      BY <1>2 DEF Captcha, Honest, Way
    <3> HIDE DEF there
    <3>2. Moves(r, there) BY <1>0, <2>2, GoMoves DEF there
    <3>3. Way(run[r])' /\ Tells(run[r])' /\ Found(run[r])'
      BY <3>1, <3>2 DEF Moves, Way, Tells, Found
    <3> QED BY <1>0, <3>1, <3>2, <3>3, MovesIsQuiet
  <2> QED BY <1>2, <2>1, <2>2 DEF Captcha
<1>3. CASE MailLink(r)
  <2>1. run[r].op.name = "sendPasswordResetLink"
    BY <1>3 DEF MailLink, Honest, Way
  <2>2. Reply(r, 200) \/ Reply(r, 400) BY <1>3 DEF MailLink
  <2>3. CASE Reply(r, 200) BY <1>0, <2>1, <2>3, SuccessIsQuiet
  <2>4. CASE Reply(r, 400) BY <1>0, <1>01, <2>4, RefusalIsQuiet
  <2> QED BY <2>2, <2>3, <2>4
<1>4. CASE Refresh(r)
  <2>1. run[r].op.name = "refreshToken"
    BY <1>4 DEF Refresh, At
  <2>2. Reply(r, 200) \/ Reply(r, 401) BY <1>4 DEF Refresh
  <2>3. CASE Reply(r, 200) BY <1>0, <2>1, <2>3, SuccessIsQuiet
  <2>4. CASE Reply(r, 401) BY <1>0, <1>01, <2>4, RefusalIsQuiet
  <2> QED BY <2>2, <2>3, <2>4
<1> QED BY <1>1, <1>2, <1>3, <1>4

\* An OTP is hashed with the number and the reason of sendOtp, or with the name of a user.
LEMMA MakeIsQuiet ==
    ASSUME RunsOK, clock \in Nat, NEW r \in Requests, Honest(run[r]),
           MakeOtp(r) \/ MakeResetOtp(r)
    PROVE  Quiet(r)
<1>0. /\ UNCHANGED <<sent, sessions, temporary>> /\ run[r].at = "otp"
      /\ Says(run[r]) /\ run[r].took = FALSE
      /\ run[r].op.name \in {"sendOtp", "sendPasswordResetOTP"}
      /\ run[r].op.name = "sendPasswordResetOTP" => User(r) \in Users
  BY DEF MakeOtp, MakeResetOtp, At, keycloak, Honest, Says, Found, User
<1>1. CASE Reply(r, 400)
  BY <1>0, <1>1, RefusalIsQuiet
<1>2. CASE ~Reply(r, 400)
  <2>1. PICK h : /\ Set(r, [run[r] EXCEPT !.at = "notify", !.otp = h])
                 /\ h.expires \in Nat
                 /\ IF run[r].op.name = "sendOtp"
                    THEN h.who = run[r].op.value /\ h.reason = run[r].op.reason
                    ELSE h.who = User(r)
    <3>1. CASE MakeOtp(r)
      <4>1. PICK x \in Otps : Set(r, [run[r] EXCEPT !.at = "notify",
                                        !.otp = Hash(run[r].op.value, x, run[r].op.reason)])
        BY <3>1 DEF MakeOtp
      <4> DEFINE h == Hash(run[r].op.value, x, run[r].op.reason)
      <4>2. run[r].op.name = "sendOtp" BY <3>1 DEF MakeOtp, At
      <4>3. /\ h.expires \in Nat
            /\ h.who = run[r].op.value /\ h.reason = run[r].op.reason
        BY CredentialsAssumption DEF Hash
      <4>4. Set(r, [run[r] EXCEPT !.at = "notify", !.otp = h]) BY <4>1
      <4> HIDE DEF h
      <4> QED BY <4>2, <4>3, <4>4
    <3>2. CASE MakeResetOtp(r)
      <4>1. PICK x \in Otps : Set(r, [run[r] EXCEPT !.at = "notify",
                                        !.otp = Hash(User(r), x, "forgot")])
        BY <1>2, <3>2 DEF MakeResetOtp
      <4>2. run[r].op.name # "sendOtp" BY <3>2 DEF MakeResetOtp, At
      <4> DEFINE h == Hash(User(r), x, "forgot")
      <4>3. h.expires \in Nat /\ h.who = User(r) BY CredentialsAssumption DEF Hash
      <4>4. Set(r, [run[r] EXCEPT !.at = "notify", !.otp = h]) BY <4>1
      <4> HIDE DEF h
      <4> QED BY <4>2, <4>3, <4>4
    <3> QED BY <3>1, <3>2
  <2>2. Moves(r, "notify") /\ run'[r].otp = h
    BY <1>0, <2>1 DEF RunsOK, Set, Fields, Only, Moves
  <2>3. Way(run[r])' /\ Found(run[r])'
    BY <1>0, <2>2 DEF Moves, Way, Found
  <2>4. Tells(run[r])'
    BY <1>0, <2>1, <2>2 DEF Moves, Tells
  <2> QED BY <1>0, <2>2, <2>3, <2>4, MovesIsQuiet
<1> QED BY <1>1, <1>2

\* The hash is given out by the request that made it.
LEMMA NotifyIsLawful ==
    ASSUME RunsOK, AnswersInv, NEW r \in Requests, NotifyBySms(r) \/ Notify(r)
    PROVE  Lawful(r)
<1>0. /\ UNCHANGED <<sessions, temporary>> /\ run[r].at = "notify"
      /\ Says(run[r]) /\ run[r].took = FALSE /\ Tells(run[r])
      /\ run[r].op.name \in {"sendOtp", "sendPasswordResetOTP"}
  BY DEF NotifyBySms, Notify, At, keycloak, AnswersInv, Honest, Says
<1>1. CASE Reply(r, 500) /\ UNCHANGED sent
  <2>1. Quiet(r) BY <1>0, <1>1, FailureIsQuiet
  <2> QED BY <2>1, QuietIsLawful DEF AnswersInv
<1>2. CASE Told(r)
  <2>1. /\ Only(r) /\ run'[r].at = "done" /\ run'[r].reply = 200
        /\ run'[r].op = run[r].op /\ run'[r].took = run[r].took
        /\ run'[r].otp = run[r].otp
    BY <1>2, ReplyDoes DEF Told
  <2>2. sent' = sent \cup {run[r].otp}
    BY <1>2 DEF Told
  <2>3. \A h \in sent' \ sent : h.expires \in Nat /\ (h.who \in Users \/ SentBy(r, h)')
    <3> SUFFICES ASSUME NEW h \in sent' \ sent
                 PROVE  h.expires \in Nat /\ (h.who \in Users \/ SentBy(r, h)')
      OBVIOUS
    <3>1. h = run[r].otp BY <2>2
    <3> QED BY <1>0, <2>1, <3>1 DEF SentBy, Done, Tells
  <2>4. Honest(run[r])'
    BY <1>0, <2>1 DEF Honest, Way, Says, Found, Tells
  <2>7. VerifiedOK(r)'
    BY <1>0, <2>1 DEF VerifiedOK, Done, SentBy, Tells
  <2>5. ResetDone(run[r])' /\ LogoutDone(run[r])'
    BY <1>0, <2>1 DEF ResetDone, LogoutDone
  <2>6. r \notin sessions
    BY <1>0 DEF AnswersInv, Sessions
  <2> QED BY <1>0, <2>1, <2>2, <2>3, <2>4, <2>5, <2>6, <2>7 DEF Lawful
<1> QED BY <1>1, <1>2 DEF NotifyBySms, Notify

\* An OTP is accepted if and only if it is Good, with a hash that was given out.
LEMMA VerifyIsLawful ==
    ASSUME RunsOK, AnswersInv, clock \in Nat, NEW r \in Requests, VerifyOtp(r)
    PROVE  Lawful(r)
<1> DEFINE o == run[r].op
<1>0. /\ UNCHANGED <<sent, sessions, temporary>> /\ run[r].at = "verify"
      /\ Says(run[r]) /\ run[r].took = FALSE /\ o.name = "verifyOtp"
  BY DEF VerifyOtp, keycloak, AnswersInv, Honest, Says, Way
<1>1. PICK h \in sent :
        Set(r, Answered([run[r] EXCEPT !.asked = clock, !.otp = h], Verdict(o, h)))
  BY DEF VerifyOtp
<1> DEFINE code == Verdict(o, h)
<1>7. code \in {200, 400, 404} /\ (code = 200 <=> Good(o, h, clock))
  <2>1. h.expires \in Nat BY DEF AnswersInv, SentOK
  <2> QED BY <2>1 DEF Good, Verdict
<1> HIDE DEF code
<1>2. /\ Only(r) /\ run'[r].at = "done" /\ run'[r].reply = code /\ run'[r].asked = clock
      /\ run'[r].op = o /\ run'[r].took = FALSE /\ run'[r].otp = h
  BY <1>0, <1>1 DEF RunsOK, Answered, Set, Fields, Only, code
<1>3. Honest(run[r])'
  BY <1>0, <1>2 DEF Honest, Way, Says, Found, Tells
<1>4. ResetDone(run[r])' /\ LogoutDone(run[r])'
  BY <1>0, <1>2 DEF ResetDone, LogoutDone
<1>5. VerifiedOK(r)'
  <2>1. Good(run'[r].op, run'[r].otp, run'[r].asked) <=> Good(o, h, clock)
    BY <1>2 DEF Good, Matches
  <2> QED BY <1>0, <1>1, <1>2, <1>7, <2>1 DEF VerifiedOK, Done, Good, Matches
<1>6. r \notin sessions
  BY <1>0 DEF AnswersInv, Sessions
<1> QED BY <1>0, <1>2, <1>3, <1>4, <1>5, <1>6 DEF Lawful

\* A session begins with its login, which is then done, so that a session that was ended
\* does not begin again.
LEMMA SessionIsLawful ==
    ASSUME RunsOK, AnswersInv, NEW r \in Requests, Login(r) \/ Logout(r)
    PROVE  Lawful(r)
<1> DEFINE s == run[r].op.value
<1>0. /\ UNCHANGED <<sent, temporary>> /\ run[r].at = "session"
      /\ Says(run[r]) /\ run[r].took = FALSE /\ run[r].op.name \in {"login", "logout"}
      /\ r \notin sessions
  BY DEF Login, Logout, At, AnswersInv, Honest, Says, Sessions
<1>1. PICK code \in {200, 401, 404, 500} : Reply(r, code)
  BY DEF Login, Logout
<1>2. /\ Only(r) /\ run'[r].at = "done" /\ run'[r].reply = code
      /\ run'[r].op = run[r].op /\ run'[r].took = run[r].took
  BY <1>1, ReplyDoes
<1>3. Honest(run[r])'
  BY <1>0, <1>2 DEF Honest, Way, Says, Found, Tells
<1>4. ResetDone(run[r])' /\ VerifiedOK(r)'
  BY <1>0, <1>2 DEF ResetDone, VerifiedOK, Done
<1>5. sessions' \subseteq sessions \cup {r}
  BY DEF Login, Logout
<1>6. LogoutDone(run[r])'
  <2>1. SUFFICES ASSUME run[r].op.name = "logout", code = 200
                 PROVE  s \in Requests \ sessions' /\ run'[s].at = "done"
    BY <1>2 DEF LogoutDone
  <2>2. Logout(r)
    BY <2>1 DEF Login, At
  <2>3. s \in sessions /\ sessions' = sessions \ {s}
    <3>1. ~Reply(r, 401) /\ ~Reply(r, 500)
      BY <1>2, <2>1, ReplyDoes
    <3> QED BY <2>2, <3>1 DEF Logout, Open
  <2>4. s \in Requests /\ run[s].at = "done"
    BY <2>3 DEF AnswersInv, Sessions
  <2> QED BY <1>0, <1>2, <2>3, <2>4 DEF Only
<1> QED BY <1>0, <1>2, <1>3, <1>4, <1>5, <1>6 DEF Lawful

-----------------------------------------------------------------------------
AllInv == IInv /\ AnswersInv

LEMMA AnswersInit == Init => AnswersInv
<1> SUFFICES ASSUME Init PROVE AnswersInv
  OBVIOUS
<1>1. SentOK /\ Sessions /\ Flags
  BY DEF Init, SentOK, Sessions, Flags
<1>2. ASSUME NEW r \in Requests
      PROVE  Honest(run[r]) /\ ResetDone(run[r]) /\ LogoutDone(run[r]) /\ VerifiedOK(r)
  <2>1. run[r].at = "new" /\ run[r].took = FALSE /\ run[r].reply = 0
    BY DEF Init, Waiting
  <2>2. Honest(run[r])
    BY <2>1 DEF Honest, Way, Says, Found, Tells
  <2> QED BY <2>1, <2>2 DEF ResetDone, LogoutDone, VerifiedOK, Done
<1> QED BY <1>1, <1>2 DEF AnswersInv

LEMMA AnswersStep == IInv /\ AnswersInv /\ [Next]_vars => AnswersInv'
<1> SUFFICES ASSUME IInv, AnswersInv, [Next]_vars PROVE AnswersInv'
  OBVIOUS
<1> USE DEF IInv
<1>0. /\ Flags /\ Sessions
      /\ \A r \in Requests : Honest(run[r]) /\ Says(run[r])
  BY DEF AnswersInv, Honest
<1>1. ASSUME NEW r \in Requests, Quiet(r) PROVE AnswersInv'
  BY <1>0, <1>1, QuietIsLawful, LawfulKeepsAnswers
<1>2. CASE UNCHANGED vars \/ Tick
  <2>1. UNCHANGED <<run, sent, sessions, temporary>>
    BY <1>2 DEF vars, Tick, keycloak
  <2>2. SentOK' /\ Sessions' /\ Flags'
    BY <2>1 DEF AnswersInv, SentOK, SentBy, Done, Sessions, Flags
  <2>3. ASSUME NEW r \in Requests
        PROVE  Honest(run[r])' /\ ResetDone(run[r])' /\ LogoutDone(run[r])' /\ VerifiedOK(r)'
    <3>1. Honest(run[r])'
      BY <2>1, <1>0 DEF Honest, Way, Says, Found, Tells
    <3> QED BY <2>1, <3>1 DEF AnswersInv, ResetDone, LogoutDone, VerifiedOK, Done, Good,
                              Matches, SentBy
  <2> QED BY <2>2, <2>3 DEF AnswersInv
<1>3. ASSUME NEW r \in Requests, NEW o \in scenario.ops, Arrive(r, o) PROVE AnswersInv'
  BY <1>0, <1>1, <1>3, ArriveIsQuiet
<1>4. ASSUME NEW r \in Requests, Validate(r) \/ FindSubject(r) \/ FindUser(r)
      PROVE  AnswersInv'
  BY <1>0, <1>1, <1>4, LookupIsQuiet
<1>5. ASSUME NEW r \in Requests, TakeToken(r) \/ Issue(r) \/ KeepToken(r) \/ TokenFails(r)
      PROVE  AnswersInv'
  BY <1>0, <1>1, <1>5, TokenIsQuiet
<1>6. ASSUME NEW r \in Requests, PutPassword(r) \/ PutRefused(r) \/ PutUnanswered(r)
      PROVE  AnswersInv'
  BY <1>0, <1>1, <1>6, PutIsQuiet
<1>7. ASSUME NEW r \in Requests, GetAccount(r) \/ PutBack(r) PROVE AnswersInv'
  BY <1>0, <1>1, <1>7, EnableIsQuiet
<1>8. ASSUME NEW r \in Requests, ClearFlag(r) PROVE AnswersInv'
  BY <1>8, ClearIsLawful, LawfulKeepsAnswers
<1>9. ASSUME NEW r \in Requests, PutStatus(r) \/ Captcha(r) \/ MailLink(r) \/ Refresh(r)
      PROVE  AnswersInv'
  BY <1>0, <1>1, <1>9, OtherIsQuiet
<1>10. ASSUME NEW r \in Requests, MakeOtp(r) \/ MakeResetOtp(r) PROVE AnswersInv'
  BY <1>0, <1>1, <1>10, MakeIsQuiet
<1>11. ASSUME NEW r \in Requests, NotifyBySms(r) \/ Notify(r) PROVE AnswersInv'
  BY <1>11, NotifyIsLawful, LawfulKeepsAnswers
<1>12. ASSUME NEW r \in Requests, VerifyOtp(r) PROVE AnswersInv'
  BY <1>12, VerifyIsLawful, LawfulKeepsAnswers
<1>13. ASSUME NEW r \in Requests, Login(r) \/ Logout(r) PROVE AnswersInv'
  BY <1>13, SessionIsLawful, LawfulKeepsAnswers
<1> QED
  BY <1>2, <1>3, <1>4, <1>5, <1>6, <1>7, <1>8, <1>9, <1>10, <1>11, <1>12, <1>13 DEF Next

\* Each hash that a client has was given out by a request that says so, each reset and logout
\* that is answered 200 was carried out, and temporaryPassword is off only where a password
\* was changed.
THEOREM AnswersInvariance == Spec => []AnswersInv
<1>1. Init => AllInv
  BY InitInvariant, AnswersInit DEF AllInv
<1>2. AllInv /\ [Next]_vars => AllInv'
  BY StepInvariant, AnswersStep DEF AllInv
<1>3. AllInv => AnswersInv
  BY DEF AllInv
<1> QED BY <1>1, <1>2, <1>3, PTL DEF Spec

\* What a reset or a logout answers is what became of it, however calls fail, answers are
\* lost, tokens die and requests overlap.
THEOREM AnswersTell == Spec => []AnswersAreTrue
<1>1. AnswersInv => AnswersAreTrue
  <2> SUFFICES ASSUME AnswersInv PROVE AnswersAreTrue
    OBVIOUS
  <2>1. ASSUME NEW r \in Requests
        PROVE  /\ run[r].reply \in 400..499 => ~run[r].took
               /\ Done(r, "resetUserPassword") /\ run[r].reply = 200 =>
                     run[r].took /\ ~temporary[User(r)]
               /\ Done(r, "logout") /\ run[r].reply = 200 => run[r].op.value \notin sessions
    <3>1. Says(run[r]) /\ ResetDone(run[r]) /\ LogoutDone(run[r])
      BY DEF AnswersInv, Honest
    <3>2. run[r].reply \in 400..499 => ~run[r].took
      BY <3>1 DEF Says
    <3>3. Done(r, "resetUserPassword") /\ run[r].reply = 200 =>
            run[r].took /\ ~temporary[User(r)]
      BY <3>1 DEF ResetDone, Done, User
    <3>4. Done(r, "logout") /\ run[r].reply = 200 => run[r].op.value \notin sessions
      BY <3>1 DEF LogoutDone, Done
    <3> QED BY <3>2, <3>3, <3>4
  <2>2. ASSUME NEW u \in Users, ~temporary[u]
        PROVE  \E r \in Requests : run[r].took /\ User(r) = u
    <3>1. temporary[u] = FALSE BY <2>2 DEF AnswersInv, Flags
    <3> QED BY <3>1 DEF AnswersInv, Flags, User
  <2> QED BY <2>1, <2>2 DEF AnswersAreTrue
<1> QED BY <1>1, AnswersInvariance, PTL

\* verifyOtp accepts all that sendOtp has sent to that number, for that reason, as long as it
\* has not expired, and nothing else.
THEOREM OtpsAreSent == Spec => []OtpAsSent
<1>1. AnswersInv => OtpAsSent
  <2> SUFFICES ASSUME AnswersInv, NEW r \in Requests, Done(r, "verifyOtp"),
                      run[r].op.value \notin Users
               PROVE  run[r].reply = 200 <=>
                        /\ run[r].op.reason \in {"signup", "forgot"}
                        /\ run[r].op.reason = "forgot" => User(r) \in Users
                        /\ \E q \in Requests :
                            /\ run[q].op.name = "sendOtp" /\ BringsBack(r, q)
                            /\ run[q].op.value = run[r].op.value
                            /\ run[q].op.reason = run[r].op.reason
    BY DEF OtpAsSent
  <2> DEFINE h == run[r].otp
  <2>1. h \in sent /\ (run[r].reply = 200 <=> Good(run[r].op, h, run[r].asked))
    BY DEF AnswersInv, VerifiedOK
  <2>2. ASSUME Good(run[r].op, h, run[r].asked)
        PROVE  /\ run[r].op.reason \in {"signup", "forgot"}
               /\ run[r].op.reason = "forgot" => User(r) \in Users
               /\ \E q \in Requests :
                   /\ run[q].op.name = "sendOtp" /\ BringsBack(r, q)
                   /\ run[q].op.value = run[r].op.value
                   /\ run[q].op.reason = run[r].op.reason
    <3>1. PICK q \in Requests : SentBy(q, h)
      BY <2>1, <2>2 DEF AnswersInv, SentOK, Good, Matches
    <3>2. run[q].op.name = "sendOtp" /\ BringsBack(r, q)
      BY <2>2, <3>1 DEF SentBy, Done, BringsBack, Good, Matches
    <3> QED BY <2>2, <3>1, <3>2 DEF SentBy, Good, Matches, User
  <2>3. ASSUME run[r].op.reason \in {"signup", "forgot"},
               run[r].op.reason = "forgot" => User(r) \in Users,
               NEW q \in Requests, run[q].op.name = "sendOtp", BringsBack(r, q),
               run[q].op.value = run[r].op.value, run[q].op.reason = run[r].op.reason
        PROVE  Good(run[r].op, h, run[r].asked)
    <3>1. SentBy(q, h)
      BY <2>3 DEF AnswersInv, VerifiedOK, BringsBack, Done
    <3> QED BY <2>3, <3>1 DEF SentBy, BringsBack, Good, Matches, User
  <2> QED BY <2>1, <2>2, <2>3
<1> QED BY <1>1, AnswersInvariance, PTL
=============================================================================
