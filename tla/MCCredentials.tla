---------------------------- MODULE MCCredentials ----------------------------
(* Two users, one with a mobile number and an address, one with an address  *)
(* only; three requests at a time.                            *)
EXTENDS Credentials, TLC

CONSTANTS u1, u2, n1, p1, p2, x1, x2

Mobiles == (u1 :> n1) @@ (u2 :> None)
Symmetry == Permutations(Requests)

Reset(p) == Op("resetUserPassword", u1, p, None, None)
Forgot(p) == Op("forgotPassword", None, p, None, None)
MailTo(u) == Op("sendPasswordResetLink", u, None, None, None)
Sync(b) == Op("syncUserStatusWithKeycloak", u1, b, None, None)
Send(reason) == Op("sendOtp", None, n1, None, reason)
SendReset(u) == Op("sendPasswordResetOTP", u, None, None, None)
Verify(u, x, reason) == Op("verifyOtp", u, n1, x, reason)
LogIn(p) == Op("login", u1, p, None, None)

SomeScenarios ==
    {[ops |-> {Sync(FALSE), Reset(p2)}, faults |-> {"keycloak"}, time |-> 3],
     [ops |-> {MailTo(u1), Forgot(p2), Reset(p1), MailTo(None)},
      faults |-> {"keycloak", "database", "notify"}, time |-> 3],
     [ops |-> {Send("signup"), Send("forgot"), SendReset(u1), SendReset(u2), SendReset(None),
               Verify(None, x1, "signup"), Verify(u1, x1, "forgot"), Verify(None, x2, "forgot"),
               Forgot(p2)},
      faults |-> {"notify"}, time |-> 2],
     [ops |-> {LogIn(p1), LogIn(p2), Reset(p2)}
        \cup {Op(name, None, r, None, None) : name \in {"refreshToken", "logout"}, r \in Requests},
      faults |-> {"keycloak"}, time |-> 0]}
=============================================================================
