SPECIFICATION Spec
CONSTANTS
    u1 = u1
    u2 = u2
    n1 = n1
    p1 = p1
    p2 = p2
    x1 = x1
    x2 = x2
    None = None
    Requests = {r1, r2, r3}
    Users = {u1, u2}
    MobileOf <- Mobiles
    WithMail = {u1, u2}
    Passwords = {p1, p2}
    FirstPassword = p1
    Otps = {x1, x2}
    TokenLife = 3
    TokenBuffer = 1
    OtpLife = 1
    LinkLife = 1
    Scenarios <- SomeScenarios
INVARIANT ResetOtpsWork
SYMMETRY
    Symmetry
CHECK_DEADLOCK FALSE
