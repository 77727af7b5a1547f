SPECIFICATION Spec
CONSTANTS
    u1 = u1
    u2 = u2
    t1 = t1
    t2 = t2
    Users = {u1, u2}
    Tenants = {t1, t2}
    Readers = {r1, r2}
    Writers = {w1, w2}
    Scenarios <- Everything
INVARIANTS
    FreshButExposed
SYMMETRY
    Symmetry
