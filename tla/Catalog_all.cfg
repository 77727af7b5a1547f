SPECIFICATION Spec
CONSTANTS
    t1 = t1
    t2 = t2
    t3 = t3
    t4 = t4
    v1 = v1
    v2 = v2
    v3 = v3
    s1 = s1
    s2 = s2
    y1 = y1
    y2 = y2
    y3 = y3
    c1 = c1
    c2 = c2
    u1 = u1
    u2 = u2
    k1 = k1
    k2 = k2
    f1 = f1
    f2 = f2
    None = None
    Top = Top
    Requests = {r1, r2}
    TenantIds = {t1, t2, t3, t4}
    Names = {v1, v2, v3}
    FirstTenants <- SomeTenants
    YearIds = {y1, y2, y3}
    RuleIds = {m1, m2, m3}
    CohortIds = {c1, c2}
    Schools = {s1, s2}
    Users = {u1, u2}
    Days = {1, 2, 3}
    Values = {v1, v2, v3}
    CodeIds = {m1, m2, m3}
    Keys = {k1, k2}
    Params = {f1}
    Sourced = {f2}
    Dependent = {f2}
    OptionNames = {v1, v2, v3}
    Scenarios <- SomeScenarios
INVARIANTS
    TreeIsKept
    
    
    KeysUnique
    OptionsAsAnswered
SYMMETRY
    Symmetry
CHECK_DEADLOCK FALSE
