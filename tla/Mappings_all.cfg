SPECIFICATION Spec
CONSTANTS
    u1 = u1
    u2 = u2
    root = root
    t1 = t1
    t2 = t2
    learner = learner
    teacher = teacher
    manager = manager
    None = None
    Users = {u1, u2}
    Tenants = {root, t1, t2}
    Roles = {learner, teacher, manager}
    Roots = {root}
    RoleTenant <- TenantOf
    RowIds = {m1, m2, m3, m4}
    Requests = {r1, r2}
    Home = t1
    Learner = learner
    Manager = manager
    Scenarios <- SomeScenarios
INVARIANTS
    GrantsStay
    RolesHaveMappings
    RowsUnique
    RowsRefer
    EventsCatchUp
SYMMETRY
    Symmetry
CHECK_DEADLOCK FALSE
