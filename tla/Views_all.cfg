SPECIFICATION Spec
CONSTANTS
    u1 = u1
    u2 = u2
    u3 = u3
    t1 = t1
    t0 = t0
    b1 = b1
    b2 = b2
    c1 = c1
    c2 = c2
    y1 = y1
    y2 = y2
    role1 = role1
    v1 = v1
    v2 = v2
    Empty = Empty
    r1 = r1
    None = None
    Users = {u1, u2, u3}
    Tenants = {t0, t1}
    Roles = {role1}
    Years = {y1, y2}
    Cohorts = {b1, b2, c1, c2}
    TypeOf <- Types
    ParentOf <- Parents
    TenantOf <- Tenancy
    ParentTenantOf <- ParentTenants
    Memberships <- SomeMemberships
    Fields = {"village", "TYPE_OF_CENTER"}
    Named = {v1}
    Requests = {r1, r2}
    Scenarios <- SomeScenarios
INVARIANTS
    EventsAreCurrent
PROPERTIES
    SearchIsRight
    HierarchyIsWhole
CHECK_DEADLOCK FALSE
