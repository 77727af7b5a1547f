SPECIFICATION Spec
CONSTANTS
    u1 = u1
    u2 = u2
    c1 = c1
    c2 = c2
    None = None
    Users = {u1, u2}
    Cohorts = {c1, c2}
    MemberIds = {m1, m2, m3}
    Requests = {r1, r2}
    Capacity = 1
    Batches <- BothBatches
    Rank <- ByName
    Scenarios <- SomeScenarios
INVARIANTS
    TypeOK
    JobRespectsCapacity
    DuplicatesNeedRaces
    CascadeReaches
    AssignmentsComplete
    BulkAsListed
SYMMETRY
    Symmetry
CHECK_DEADLOCK FALSE
