SPECIFICATION Spec
CONSTANTS
    n1 = n1
    n2 = n2
    i1 = i1
    i2 = i2
    i3 = i3
    d1 = d1
    d2 = d2
    d3 = d3
    d4 = d4
    None = None
    Names = {n1, n2}
    Ids = {i1, i2, i3}
    Devices = {d1, d2, d3, d4}
    Requests = {r1, r2, r3, r4}
    Changes <- SomeChanges
    FirstName <- OneUser
    Carried <- ThreeDevices
    Faults = {"keycloak", "database"}
    Overlapping <- Harmless
INVARIANTS
    RowsHaveAccounts
    DivergenceIsReported
    CreatedIsComplete
    DevicesBounded
SYMMETRY
    Symmetry
CHECK_DEADLOCK FALSE
