SPECIFICATION Spec
CONSTANTS
    Namespaces <- OneNamespace
    Sites <- OneSite
    OwnOf <- OneOwnOf
    ScopeOf <- OneScopeOf
    Enabled <- OneNamespace
    WriteSets <- OneWriteSet
    Readers = {r1, r2}
    Writers = {w1}
    Provider = "redis"
    Faults = {"flush"}
    MaxData = 2
SYMMETRY Symmetry
INVARIANTS
    FreshRead
