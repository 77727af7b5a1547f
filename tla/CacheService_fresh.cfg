SPECIFICATION Spec
CONSTANTS
    Namespaces <- OneNamespace
    Sites <- OneSite
    OwnOf <- OneOwnOf
    ScopeOf <- OneScopeOf
    Enabled <- OneNamespace
    WriteSets <- OneWriteSet
    Readers = {r1, r2}
    Writers = {w1, w2}
    Provider = "redis"
    Faults = {"read", "set", "load"}
    MaxData = 2
SYMMETRY Symmetry
INVARIANTS
    TypeOK
    FreshRead
    StoredFresh
PROPERTIES
    KeepsPromise
