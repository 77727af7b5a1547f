SPECIFICATION TTLSpec
CONSTANTS
    Namespaces <- OneNamespace
    Sites <- OneSite
    OwnOf <- OneOwnOf
    ScopeOf <- OneScopeOf
    Enabled <- OneNamespace
    WriteSets <- OneWriteSet
    Readers = {r1}
    Writers = {w1}
    Provider = "redis"
    Faults = {"incr", "flush", "read", "set", "load"}
    MaxData = 2
INVARIANTS
    LostIncrHeals
    CreateIsSeen
PROPERTIES
    EveryReadReturns
    StaleReadsEnd
