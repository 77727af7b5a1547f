SPECIFICATION FairBreaker
CONSTANTS
    Ops = {o1, o2, o3}
    CbFailures = 3
    OpTimeout = 2
    CooldownTime = 4
    MaxTime = 13
INVARIANTS
    BreakerTypes
    OpenMeansFailing
    DeadRedisIsCheap
PROPERTIES
    Probes
