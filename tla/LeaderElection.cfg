SPECIFICATION FairSpec
CONSTANTS
    a = a
    b = b
    Replicas <- MCReplicas
    NoHolder = NoHolder
    NoLease = NoLease
    LeaseDuration = 9
    RenewInterval = 6
    RetryInterval = 3
    MaxLatency = 1
    Skew <- FastClock
    SkewBound = 1
    MaxFaults = 2
INVARIANTS
    TypeOK
    SplitBrainIsBounded
PROPERTIES
    HealthyHolderKeepsLease
    OneLeaderInTheEnd
