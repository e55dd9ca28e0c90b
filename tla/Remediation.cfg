\* The scheduler or etcd fails while the node stands still now and then, and a second
\* replica takes the lead, a pass fails or a process crashes.
SPECIFICATION FairSpec
CONSTANTS
    Components = {"Etcd", "Scheduler"}
    FailureThreshold = 2
    RecoveryThreshold = 1
    LeaseGrace = 1
    DownCap = 4
    Operators = {"a", "b"}
    Self = "a"
    StaleAfter = 2
    Cooldown = 1
    MaxLedger = 1
    MaxLatency = 1
    MaxOverlap = 0
    MaxFaults = 2
INVARIANTS
    TypeOK
    OneRestartPerStandstill
PROPERTIES
    OutageWithholdsRestart
    RecoversByItself
