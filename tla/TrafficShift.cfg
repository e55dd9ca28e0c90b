SPECIFICATION Spec
CONSTANTS
    InitialWeight = 100
    StepPercent = 25
    Drain = 1
    Propagation = 2
    MinStable = 1
    Automatic = TRUE
    AsksSamples = TRUE
    Evidence <- AllEvidence
    MaxLatency = 1
    MaxFaults = 1
    MaxEdits = 1
INVARIANTS
    TypeOK
    
PROPERTIES
    MovesGradually
    IncrementsAreSpaced
    FailbackAfterCooldown
