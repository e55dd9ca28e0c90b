\* Violated: two plans made before the lease was taken keep different checkpoints.
SPECIFICATION Spec
CONSTANTS
    Pruners = {"operator", "command"}
    Identity <- OwnIdentity
    NoHolder = "nobody"
    Checkpoints = {1, 2, 3, 4}
    MinCheckpoints = 2
    ByLedgers = FALSE
    RetentionDays = 1
    MaxAge = 1
    LeaseDuration = 1
    AutoDelete = TRUE
PROPERTIES
    MinimumIsRetained
