\* One subscription: the others share nothing with it but the poll loop.
SPECIFICATION Spec
CONSTANTS
    Hooks = {"h1"}
    Capacity = 2
    MaxRetries = 1
    MaxLedger = 4
    MaxFaults = 3
INVARIANTS
    TypeOK
PROPERTIES
    DeliveredInOrder
    EveryLedgerSettled
CHECK_DEADLOCK FALSE
