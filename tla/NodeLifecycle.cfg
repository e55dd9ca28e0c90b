\* Two operators; a node is deleted and created again, or edited, with one fault.
SPECIFICATION FairSpec
CONSTANTS
    Operators = {"a", "b"}
    Specs <- EveryMode
    MaxChanges = 2
    MaxFaults = 1
CHECK_DEADLOCK FALSE
INVARIANTS
    TypeOK
    ArchiveCheckedFirst
PROPERTIES
    LiveVolumeKept
    Converges
    NothingLeftBehind
    DeletionEnds
