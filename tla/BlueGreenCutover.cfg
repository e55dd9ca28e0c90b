\* Identity is serialized and the node served again, with one fault anywhere and two edits.
SPECIFICATION FairSpec
CONSTANTS
    Versions = {1, 2}
    NoVersion = 0
    Tokens = {"t1", "t2", "t3", "t4"}
    NoToken = "notoken"
    Snaps = {"s1", "s2"}
    NoSnap = "nosnap"
    RequireSnapshot = FALSE
    Hazards = {}
    MaxFaults = 1
    MaxEdits = 2
INVARIANTS
    TypeOK
    CutoverSerializesIdentity
PROPERTIES
    GreenPublishesAlone
    SwitchFollowsRollout
    ServesAgain
