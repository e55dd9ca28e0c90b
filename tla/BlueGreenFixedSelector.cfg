\* An API server that keeps selectors fixed and admits two snapshots: still served.
SPECIFICATION FairSpec
CONSTANTS
    Versions = {1, 2}
    NoVersion = 0
    Tokens = {"t1", "t2", "t3", "t4"}
    NoToken = "notoken"
    Snaps = {"s1", "s2"}
    NoSnap = "nosnap"
    RequireSnapshot = TRUE
    Hazards = {"fixedSelector", "staleCache", "lostPatch"}
    MaxFaults = 2
    MaxEdits = 1
INVARIANTS
    GreenSeededFromUsableSnapshot
PROPERTIES
    ServesAgain
