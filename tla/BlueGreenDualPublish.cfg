\* Violated: a rollback starts blue while green is still terminating.
SPECIFICATION Spec
CONSTANTS
    Versions = {1, 2}
    NoVersion = 0
    Tokens = {"t1", "t2", "t3", "t4"}
    NoToken = "notoken"
    Snaps = {"s1", "s2"}
    NoSnap = "nosnap"
    RequireSnapshot = TRUE
    Hazards = {}
    MaxFaults = 1
    MaxEdits = 1
INVARIANTS
    NoDualPublishing
