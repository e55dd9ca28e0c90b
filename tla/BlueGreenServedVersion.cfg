\* Violated: a failed rollout puts blue on the new version after all.
SPECIFICATION Spec
CONSTANTS
    Versions = {1, 2}
    NoVersion = 0
    Tokens = {"t1", "t2", "t3", "t4"}
    NoToken = "notoken"
    Snaps = {"s1", "s2"}
    NoSnap = "nosnap"
    RequireSnapshot = TRUE
    Hazards = {}
    MaxFaults = 0
    MaxEdits = 1
PROPERTIES
    ServedVersionIsKept
