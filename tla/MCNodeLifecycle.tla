-------------------------- MODULE MCNodeLifecycle --------------------------
(* What the user may ask of a node, one spec of every mode.                 *)
EXTENDS NodeLifecycle

Run == [ver |-> 1, mode |-> "run", retain |-> FALSE]
Suspended == [ver |-> 2, mode |-> "suspended", retain |-> TRUE]
Maintenance == [ver |-> 2, mode |-> "maintenance", retain |-> FALSE]
Invalid == [ver |-> 1, mode |-> "invalid", retain |-> FALSE]

EveryMode == {Run, Suspended, Maintenance, Invalid}
============================================================================
