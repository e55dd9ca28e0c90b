--------------------------- MODULE MCTrafficShift ---------------------------
(* A region is up, up with too many errors, down, or proves nothing.         *)
EXTENDS TrafficShift

Up == [up |-> TRUE, down |-> FALSE, noisy |-> FALSE]
UpNoisy == [up |-> TRUE, down |-> FALSE, noisy |-> TRUE]
Down == [up |-> FALSE, down |-> TRUE, noisy |-> TRUE]
Unsure == [up |-> FALSE, down |-> FALSE, noisy |-> FALSE]

AllEvidence == {Up, UpNoisy, Down, Unsure}
ClearEvidence == {Up, UpNoisy, Down}
=============================================================================
