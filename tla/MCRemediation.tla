--------------------------- MODULE MCRemediation ---------------------------
(* The monitor and one node, bounds in the configurations.                  *)
EXTENDS Remediation
============================================================================
