-------------------------- MODULE MCLeaderElection --------------------------
(* Two replicas.  One time unit is 5/3 s: LEASE_DURATION_SECS is 9 units,   *)
(* RENEW_INTERVAL 6 and RETRY_INTERVAL 3.                                   *)
EXTENDS LeaderElection

CONSTANTS a, b

MCReplicas == {a, b}
NoSkew == [r \in MCReplicas |-> 0]
FastClock == [r \in MCReplicas |-> IF r = a THEN 1 ELSE 0]
=============================================================================
