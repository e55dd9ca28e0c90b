---------------------------- MODULE GradualShift ----------------------------
(***************************************************************************)
(* What a traffic shift promises to the resolvers of the routed name: the  *)
(* share of the primary region moves only towards the end point of the     *)
(* direction the plan is in, never past it, and the plan turns round only  *)
(* after the end point has been published.  TrafficShift implements it.    *)
(***************************************************************************)
EXTENDS Integers

CONSTANT InitialWeight   \* the steady-state share of the primary region

VARIABLES
    weight,      \* share of the primary in the published record, in percent
    direction    \* where the plan moves the share

Directions == {"Failover", "Failback"}
EndPoint(d) == IF d = "Failover" THEN 0 ELSE InitialWeight

\* x is on the way from the current share to the end point.
Towards(x) ==
    IF EndPoint(direction) <= weight
    THEN EndPoint(direction) <= x /\ x < weight
    ELSE weight < x /\ x <= EndPoint(direction)

Init == weight = InitialWeight /\ direction = "Failover"

Move ==
    /\ weight' \in 0..100 /\ Towards(weight')
    /\ UNCHANGED direction

Turn ==
    /\ weight = EndPoint(direction)
    /\ direction' \in Directions \ {direction}
    /\ UNCHANGED weight

Next == Move \/ Turn
Spec == Init /\ [][Next]_<<weight, direction>>
=============================================================================
