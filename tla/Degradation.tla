---------------------------- MODULE Degradation ----------------------------
(***************************************************************************)
(* The degradation monitor of one operator (src/degradation): every round  *)
(* probes the components of the control plane, DegradationTracker turns    *)
(* the results into a level by hysteresis, and the level is stored in the  *)
(* gate that the reconciler consults.                                      *)
(*                                                                         *)
(* The probes of a round run side by side, and components may go down or   *)
(* come up in the meantime: a probe sees its component as it was at some   *)
(* time since the round before.  All of it is in the memory of the         *)
(* operator's process, which may crash.                                    *)
(***************************************************************************)
EXTENDS Naturals, FiniteSets

CONSTANTS
    Components,          \* those of ControlPlaneComponent that may fail
    FailureThreshold,    \* spec.failureThreshold
    RecoveryThreshold,   \* spec.recoveryThreshold
    LeaseGrace,          \* two lease durations of the scheduler, in probe intervals
    DownCap,             \* bound on downFor
    MaxFaults            \* bound on everything that goes wrong

Levels == {"Normal", "Reduced", "Degraded", "Frozen"}

ASSUME DegradationAssumption ==
    /\ Components \subseteq {"Etcd", "Dns", "Webhook", "Scheduler"}
    /\ FailureThreshold \in Nat \ {0} /\ RecoveryThreshold \in Nat \ {0}
    /\ LeaseGrace \in Nat \ {0} /\ DownCap \in Nat /\ MaxFaults \in Nat

VARIABLES
    down,       \* the components that do not work
    seen,       \* every value of down since the last round
    lease,      \* intervals since the scheduler has renewed its lease
    tracker,    \* DegradationTracker.components
    level,      \* DegradationTracker.level, which is the level of the gate
    faults,     \* how many outages, inconclusive rounds and others there were
    rounded,    \* a round has been recorded in this probe interval
    downFor     \* history: the rounds that told of each component, down throughout

components == <<down, lease>>
monitor == <<tracker, level, rounded, downFor>>

ImpliedLevel(c) == CASE c = "Etcd" -> "Frozen"
                     [] c = "Dns" -> "Degraded"
                     [] OTHER -> "Reduced"
Severity(l) == CASE l = "Normal" -> 0 [] l = "Reduced" -> 1 [] l = "Degraded" -> 2 [] OTHER -> 3
Worst(L) == CHOOSE l \in L : \A m \in L : Severity(m) <= Severity(l)

DependsOn(c) == IF c = "Scheduler" THEN {"Etcd"} \cap Components ELSE {}

PermitsWrites(l) == l # "Frozen"
PermitsDisruption(l) == l = "Normal"

\* lease_outcome: the lease counts as fresh for LeaseGrace, give or take the place of the
\* probe in its interval; a scheduler that works may still have to renew it.
LeaseOutcomes(D) ==
    (IF lease <= LeaseGrace \/ "Scheduler" \notin D THEN {"Healthy"} ELSE {})
        \cup (IF lease >= LeaseGrace THEN {"Unhealthy"} ELSE {})

\* What a probe of c may find while the components D are down.  A probe that times out is
\* unhealthy: that of the scheduler when etcd is down, that of the webhook when its name
\* is not resolved.  One that is not permitted, finds no lease or has no address is
\* inconclusive.
Outcomes(c, D) ==
    CASE c = "Dns" -> IF c \in D THEN {"Unhealthy"} ELSE {"Healthy"}
      [] c = "Etcd" -> {IF c \in D THEN "Unhealthy" ELSE "Healthy", "Inconclusive"}
      [] c = "Webhook" ->
           {IF c \in D THEN "Unhealthy" ELSE "Healthy", "Inconclusive"}
               \cup (IF "Dns" \in D THEN {"Unhealthy"} ELSE {})
      [] OTHER -> {"Inconclusive"}
                      \cup (IF "Etcd" \in D THEN {"Unhealthy"} ELSE LeaseOutcomes(D))

NewTracker == [c \in Components |-> [state |-> "Unknown", fails |-> 0, oks |-> 0]]

\* The memory of a process that starts.
MonitorInit ==
    /\ seen = {down} /\ tracker = NewTracker /\ level = "Normal" /\ rounded = FALSE
    /\ downFor = [c \in Components |-> 0]

ComponentsInit == down = {} /\ lease = 0 /\ faults = 0

Capped(n, cap) == IF n < cap THEN n ELSE cap

\* Mutant of Recorded: good rounds do not bring back a component that was Unhealthy.
RecordedForGood(t, outcome) ==
    CASE outcome = "Healthy" ->
           [state |-> IF t.state = "Unknown" THEN "Healthy" ELSE t.state,
            fails |-> 0, oks |-> Capped(t.oks + 1, RecoveryThreshold)]
      [] outcome = "Unhealthy" ->
           LET fails == Capped(t.fails + 1, FailureThreshold) IN
           [state |-> IF fails >= FailureThreshold THEN "Unhealthy" ELSE t.state,
            fails |-> fails, oks |-> 0]
      [] OTHER -> t

\* The match of record_round.  Counts past their threshold are not told apart.
Recorded(t, outcome) ==
    CASE outcome = "Healthy" ->
           LET oks == Capped(t.oks + 1, RecoveryThreshold) IN
           [state |-> IF t.state = "Unknown" \/ (t.state = "Unhealthy" /\ oks >= RecoveryThreshold)
                      THEN "Healthy" ELSE t.state,
            fails |-> 0, oks |-> oks]
      [] outcome = "Unhealthy" ->
           LET fails == Capped(t.fails + 1, FailureThreshold) IN
           [state |-> IF fails >= FailureThreshold THEN "Unhealthy" ELSE t.state,
            fails |-> fails, oks |-> 0]
      [] OTHER -> t

Failing(t) == t.state = "Unhealthy" \/ t.fails > 0

\* attribute: a failure is inconclusive while a dependency, whose result of this round
\* has been recorded in t already, is failing.
Attributed(c, outcome, t) ==
    IF outcome = "Unhealthy" /\ \E d \in DependsOn(c) : Failing(t[d])
    THEN "Inconclusive" ELSE outcome

\* The failure of c shows in every probe that is conclusive.
Showing(c) ==
    /\ \A D \in seen : c \in D
    /\ c = "Scheduler" => lease > LeaseGrace

\* record_round: components without dependencies first, then the level.
RecordRound(outcome) ==
    LET roots == [c \in Components |-> IF DependsOn(c) = {} THEN Recorded(tracker[c], outcome[c])
                                       ELSE tracker[c]]
        result == [c \in Components |-> IF DependsOn(c) = {} THEN outcome[c]
                                        ELSE Attributed(c, outcome[c], roots)]
        after == [c \in Components |-> Recorded(tracker[c], result[c])]
        unhealthy == {c \in Components : after[c].state = "Unhealthy"}
        target == Worst({"Normal"} \cup {ImpliedLevel(c) : c \in unhealthy})
    IN  /\ tracker' = after
        /\ level' = target
        /\ downFor' = [c \in Components |->
                         IF result[c] = "Inconclusive" THEN downFor[c]
                         ELSE IF Showing(c) THEN Capped(downFor[c] + 1, DownCap) ELSE 0]

Fault == faults < MaxFaults /\ faults' = faults + 1

\* One iteration of ControlPlaneHealthMonitor::run.  A probe that cannot tell is a fault,
\* unless the outage of a dependency is the cause.
Round ==
    /\ ~rounded
    /\ \E outcome \in [Components -> {"Healthy", "Unhealthy", "Inconclusive"}] :
          /\ \A c \in Components : \E D \in seen : outcome[c] \in Outcomes(c, D)
          /\ RecordRound(outcome)
          /\ IF \E c \in Components : /\ outcome[c] = "Inconclusive"
                                      /\ \A D \in seen : DependsOn(c) \cap D = {}
             THEN Fault ELSE UNCHANGED faults
    /\ seen' = {down} /\ rounded' = TRUE
    /\ UNCHANGED components

Renewing == {"Etcd", "Scheduler"} \cap down = {}

\* A component stops working, the scheduler having renewed its lease until then.
GoesDown(c) ==
    /\ c \notin down /\ down' = down \cup {c}
    /\ Fault
    /\ lease' = IF Renewing THEN 0 ELSE lease

\* It works again.
ComesUp(c) ==
    /\ c \in down /\ down' = down \ {c}
    /\ UNCHANGED <<lease, faults>>

Change(c) ==
    /\ GoesDown(c) \/ ComesUp(c)
    /\ seen' = seen \cup {down'}
    /\ downFor' = [downFor EXCEPT ![c] = 0]
    /\ UNCHANGED <<tracker, level, rounded>>

\* A probe interval goes by, with a round in it.
Interval ==
    /\ rounded /\ rounded' = FALSE
    /\ lease' = IF Renewing THEN 0 ELSE Capped(lease + 1, LeaseGrace + 1)
    /\ UNCHANGED <<down, seen, tracker, level, downFor, faults>>

\* The process crashes, and starts with nothing in its memory.
MonitorRestarts ==
    /\ seen' = {down} /\ tracker' = NewTracker /\ level' = "Normal" /\ rounded' = FALSE
    /\ downFor' = [c \in Components |-> 0]
    /\ UNCHANGED components

MonitorTypeOK ==
    /\ down \subseteq Components /\ seen \subseteq SUBSET Components
    /\ lease \in 0..LeaseGrace + 1
    /\ tracker \in [Components -> [state : {"Unknown", "Healthy", "Unhealthy"},
                                   fails : 0..FailureThreshold, oks : 0..RecoveryThreshold]]
    /\ level \in Levels /\ rounded \in BOOLEAN /\ faults \in 0..MaxFaults
    /\ downFor \in [Components -> 0..DownCap]
=============================================================================
