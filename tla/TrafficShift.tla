---------------------------- MODULE TrafficShift ----------------------------
(***************************************************************************)
(* The traffic shift controller, src/controller/traffic_shift.rs: one pass *)
(* (reconcile_traffic_shift_plan) captures the clock, probes both regions, *)
(* picks one action of the state machine, mirrors a new DNS record into an *)
(* annotation and then saves the status.  The two writes are separate      *)
(* requests, and a pass may end after any of them or before.               *)
(*                                                                         *)
(* Health evidence is what the gate tells apart: a region proves itself up *)
(* (is_healthy), down (is_unhealthy) or neither, and its error rate is     *)
(* within the soak budget or not (noisy).  The probe is a parameter of the *)
(* pass: it may hand out samples taken before the pass captured `now`, or, *)
(* as HttpHealthProbe does, take them afterwards (late).  Nothing in the   *)
(* repository calls the pass, so nothing is assumed of how often it runs.  *)
(*                                                                         *)
(* Absolute time is not kept.  The status carries the age of the timestamp *)
(* that counts at its point: of drain_started_at while a step drains, of   *)
(* the `now` of its publication while it soaks, and of serving_since.  An  *)
(* age grows to the value past which no test tells it apart.  Of the steps *)
(* of the status only the last one of the current direction is looked at   *)
(* by the code, and their number, which is the next index.                 *)
(***************************************************************************)
EXTENDS Integers

CONSTANTS
    InitialWeight,   \* spec.routing.initialPrimaryWeight
    StepPercent,     \* spec.shift.stepPercent
    Drain,           \* spec.shift.drainSeconds
    Propagation,     \* max(spec.routing.ttlSeconds, spec.shift.soakSeconds)
    MinStable,       \* spec.failback.minStableSeconds
    Automatic,       \* spec.failback.automatic
    AsksSamples,     \* spec.healthGate.minSamples or minSuccessRatePercent is positive
    Evidence,        \* the evidence a region may show
    MaxLatency,      \* longest time from the captured `now` to the end of a pass
    MaxFaults,       \* bound on the passes that fail half way
    MaxEdits         \* bound on the edits that make the plan invalid or valid again

Regions == {"primary", "secondary"}
Directions == {"Failover", "Failback"}

ASSUME PlanAssumption ==
    /\ InitialWeight \in 0..100
    /\ StepPercent \in 1..100
    /\ Drain \in Nat /\ Propagation \in Nat \ {0} /\ MinStable \in Nat
    /\ Automatic \in BOOLEAN /\ AsksSamples \in BOOLEAN
    /\ MaxLatency \in Nat /\ MaxFaults \in Nat /\ MaxEdits \in Nat

\* A region cannot prove itself up and down at once: both thresholds are positive.
ASSUME EvidenceAssumption ==
    /\ Evidence \subseteq [up : BOOLEAN, down : BOOLEAN, noisy : BOOLEAN]
    /\ \A e \in Evidence : ~(e.up /\ e.down)

VARIABLES
    status,      \* status of the TrafficShiftPlan on the API server
    published,   \* share of the primary in the record mirrored into the annotation
    pass,        \* where the running pass is
    draft,       \* the status the pass has read, then the one it is going to save
    lag,         \* time since the pass captured `now`
    health,      \* what the probes of each region show
    late,        \* the samples of the probe are newer than the `now` of the pass
    withheld,    \* directions suppressed, or waiting for the request of a Manual plan
    valid,       \* validate_plan finds no problem
    faults,      \* failed passes so far
    edits,       \* edits of the spec so far
    quiet        \* history: time since the published share changed

env == <<health, late, withheld, valid, edits>>
vars == <<status, published, pass, draft, lag, faults, quiet, env>>

Phases == {"Idle", "Gated", "Draining", "Shifting", "Soaking",
           "Completed", "Aborted", "Failed"}
Terminal == {"Completed", "Aborted", "Failed"}
InProgress == {"Draining", "Shifting", "Soaking"}

-----------------------------------------------------------------------------
(* Weights, deadlines and the gate.                                        *)

\* Ages past these are over for every test, whatever the lag of the pass.
StepCap == IF Drain < Propagation THEN Propagation + MaxLatency ELSE Drain + MaxLatency
ServedCap == MinStable + MaxLatency
QuietCap == Propagation + Drain + MinStable
Older(age, cap) == IF age < cap THEN age + 1 ELSE age

\* Indices past this one move the whole way in one step.
IndexCap == 100 \div StepPercent + 1

TargetWeight(d) == IF d = "Failover" THEN 0 ELSE InitialWeight

\* Mutant of WeightAfterStep: the result is not clamped to the end point.
WeightAfterStepUnclamped(from, target, index) ==
    IF target <= from THEN from - StepPercent * (index + 1)
                      ELSE from + StepPercent * (index + 1)

\* weight_after_step: index + 1 increments from `from`, clamped to the end points.
WeightAfterStep(from, target, index) ==
    LET moved == StepPercent * (index + 1)
    IN  IF target <= from
        THEN IF from - moved < target THEN target ELSE from - moved
        ELSE IF from + moved > target THEN target ELSE from + moved

\* Mutant of Collected: samples newer than `now` are in the window.
CollectedAll(r) == health[r]

\* collect_evidence keeps what is between 0 and the window older than `now`.  The runs
\* of successes and failures are counted over all samples, the number of samples, the
\* success rate and the error rate (0 without samples) over those in the window.
Collected(r) ==
    IF late THEN [up |-> health[r].up /\ ~AsksSamples, down |-> health[r].down,
                  noisy |-> FALSE]
            ELSE health[r]

\* evaluate_gate: the region gaining weight is up and, on failover, the other is down.
GateOpen(d) ==
    IF d = "Failover" THEN Collected("secondary").up /\ Collected("primary").down
                      ELSE Collected("primary").up

\* soak_error_rate, of the region that is gaining weight, against the budget.
OverBudget(d) == Collected(IF d = "Failover" THEN "secondary" ELSE "primary").noisy

\* Mutant of DesiredDirection: turns as soon as the other gate opens.
DesiredDirectionEarly(s) ==
    IF s.direction = "Failover" /\ Automatic /\ GateOpen("Failback") THEN "Failback"
    ELSE IF s.direction = "Failback" /\ GateOpen("Failover") THEN "Failover"
    ELSE s.direction

\* desired_direction: a plan turns round once it has settled on its end point, if the
\* gate of the other direction is open; failback also has to be automatic.
DesiredDirection(s) ==
    IF s.weight # TargetWeight(s.direction) \/ s.phase # "Completed" THEN s.direction
    ELSE IF s.direction = "Failover"
         THEN IF s.weight = 0 /\ Automatic /\ GateOpen("Failback")
              THEN "Failback" ELSE "Failover"
         ELSE IF s.weight = 100 /\ GateOpen("Failover")
              THEN "Failover" ELSE "Failback"

NoStep == [outcome |-> "None", to |-> 0, age |-> 0]

\* The head of reconcile_cycle_with_control: a terminal plan may turn round.  The last
\* step of the direction it turns to was closed when that direction was left.
Turned(s) ==
    LET d == DesiredDirection(s)
    IN  IF s.phase \in Terminal /\ d # s.direction
        THEN [s EXCEPT !.direction = d, !.phase = "Gated", !.step = NoStep]
        ELSE s

-----------------------------------------------------------------------------
Init ==
    /\ status = [phase |-> "Idle", direction |-> "Failover", weight |-> InitialWeight,
                 step |-> NoStep, index |-> [d \in Directions |-> 0], served |-> 0]
    /\ published = InitialWeight
    /\ pass = "none" /\ draft = status /\ lag = 0
    /\ health \in [Regions -> Evidence] /\ late \in BOOLEAN
    /\ withheld = {} /\ valid = TRUE
    /\ faults = 0 /\ edits = 0 /\ quiet = QuietCap

\* reconcile_traffic_shift_plan captures `now` and starts to probe.
StartPass ==
    /\ pass = "none"
    /\ pass' = "probe" /\ draft' = status /\ lag' = 0
    /\ UNCHANGED <<status, published, faults, quiet, env>>

\* The pass has decided; a new record is mirrored before the status is saved.
Decide(s, next) ==
    /\ draft' = s /\ pass' = next
    /\ UNCHANGED <<status, published, lag, faults, quiet, env>>

-----------------------------------------------------------------------------
(* next_action_with_control and apply_action: one action of the state       *)
(* machine per pass, in the order of the code's tests.                      *)

Probed == pass = "probe"

\* Only a failed or completed plan is left alone.
Active(s) == valid /\ s.phase \notin {"Failed", "Completed"}

\* Mutant of Elapsed: the deadline counts from the wrong end of the pass.
ElapsedEarly(s, deadline) == s.step.age >= deadline - 1

\* now has reached the timestamp the age belongs to plus deadline.
Elapsed(s, deadline) == s.step.age - lag >= deadline

\* What is left to do of the step in flight.
Soaks(s) == s.step.outcome = "Applied" /\ ~Elapsed(s, Propagation)
Spoiled(s) == s.step.outcome = "Applied" /\ ~Soaks(s) /\ OverBudget(s.direction)
Drains(s) == s.step.outcome = "Draining"
Free(s) == Active(s) /\ ~Soaks(s) /\ ~Spoiled(s) /\ ~Drains(s)

\* Fail: the plan does not validate.
FailPlan ==
    /\ Probed /\ ~valid
    /\ Decide([Turned(draft) EXCEPT !.phase = "Failed"], "save")

\* Idle: a failed or completed plan stays as it is.
StayIdle ==
    /\ Probed /\ valid /\ Turned(draft).phase \in {"Failed", "Completed"}
    /\ Decide(Turned(draft), "save")

Soak ==
    LET s == Turned(draft) IN
    /\ Probed /\ Active(s) /\ Soaks(s)
    /\ Decide([s EXCEPT !.phase = "Soaking"], "save")

Abort ==
    LET s == Turned(draft) IN
    /\ Probed /\ Active(s) /\ Spoiled(s)
    /\ Decide([s EXCEPT !.phase = "Aborted", !.step.outcome = "Aborted"], "save")

KeepDraining ==
    LET s == Turned(draft) IN
    /\ Probed /\ Active(s) /\ Drains(s) /\ ~Elapsed(s, Drain)
    /\ Decide([s EXCEPT !.phase = "Draining"], "save")

\* Publish: the drain is over.  The gate is not looked at again.
Publish ==
    LET s == Turned(draft) IN
    /\ Probed /\ Active(s) /\ Drains(s) /\ Elapsed(s, Drain)
    /\ Decide([s EXCEPT !.phase = "Shifting", !.weight = s.step.to,
                        !.step.outcome = "Applied", !.step.age = lag], "mirror")

\* Complete: the end point is published and the last soak, if any, was clean.
Complete ==
    LET s == Turned(draft) IN
    /\ Probed /\ Free(s) /\ s.weight = TargetWeight(s.direction)
    /\ Decide([s EXCEPT !.phase = "Completed",
                        !.served = IF s.direction = "Failover" THEN lag ELSE @,
                        !.step.outcome = IF @ = "Applied" THEN "Succeeded" ELSE @], "save")

\* Hold: the direction is withheld, or its gate is closed.
Hold ==
    LET s == Turned(draft) IN
    /\ Probed /\ Free(s) /\ s.weight # TargetWeight(s.direction)
    /\ s.direction \in withheld \/ ~GateOpen(s.direction)
    /\ Decide([s EXCEPT !.phase = IF @ \in InProgress THEN @ ELSE "Gated"], "save")

\* The tests of next_action_with_control before a fresh increment.
MayMove(s) ==
    /\ Free(s) /\ s.weight # TargetWeight(s.direction)
    /\ s.direction \notin withheld /\ GateOpen(s.direction)

\* Mutant of Cooling: the cooldown is left out.
CoolingNever(s) == FALSE

\* failback_ready_at has not been reached.
Cooling(s) == s.direction = "Failback" /\ s.served - lag < MinStable

\* Wait: the secondary has not served long enough.
WaitCooldown ==
    LET s == Turned(draft) IN
    /\ Probed /\ MayMove(s) /\ Cooling(s)
    /\ Decide([s EXCEPT !.phase = "Gated"], "save")

\* A fresh increment starts with the drain of the losing region.
StartDrain ==
    LET s == Turned(draft)
        n == s.index[s.direction]
        to == WeightAfterStep(s.weight, TargetWeight(s.direction), n)
    IN
    /\ Probed /\ MayMove(s) /\ ~Cooling(s)
    /\ Decide([s EXCEPT !.phase = "Draining",
                        !.step = [outcome |-> "Draining", to |-> to, age |-> lag],
                        !.index[s.direction] = Older(n, IndexCap)], "save")

Action ==
    \/ FailPlan \/ StayIdle \/ Soak \/ Abort \/ KeepDraining \/ Publish
    \/ Complete \/ Hold \/ WaitCooldown \/ StartDrain

-----------------------------------------------------------------------------
(* The writes of the pass, its failure, the environment and time.          *)

\* The annotation with the new record is applied.
MirrorRecord ==
    /\ pass = "mirror"
    /\ published' = draft.weight
    /\ quiet' = IF published' = published THEN quiet ELSE 0
    /\ pass' = "save"
    /\ UNCHANGED <<status, draft, lag, faults, env>>

\* patch_status is applied.
SaveStatus ==
    /\ pass = "save"
    /\ status' = draft
    /\ pass' = "none" /\ lag' = 0
    /\ UNCHANGED <<published, draft, faults, quiet, env>>

\* A probe or a request fails, or the operator dies: nothing else of the pass happens.
Abandon ==
    /\ pass # "none"
    /\ faults < MaxFaults
    /\ faults' = faults + 1
    /\ pass' = "none" /\ lag' = 0 /\ draft' = status
    /\ UNCHANGED <<status, published, quiet, env>>

\* The regions change.
HealthChanges ==
    /\ health' \in [Regions -> Evidence]
    /\ UNCHANGED <<status, published, pass, draft, lag, faults, quiet>>
    /\ UNCHANGED <<late, withheld, valid, edits>>

\* The annotations are edited (plan_control reads them with the plan).
ControlChanges ==
    /\ pass = "none"
    /\ \E d \in Directions :
          withheld' = IF d \in withheld THEN withheld \ {d} ELSE withheld \cup {d}
    /\ UNCHANGED <<status, published, pass, draft, lag, faults, quiet>>
    /\ UNCHANGED <<health, late, valid, edits>>

\* The spec is edited, into or out of a shape validate_plan accepts.
SpecChanges ==
    /\ pass = "none"
    /\ edits < MaxEdits
    /\ edits' = edits + 1
    /\ valid' = ~valid
    /\ UNCHANGED <<status, published, pass, draft, lag, faults, quiet>>
    /\ UNCHANGED <<health, late, withheld>>

Aged(s) == [s EXCEPT !.step.age = Older(@, StepCap), !.served = Older(@, ServedCap)]

Tick ==
    /\ pass # "none" => lag < MaxLatency
    /\ status' = Aged(status)
    /\ draft' = Aged(draft)
    /\ lag' = IF pass = "none" THEN 0 ELSE lag + 1
    /\ quiet' = Older(quiet, QuietCap)
    /\ UNCHANGED <<published, pass, faults, env>>

Next ==
    \/ StartPass \/ Action \/ MirrorRecord \/ SaveStatus \/ Abandon
    \/ HealthChanges \/ ControlChanges \/ SpecChanges \/ Tick

Spec == Init /\ [][Next]_vars

-----------------------------------------------------------------------------
Statuses ==
    [phase : Phases, direction : Directions, weight : 0..100,
     step : [outcome : {"None", "Draining", "Applied", "Succeeded", "Aborted"},
             to : 0..100, age : 0..StepCap],
     index : [Directions -> 0..IndexCap], served : 0..ServedCap]

TypeOK ==
    /\ status \in Statuses /\ draft \in Statuses
    /\ published \in 0..100
    /\ pass \in {"none", "probe", "mirror", "save"}
    /\ lag \in 0..MaxLatency
    /\ health \in [Regions -> Evidence] /\ late \in BOOLEAN
    /\ withheld \subseteq Directions
    /\ valid \in BOOLEAN
    /\ faults \in 0..MaxFaults /\ edits \in 0..MaxEdits
    /\ quiet \in 0..QuietCap

\* The header of traffic_shift.rs: the shift "cannot overshoot the target", whatever
\* pass fails between its two writes.  The record the resolvers see, and the direction
\* of the saved status, behave as GradualShift.
Promise == INSTANCE GradualShift WITH weight <- published, direction <- status.direction
MovesGradually == Promise!Spec

\* propagation_deadline and drain_deadline: resolvers have seen an increment and the
\* losing region has drained before the next increment is published, up to the time
\* that passes between the captured `now` of a pass and its write.
IncrementsAreSpaced ==
    [][published' # published => quiet >= Propagation + Drain - MaxLatency]_vars

\* failback_ready_at: the secondary has carried all of the traffic for the whole
\* cooldown before any of it goes back.
FailbackAfterCooldown ==
    [][published = 0 /\ published' > 0
         => quiet >= Propagation + MinStable + Drain - MaxLatency]_vars

\* collect_evidence: with a probe that takes its samples after the pass has captured
\* `now`, which HttpHealthProbe does, a gate that asks for samples never opens, so the
\* plan never moves any traffic, whatever the regions and the operators of the plan do.
LateProbesMoveNothing == late /\ AsksSamples => published = InitialWeight

\* "one increment of `spec.shift.stepPercent` is published" at a time: weight_after_step
\* says "Each increment moves exactly `step_percent`".
IncrementIsOneStep ==
    [][/\ published' - published <= StepPercent
       /\ published - published' <= StepPercent]_vars
=============================================================================
