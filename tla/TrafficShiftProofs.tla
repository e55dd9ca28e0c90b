------------------------- MODULE TrafficShiftProofs -------------------------
(***************************************************************************)
(* Proofs about TrafficShift, for every plan, every latency and any number *)
(* of failed passes: the type invariant, that the published share          *)
(* implements GradualShift, its spacing, and that late probes never move   *)
(* it.  The inductive invariant IInv says what a status means for the      *)
(* published record: nothing but the last increment may be ahead of the    *)
(* saved weight, and only while its step still drains.                     *)
(***************************************************************************)
EXTENDS TrafficShift, TLAPS

\* x lies between w and the end point t.
Between(x, w, t) == IF t <= w THEN t <= x /\ x <= w ELSE w <= x /\ x <= t

\* What a status s says about the published share p.
Accounts(s, p) ==
    /\ s.step.outcome = "Draining"
         => /\ Between(s.step.to, s.weight, TargetWeight(s.direction))
            /\ p \in {s.weight, s.step.to}
    /\ s.step.outcome # "Draining" => p = s.weight
    /\ s.phase = "Completed"
         => /\ s.weight = TargetWeight(s.direction)
            /\ s.step.outcome \notin {"Draining", "Applied"}

\* What the running pass knows at each of its points.
PassInv ==
    /\ pass = "probe" => draft = status
    /\ pass = "mirror"
         => /\ status.step.outcome = "Draining" /\ draft.weight = status.step.to
            /\ draft.direction = status.direction /\ draft.served = status.served
            /\ draft.step.outcome = "Applied" /\ draft.phase = "Shifting"
    /\ pass = "save"
         => /\ Accounts(draft, published)
            /\ draft.direction # status.direction
                 => published = TargetWeight(status.direction)

IInv == TypeOK /\ Accounts(status, published) /\ PassInv

\* The published share had not changed for d when a timestamp of age a was taken, up to
\* the latency of a pass.
Since(a, d) == quiet = QuietCap \/ quiet - a >= d - MaxLatency

\* All of the traffic is on the secondary and the plan is on its way back.
Returning(s) ==
    s.direction = "Failback" /\ InitialWeight > 0 /\ s.weight = 0 /\ published = 0

\* What the ages of a status say about the time since the last increment.
Timing(s) ==
    /\ s.step.outcome \in {"None", "Succeeded", "Aborted"} => Since(lag, Propagation)
    /\ s.step.outcome = "Applied" => quiet = QuietCap \/ s.step.age <= quiet + MaxLatency
    /\ s.step.outcome = "Draining" /\ published = s.weight => Since(s.step.age, Propagation)
    /\ s.phase = "Completed" /\ s.direction = "Failover" => Since(s.served, Propagation)
    /\ Returning(s) => Since(s.served, Propagation)
    /\ Returning(s) /\ s.step.outcome = "Draining"
         => Since(s.step.age, Propagation + MinStable)

TimeInv ==
    /\ Timing(status)
    /\ pass = "none" => lag = 0
    /\ pass = "mirror" => draft.step.age <= lag /\ status.step.age >= Drain
    /\ pass = "save" => Timing(draft)

-----------------------------------------------------------------------------
(* The operators the model is built from.                                  *)

\* The bounds of the model are natural numbers.
LEMMA BoundsTyped ==
    /\ StepCap \in Nat /\ StepCap >= MaxLatency
    /\ ServedCap \in Nat /\ ServedCap >= MaxLatency
    /\ IndexCap \in Nat /\ QuietCap \in Nat
    /\ QuietCap >= Propagation + Drain
<1>1. 100 \div StepPercent \in Nat
  BY PlanAssumption
<1> QED
  BY <1>1, PlanAssumption DEF StepCap, ServedCap, IndexCap, QuietCap

\* The end point of a direction is a share.
LEMMA TargetTyped ==
    \A d : TargetWeight(d) \in 0..100
BY PlanAssumption DEF TargetWeight

\* An age stays within its cap.
LEMMA OlderTyped ==
    ASSUME NEW cap \in Nat, NEW age \in 0..cap
    PROVE  Older(age, cap) \in 0..cap /\ Older(age, cap) >= age
BY DEF Older

\* weight_after_step stays between the current weight and the end point.
LEMMA WeightOnTheWay ==
    ASSUME NEW from \in 0..100, NEW target \in 0..100, NEW index \in Nat
    PROVE  /\ WeightAfterStep(from, target, index) \in 0..100
           /\ Between(WeightAfterStep(from, target, index), from, target)
<1> DEFINE moved == StepPercent * (index + 1)
<1>1. moved \in Nat
  BY PlanAssumption
<1>2. WeightAfterStep(from, target, index)
        = IF target <= from
          THEN IF from - moved < target THEN target ELSE from - moved
          ELSE IF from + moved > target THEN target ELSE from + moved
  BY Zenon DEF WeightAfterStep
<1> HIDE DEF moved
<1> QED
  BY <1>1, <1>2 DEF Between

\* A plan that turns round keeps its weight, and was at its end point.
LEMMA TurnedTyped ==
    ASSUME NEW s \in Statuses
    PROVE  /\ Turned(s) \in Statuses
           /\ Turned(s).weight = s.weight
           /\ Turned(s) # s
                => /\ s.phase = "Completed" /\ s.weight = TargetWeight(s.direction)
                   /\ Turned(s).step = NoStep /\ Turned(s).phase = "Gated"
<1>1. DesiredDirection(s) \in Directions
  BY DEF DesiredDirection, Directions, Statuses
<1>2. NoStep \in [outcome : {"None", "Draining", "Applied", "Succeeded", "Aborted"},
                   to : 0..100, age : 0..StepCap]
  BY BoundsTyped DEF NoStep
<1>3. DesiredDirection(s) # s.direction
        => s.phase = "Completed" /\ s.weight = TargetWeight(s.direction)
  BY DEF DesiredDirection, Statuses, Directions
<1> DEFINE t == [s EXCEPT !.direction = DesiredDirection(s), !.phase = "Gated", !.step = NoStep]
<1>4. t \in Statuses /\ t.weight = s.weight /\ t.step = NoStep /\ t.phase = "Gated"
  BY <1>1, <1>2 DEF Statuses, Phases
<1>5. Turned(s) = IF s.phase \in Terminal /\ DesiredDirection(s) # s.direction THEN t ELSE s
  BY DEF Turned
<1> HIDE DEF t
<1> QED
  BY <1>3, <1>4, <1>5

\* Time leaves everything of a status but its ages.
LEMMA AgedTyped ==
    ASSUME NEW s \in Statuses
    PROVE  /\ Aged(s) \in Statuses
           /\ Aged(s).phase = s.phase /\ Aged(s).direction = s.direction
           /\ Aged(s).weight = s.weight /\ Aged(s).step.to = s.step.to
           /\ Aged(s).step.outcome = s.step.outcome
           /\ Aged(s).step.age = Older(s.step.age, StepCap)
           /\ Aged(s).index = s.index /\ Aged(s).served = Older(s.served, ServedCap)
<1>1. Older(s.step.age, StepCap) \in 0..StepCap /\ Older(s.served, ServedCap) \in 0..ServedCap
  BY OlderTyped, BoundsTyped DEF Statuses
<1> QED
  BY <1>1 DEF Aged, Statuses
Inv == IInv /\ TimeInv

\* A status the pass may save: it is typed, it accounts for the published share, its ages
\* are right, and it turns round only at the end point.
Sound(u) ==
    /\ u \in Statuses
    /\ Accounts(u, published) /\ Timing(u)
    /\ u.direction # status.direction => published = TargetWeight(status.direction)

-----------------------------------------------------------------------------
(* A pass.                                                                 *)

\* The status a pass works on is sound, also when the plan has turned round.
LEMMA TurnedSound ==
    ASSUME Inv, pass = "probe"
    PROVE  /\ Sound(Turned(draft))
           /\ Turned(draft).step.outcome = "Draining" => Turned(draft) = status
<1>1. status \in Statuses /\ draft = status /\ lag \in 0..MaxLatency
  BY DEF Inv, IInv, TypeOK, PassInv
<1>2. Accounts(status, published) /\ Timing(status)
  BY DEF Inv, IInv, TimeInv
<1>3. CASE Turned(draft) = draft
  BY <1>1, <1>2, <1>3 DEF Sound
<1>4. CASE Turned(draft) # draft
  <2> DEFINE s == Turned(draft)
  <2>1. /\ s \in Statuses /\ s.weight = status.weight
        /\ s.step.outcome = "None" /\ s.phase = "Gated"
        /\ status.phase = "Completed" /\ status.weight = TargetWeight(status.direction)
        /\ s.direction # status.direction /\ s.served = status.served
    BY <1>1, <1>4, TurnedTyped DEF Turned, NoStep, Statuses
  <2> HIDE DEF s
  <2>2. published = status.weight
    BY <1>2, <2>1 DEF Accounts
  <2>3. Accounts(s, published)
    BY <2>1, <2>2 DEF Accounts
  <2>4. Timing(s)
    BY <1>1, <1>2, <2>1, <2>2 DEF Timing, Accounts, Returning, Statuses, Directions
  <2> QED
    BY <2>1, <2>2, <2>3, <2>4 DEF Sound, s
<1> QED
  BY <1>3, <1>4

\* A pass that decides on a sound status keeps the invariant.
LEMMA SavePreserves ==
    ASSUME Inv, pass' = "save", Sound(draft'),
           UNCHANGED <<status, published, lag, faults, quiet, env>>
    PROVE  Inv'
<1>1. TypeOK'
  BY DEF Inv, IInv, TypeOK, Sound, env
<1>2. Accounts(status, published)'
  BY DEF Inv, IInv, Accounts
<1>3. PassInv'
  BY DEF PassInv, Sound, Accounts
<1>4. TimeInv'
  BY DEF Inv, TimeInv, Timing, Sound, Since, Returning
<1> QED
  BY <1>1, <1>2, <1>3, <1>4 DEF Inv, IInv

\* The decisions that change at most the phase.
LEMMA PhaseDecisions ==
    ASSUME Inv, FailPlan \/ StayIdle \/ Soak \/ KeepDraining \/ Hold \/ WaitCooldown
    PROVE  Inv'
<1> DEFINE s == Turned(draft)
<1>1. /\ pass = "probe" /\ pass' = "save"
      /\ UNCHANGED <<status, published, lag, faults, quiet, env>>
  BY DEF FailPlan, StayIdle, Soak, KeepDraining, Hold, WaitCooldown, Probed, Decide
<1>2. Sound(s)
  BY <1>1, TurnedSound
<1>3. \/ draft' = s
      \/ \E p \in Phases \ {"Completed"} : draft' = [s EXCEPT !.phase = p]
  <2>1. CASE FailPlan
    BY <2>1 DEF FailPlan, Decide, Phases
  <2>2. CASE StayIdle
    BY <2>2 DEF StayIdle, Decide
  <2>3. CASE Soak
    BY <2>3 DEF Soak, Decide, Phases
  <2>4. CASE KeepDraining
    BY <2>4 DEF KeepDraining, Decide, Phases
  <2>5. CASE Hold
    BY <2>5 DEF Hold, Decide, Phases, InProgress
  <2>6. CASE WaitCooldown
    BY <2>6 DEF WaitCooldown, Decide, Phases
  <2> QED
    BY <2>1, <2>2, <2>3, <2>4, <2>5, <2>6
<1> HIDE DEF s
<1>4. Sound(draft')
  <2>1. CASE draft' = s
    BY <1>2, <2>1
  <2>2. ASSUME NEW p \in Phases \ {"Completed"}, draft' = [s EXCEPT !.phase = p]
        PROVE  Sound(draft')
    <3>1. /\ draft' \in Statuses /\ draft'.phase = p /\ draft'.direction = s.direction
          /\ draft'.weight = s.weight /\ draft'.step = s.step /\ draft'.served = s.served
      BY <1>2, <2>2 DEF Sound, Statuses
    <3> QED
      BY <1>2, <3>1 DEF Sound, Accounts, Timing, Returning
  <2> QED
    BY <1>3, <2>1, <2>2
<1> QED
  BY <1>1, <1>4, SavePreserves

\* A soak that is over, and no step at all: the last increment is old enough.
LEMMA Settled ==
    ASSUME NEW s, Sound(s), TypeOK, s.step.outcome # "Draining", ~Soaks(s)
    PROVE  Since(lag, Propagation)
<1>1. CASE s.step.outcome = "Applied"
  BY <1>1, PlanAssumption DEF Soaks, Elapsed, Sound, Timing, Since, TypeOK, Statuses
<1>2. CASE s.step.outcome # "Applied"
  BY <1>2 DEF Sound, Timing, Statuses
<1> QED
  BY <1>1, <1>2

\* The decisions that close the step in flight.
LEMMA ClosingDecisions ==
    ASSUME Inv, Abort \/ Complete
    PROVE  Inv'
<1> DEFINE s == Turned(draft)
<1>1. /\ pass = "probe" /\ pass' = "save"
      /\ UNCHANGED <<status, published, lag, faults, quiet, env>>
  BY DEF Abort, Complete, Probed, Decide
<1>2. Sound(s) /\ TypeOK
  BY <1>1, TurnedSound DEF Inv, IInv
<1>3. CASE Abort
  <2>1. /\ draft' = [s EXCEPT !.phase = "Aborted", !.step.outcome = "Aborted"]
        /\ s.step.outcome = "Applied" /\ ~Soaks(s)
    BY <1>3 DEF Abort, Decide, Spoiled
  <2> HIDE DEF s
  <2>2. /\ draft' \in Statuses /\ draft'.phase = "Aborted" /\ draft'.direction = s.direction
        /\ draft'.weight = s.weight /\ draft'.step.outcome = "Aborted"
        /\ draft'.served = s.served
    BY <1>2, <2>1 DEF Sound, Statuses, Phases
  <2>3. Since(lag, Propagation)
    BY <1>2, <2>1, Settled
  <2>4. Sound(draft')
    BY <1>2, <2>1, <2>2, <2>3 DEF Sound, Accounts, Timing, Returning
  <2> QED
    BY <1>1, <2>4, SavePreserves
<1>4. CASE Complete
  <2> DEFINE o == IF s.step.outcome = "Applied" THEN "Succeeded" ELSE s.step.outcome
             v == IF s.direction = "Failover" THEN lag ELSE s.served
  <2>1. /\ draft' = [s EXCEPT !.phase = "Completed", !.served = v, !.step.outcome = o]
        /\ s.step.outcome # "Draining" /\ ~Soaks(s)
        /\ s.weight = TargetWeight(s.direction)
    BY <1>4 DEF Complete, Decide, Free, Drains
  <2>2. v \in 0..ServedCap /\ o \in {"None", "Succeeded", "Aborted"}
    BY <1>2, <2>1, BoundsTyped, PlanAssumption DEF Sound, Statuses, TypeOK
  <2> HIDE DEF s, o
  <2>3. v = IF s.direction = "Failover" THEN lag ELSE s.served
    OBVIOUS
  <2> HIDE DEF v
  <2>4. /\ draft' \in Statuses /\ draft'.phase = "Completed" /\ draft'.direction = s.direction
        /\ draft'.weight = s.weight /\ draft'.step.outcome = o /\ draft'.served = v
    BY <1>2, <2>1, <2>2 DEF Sound, Statuses, Phases
  <2>5. Since(lag, Propagation)
    BY <1>2, <2>1, Settled
  <2>6. Accounts(draft', published)
    BY <1>2, <2>1, <2>2, <2>4 DEF Sound, Accounts
  <2>7. Timing(draft')
    BY <1>2, <2>2, <2>3, <2>4, <2>5 DEF Sound, Timing, Returning
  <2>8. Sound(draft')
    BY <1>2, <2>4, <2>6, <2>7 DEF Sound
  <2> QED
    BY <1>1, <2>8, SavePreserves
<1> QED
  BY <1>3, <1>4

\* A fresh increment goes towards the end point and starts on a settled record.
LEMMA StartDrainPreserves ==
    ASSUME Inv, StartDrain
    PROVE  Inv'
<1> DEFINE s == Turned(draft)
           d == s.direction
           to == WeightAfterStep(s.weight, TargetWeight(d), s.index[d])
           step == [outcome |-> "Draining", to |-> to, age |-> lag]
           index == [s.index EXCEPT ![d] = Older(s.index[d], IndexCap)]
<1>1. /\ pass = "probe" /\ pass' = "save"
      /\ UNCHANGED <<status, published, lag, faults, quiet, env>>
  BY DEF StartDrain, Probed, Decide
<1>2. Sound(s) /\ TypeOK
  BY <1>1, TurnedSound DEF Inv, IInv
<1>3. /\ draft' = [s EXCEPT !.phase = "Draining", !.step = step, !.index = index]
      /\ s.step.outcome # "Draining" /\ ~Soaks(s) /\ ~Cooling(s)
  BY DEF StartDrain, Decide, MayMove, Free, Drains
<1> HIDE DEF s
<1>4. /\ d \in Directions /\ s.weight \in 0..100 /\ s.index[d] \in 0..IndexCap
      /\ lag \in 0..MaxLatency /\ quiet \in 0..QuietCap
  BY <1>2 DEF Sound, Statuses, TypeOK
<1>5. to \in 0..100 /\ Between(to, s.weight, TargetWeight(d))
  <2>1. s.index[d] \in Nat
    BY <1>4, BoundsTyped
  <2>2. TargetWeight(d) \in 0..100
    BY TargetTyped
  <2> QED
    BY <1>4, <2>1, <2>2, WeightOnTheWay, Zenon
<1>6. index \in [Directions -> 0..IndexCap]
  BY <1>2, <1>4, OlderTyped, BoundsTyped DEF Sound, Statuses
<1>7. step.outcome = "Draining" /\ step.to = to /\ step.age = lag
  OBVIOUS
<1>8. step \in [outcome : {"None", "Draining", "Applied", "Succeeded", "Aborted"},
                to : 0..100, age : 0..StepCap]
  BY <1>4, <1>5, BoundsTyped, PlanAssumption
<1> HIDE DEF step, index, to
<1>9. /\ draft' \in Statuses /\ draft'.phase = "Draining" /\ draft'.direction = s.direction
      /\ draft'.weight = s.weight /\ draft'.step = step /\ draft'.served = s.served
  BY <1>2, <1>3, <1>6, <1>8 DEF Sound, Statuses, Phases
<1>10. Since(lag, Propagation)
  BY <1>2, <1>3, Settled
<1>11. Returning(s) => Since(lag, Propagation + MinStable)
  BY <1>2, <1>3, <1>4, PlanAssumption, BoundsTyped
     DEF Cooling, Returning, Since, Sound, Timing, Statuses
<1>12. Accounts(draft', published)
  BY <1>2, <1>3, <1>5, <1>7, <1>9 DEF Accounts, Sound
<1>13. Timing(draft')
  BY <1>2, <1>7, <1>9, <1>10, <1>11 DEF Sound, Timing, Returning
<1> QED
  BY <1>1, <1>2, <1>9, <1>12, <1>13, SavePreserves DEF Sound

\* The end of a drain: the record to be mirrored is that of the step in flight.
LEMMA PublishPreserves ==
    ASSUME Inv, Publish
    PROVE  Inv'
<1>1. /\ pass = "probe" /\ pass' = "mirror"
      /\ UNCHANGED <<status, published, lag, faults, quiet, env>>
  BY DEF Publish, Probed, Decide
<1>2. Turned(draft) = status /\ status \in Statuses /\ TypeOK
  BY <1>1, TurnedSound DEF Publish, Drains, Inv, IInv, TypeOK
<1>3. /\ draft' = [status EXCEPT !.phase = "Shifting", !.weight = status.step.to,
                                 !.step.outcome = "Applied", !.step.age = lag]
      /\ status.step.outcome = "Draining" /\ status.step.age - lag >= Drain
  BY <1>2 DEF Publish, Decide, Drains, Elapsed
<1>4. lag \in 0..StepCap /\ lag \in 0..MaxLatency
  BY <1>2, BoundsTyped, PlanAssumption DEF TypeOK
<1>5. /\ draft' \in Statuses /\ draft'.phase = "Shifting"
      /\ draft'.direction = status.direction /\ draft'.weight = status.step.to
      /\ draft'.step.outcome = "Applied" /\ draft'.step.age = lag
      /\ draft'.served = status.served
  BY <1>2, <1>3, <1>4 DEF Statuses, Phases
<1>6. TypeOK'
  BY <1>1, <1>2, <1>5 DEF TypeOK, env
<1>7. Accounts(status, published)'
  BY <1>1 DEF Inv, IInv, Accounts
<1>8. PassInv'
  BY <1>1, <1>3, <1>5 DEF PassInv
<1>9. TimeInv'
  <2>1. status.step.age >= Drain
    BY <1>2, <1>3, <1>4, PlanAssumption DEF Statuses
  <2>2. draft'.step.age <= lag
    BY <1>4, <1>5, PlanAssumption
  <2> QED
    BY <1>1, <2>1, <2>2 DEF Inv, TimeInv, Timing, Since, Returning
<1> QED
  BY <1>6, <1>7, <1>8, <1>9 DEF Inv, IInv

\* The increment in flight is the only thing a mirrored record can be ahead by.
LEMMA MirrorRecordPreserves ==
    ASSUME Inv, MirrorRecord
    PROVE  Inv'
<1>1. /\ pass = "mirror" /\ pass' = "save" /\ published' = draft.weight
      /\ quiet' = IF published' = published THEN quiet ELSE 0
      /\ UNCHANGED <<status, draft, lag, faults, env>>
  BY DEF MirrorRecord
<1>2. /\ TypeOK /\ status \in Statuses /\ draft \in Statuses
      /\ lag \in 0..MaxLatency /\ quiet \in 0..QuietCap
  BY DEF Inv, IInv, TypeOK
<1>3. /\ status.step.outcome = "Draining" /\ draft.weight = status.step.to
      /\ draft.direction = status.direction /\ draft.served = status.served
      /\ draft.step.outcome = "Applied" /\ draft.phase = "Shifting"
      /\ draft.step.age <= lag /\ status.step.age >= Drain
  BY <1>1 DEF Inv, IInv, PassInv, TimeInv
<1>4. /\ Between(status.step.to, status.weight, TargetWeight(status.direction))
      /\ published \in {status.weight, status.step.to}
      /\ status.phase # "Completed"
  BY <1>3 DEF Inv, IInv, Accounts
<1>5. quiet' \in 0..QuietCap
  BY <1>1, <1>2, BoundsTyped
<1>6. TypeOK'
  BY <1>1, <1>2, <1>5 DEF TypeOK, env, Statuses
<1>7. Accounts(status, published)'
  BY <1>1, <1>3, <1>4 DEF Accounts
<1>8. PassInv'
  BY <1>1, <1>3 DEF PassInv, Accounts
<1>9. TimeInv'
  <2>1. Timing(status)
    BY DEF Inv, TimeInv
  <2>2. published' = status.weight => UNCHANGED <<published, quiet>>
    BY <1>1, <1>3, <1>4
  <2>3. Returning(status)' => Returning(status) /\ UNCHANGED <<published, quiet>>
    BY <1>1, <1>3, <1>4, <2>2, PlanAssumption DEF Returning
  <2>4. Timing(status)'
    BY <1>1, <1>3, <1>4, <2>1, <2>2, <2>3 DEF Timing, Since
  <2>5. Returning(draft)' => Returning(status) /\ UNCHANGED <<published, quiet>>
    BY <1>1, <1>2, <1>3, <1>4, PlanAssumption
       DEF Returning, Between, TargetWeight, Statuses
  <2>6. Timing(draft)'
    BY <1>1, <1>2, <1>3, <1>5, <2>1, <2>5, BoundsTyped, PlanAssumption
       DEF Timing, Since, Statuses
  <2> QED
    BY <1>1, <2>4, <2>6 DEF TimeInv
<1> QED
  BY <1>6, <1>7, <1>8, <1>9 DEF Inv, IInv

-----------------------------------------------------------------------------
(* The rest of the pass, the environment and time.                         *)

\* A pass starts from the saved status, with no lag.
LEMMA StartPassPreserves ==
    ASSUME Inv, StartPass
    PROVE  Inv'
<1>1. /\ pass = "none" /\ pass' = "probe" /\ draft' = status /\ lag' = 0 /\ lag = 0
      /\ UNCHANGED <<status, published, faults, quiet, env>>
  BY DEF StartPass, Inv, TimeInv
<1>2. TypeOK'
  BY <1>1, PlanAssumption DEF Inv, IInv, TypeOK, env
<1>3. Accounts(status, published)' /\ PassInv'
  BY <1>1 DEF Inv, IInv, Accounts, PassInv
<1>4. TimeInv'
  BY <1>1 DEF Inv, TimeInv, Timing, Since, Returning
<1> QED
  BY <1>2, <1>3, <1>4 DEF Inv, IInv

\* The lag of the pass is over with the pass: no timestamp looks older than before.
LEMMA SaveStatusPreserves ==
    ASSUME Inv, SaveStatus
    PROVE  Inv'
<1>1. /\ pass = "save" /\ pass' = "none" /\ status' = draft /\ lag' = 0
      /\ UNCHANGED <<published, draft, faults, quiet, env>>
  BY DEF SaveStatus
<1>2. TypeOK /\ Accounts(draft, published) /\ Timing(draft)
  BY <1>1 DEF Inv, IInv, PassInv, TimeInv
<1>3. TypeOK'
  BY <1>1, <1>2, PlanAssumption DEF TypeOK, env
<1>4. Accounts(status, published)' /\ PassInv'
  BY <1>1, <1>2 DEF Accounts, PassInv
<1>5. Since(lag, Propagation) => Since(lag, Propagation)'
  BY <1>1, <1>2, PlanAssumption, BoundsTyped DEF Since, TypeOK
<1>6. TimeInv'
  BY <1>1, <1>2, <1>5 DEF TimeInv, Timing, Since, Returning
<1> QED
  BY <1>3, <1>4, <1>6 DEF Inv, IInv

\* A pass that ends early leaves at most its mirrored record behind.
LEMMA AbandonPreserves ==
    ASSUME Inv, Abandon
    PROVE  Inv'
<1>1. /\ pass' = "none" /\ lag' = 0 /\ draft' = status
      /\ faults < MaxFaults /\ faults' = faults + 1
      /\ UNCHANGED <<status, published, quiet, env>>
  BY DEF Abandon
<1>2. TypeOK /\ Accounts(status, published) /\ Timing(status)
  BY DEF Inv, IInv, TimeInv
<1>3. TypeOK'
  BY <1>1, <1>2, PlanAssumption DEF TypeOK, env
<1>4. Accounts(status, published)' /\ PassInv'
  BY <1>1, <1>2 DEF Accounts, PassInv
<1>5. Since(lag, Propagation) => Since(lag, Propagation)'
  BY <1>1, <1>2, PlanAssumption, BoundsTyped DEF Since, TypeOK
<1>6. TimeInv'
  BY <1>1, <1>2, <1>5 DEF TimeInv, Timing, Since, Returning
<1> QED
  BY <1>3, <1>4, <1>6 DEF Inv, IInv

\* The environment touches nothing the pass has written.
LEMMA EnvironmentPreserves ==
    ASSUME Inv, HealthChanges \/ ControlChanges \/ SpecChanges
    PROVE  Inv'
<1>1. UNCHANGED <<status, published, pass, draft, lag, faults, quiet>>
  BY DEF HealthChanges, ControlChanges, SpecChanges
<1>2. TypeOK'
  <2>1. CASE HealthChanges
    BY <2>1 DEF HealthChanges, Inv, IInv, TypeOK
  <2>2. CASE ControlChanges
    BY <2>2 DEF ControlChanges, Inv, IInv, TypeOK
  <2>3. CASE SpecChanges
    BY <2>3, PlanAssumption DEF SpecChanges, Inv, IInv, TypeOK
  <2> QED
    BY <2>1, <2>2, <2>3
<1>3. Accounts(status, published)' /\ PassInv'
  BY <1>1 DEF Inv, IInv, Accounts, PassInv
<1>4. TimeInv'
  BY <1>1 DEF Inv, TimeInv, Timing, Since, Returning
<1> QED
  BY <1>2, <1>3, <1>4 DEF Inv, IInv

\* Every age grows with the time since the last increment.
LEMMA TickPreserves ==
    ASSUME Inv, Tick
    PROVE  Inv'
<1>1. /\ status' = Aged(status) /\ draft' = Aged(draft)
      /\ lag' = IF pass = "none" THEN 0 ELSE lag + 1
      /\ pass # "none" => lag < MaxLatency
      /\ quiet' = Older(quiet, QuietCap)
      /\ UNCHANGED <<published, pass, faults, env>>
  BY DEF Tick
<1>2. /\ TypeOK /\ status \in Statuses /\ draft \in Statuses
      /\ lag \in 0..MaxLatency /\ quiet \in 0..QuietCap
  BY DEF Inv, IInv, TypeOK
<1>3. lag' \in 0..MaxLatency /\ quiet' \in 0..QuietCap /\ lag' <= lag + 1
  BY <1>1, <1>2, OlderTyped, BoundsTyped, PlanAssumption
<1>4. /\ status' \in Statuses
      /\ status'.phase = status.phase /\ status'.direction = status.direction
      /\ status'.weight = status.weight /\ status'.step.to = status.step.to
      /\ status'.step.outcome = status.step.outcome
      /\ status'.step.age = Older(status.step.age, StepCap)
      /\ status'.served = Older(status.served, ServedCap)
  BY <1>1, <1>2, AgedTyped
<1>5. /\ draft' \in Statuses
      /\ draft'.phase = draft.phase /\ draft'.direction = draft.direction
      /\ draft'.weight = draft.weight /\ draft'.step.to = draft.step.to
      /\ draft'.step.outcome = draft.step.outcome
      /\ draft'.step.age = Older(draft.step.age, StepCap)
      /\ draft'.served = Older(draft.served, ServedCap)
  BY <1>1, <1>2, AgedTyped
<1>6. TypeOK'
  BY <1>1, <1>2, <1>3, <1>4, <1>5 DEF TypeOK, env
<1>7. Accounts(status, published)'
  BY <1>1, <1>4 DEF Inv, IInv, Accounts
<1>8. PassInv'
  BY <1>1, <1>4, <1>5 DEF Inv, IInv, PassInv, Accounts
<1>9. \A a, b \in Nat, n \in Nat : b <= a + 1 /\ Since(a, n) => Since(b, n)'
  BY <1>1, <1>2, <1>3, PlanAssumption, BoundsTyped DEF Since, Older
<1>10. \A a, c \in Nat : Older(a, c) \in Nat /\ Older(a, c) <= a + 1 /\ Older(a, c) >= a
  BY DEF Older
<1>11. /\ Propagation \in Nat /\ Propagation + MinStable \in Nat /\ lag \in Nat /\ lag' \in Nat
       /\ MaxLatency \in Nat /\ StepCap \in Nat /\ ServedCap \in Nat /\ QuietCap \in Nat
  BY <1>2, <1>3, PlanAssumption, BoundsTyped
<1>12. Timing(status)'
  <2>1. status.step.age \in Nat /\ status.served \in Nat
    BY <1>2, <1>11 DEF Statuses
  <2>2. Since(lag, Propagation) => Since(lag, Propagation)'
    BY <1>3, <1>9, <1>11
  <2>3. \A n \in Nat : Since(status.step.age, n) => Since(status.step.age, n)'
    BY <1>4, <1>9, <1>10, <1>11, <2>1
  <2>4. \A n \in Nat : Since(status.served, n) => Since(status.served, n)'
    BY <1>4, <1>9, <1>10, <1>11, <2>1
  <2>5. quiet = QuietCap \/ status.step.age <= quiet + MaxLatency
          => quiet' = QuietCap \/ status'.step.age <= quiet' + MaxLatency
    BY <1>1, <1>2, <1>4, <1>10, <1>11, <2>1 DEF Older
  <2>6. Timing(status)
    BY DEF Inv, TimeInv
  <2> QED
    BY <1>1, <1>4, <1>11, <2>2, <2>3, <2>4, <2>5, <2>6 DEF Timing, Returning
<1>13. Timing(draft) => Timing(draft)'
  <2>1. draft.step.age \in Nat /\ draft.served \in Nat
    BY <1>2, <1>11 DEF Statuses
  <2>2. Since(lag, Propagation) => Since(lag, Propagation)'
    BY <1>3, <1>9, <1>11
  <2>3. \A n \in Nat : Since(draft.step.age, n) => Since(draft.step.age, n)'
    BY <1>5, <1>9, <1>10, <1>11, <2>1
  <2>4. \A n \in Nat : Since(draft.served, n) => Since(draft.served, n)'
    BY <1>5, <1>9, <1>10, <1>11, <2>1
  <2>5. quiet = QuietCap \/ draft.step.age <= quiet + MaxLatency
          => quiet' = QuietCap \/ draft'.step.age <= quiet' + MaxLatency
    BY <1>1, <1>2, <1>5, <1>10, <1>11, <2>1 DEF Older
  <2> QED
    BY <1>1, <1>5, <1>11, <2>2, <2>3, <2>4, <2>5 DEF Timing, Returning
<1>14. TimeInv'
  <2>1. pass = "mirror" => draft'.step.age <= lag' /\ status'.step.age >= Drain
    <3>1. SUFFICES ASSUME pass = "mirror"
                   PROVE  draft'.step.age <= lag' /\ status'.step.age >= Drain
      OBVIOUS
    <3>2. draft.step.age <= lag /\ status.step.age >= Drain /\ lag' = lag + 1
      <4>1. draft.step.age <= lag /\ status.step.age >= Drain
        BY <3>1 DEF Inv, TimeInv
      <4>2. lag' = lag + 1
        BY <1>1, <3>1
      <4> QED
        BY <4>1, <4>2
    <3>3. draft.step.age \in Nat /\ status.step.age \in Nat /\ Drain \in Nat
      BY <1>2, <1>11, PlanAssumption DEF Statuses
    <3>4. /\ Older(draft.step.age, StepCap) \in Nat
          /\ Older(draft.step.age, StepCap) <= draft.step.age + 1
          /\ Older(status.step.age, StepCap) \in Nat
          /\ Older(status.step.age, StepCap) >= status.step.age
      BY <1>10, <1>11, <3>3
    <3>5. /\ draft'.step.age = Older(draft.step.age, StepCap)
          /\ status'.step.age = Older(status.step.age, StepCap)
      BY <1>4, <1>5
    <3> QED
      BY <1>11, <3>2, <3>3, <3>4, <3>5
  <2> QED
    BY <1>1, <1>12, <1>13, <2>1 DEF Inv, TimeInv
<1> QED
  BY <1>6, <1>7, <1>8, <1>14 DEF Inv, IInv

-----------------------------------------------------------------------------
(* The invariant and what follows from it.                                 *)

\* The invariant holds of a plan that has not been reconciled yet.
LEMMA InitInv == Init => Inv
<1> SUFFICES ASSUME Init PROVE Inv
  OBVIOUS
<1>1. TypeOK
  BY PlanAssumption, BoundsTyped
     DEF Init, TypeOK, Statuses, Phases, Directions, NoStep
<1>2. Accounts(status, published) /\ PassInv
  BY DEF Init, Accounts, PassInv, NoStep
<1>3. TimeInv
  BY DEF Init, TimeInv, Timing, Since, Returning, NoStep
<1> QED
  BY <1>1, <1>2, <1>3 DEF Inv, IInv

\* Every step keeps the invariant.
LEMMA NextInv == Inv /\ [Next]_vars => Inv'
<1> SUFFICES ASSUME Inv, [Next]_vars PROVE Inv'
  OBVIOUS
<1>1. CASE StartPass
  BY <1>1, StartPassPreserves
<1>2. CASE Action
  BY <1>2, PhaseDecisions, ClosingDecisions, StartDrainPreserves, PublishPreserves DEF Action
<1>3. CASE MirrorRecord
  BY <1>3, MirrorRecordPreserves
<1>4. CASE SaveStatus
  BY <1>4, SaveStatusPreserves
<1>5. CASE Abandon
  BY <1>5, AbandonPreserves
<1>6. CASE HealthChanges \/ ControlChanges \/ SpecChanges
  BY <1>6, EnvironmentPreserves
<1>7. CASE Tick
  BY <1>7, TickPreserves
<1>8. CASE UNCHANGED vars
  <2>1. UNCHANGED <<status, published, pass, draft, lag, faults, quiet, env>>
    BY <1>8 DEF vars
  <2>2. TypeOK'
    BY <2>1 DEF Inv, IInv, TypeOK, env
  <2>3. Accounts(status, published)' /\ PassInv'
    BY <2>1 DEF Inv, IInv, Accounts, PassInv
  <2>4. TimeInv'
    BY <2>1 DEF Inv, TimeInv, Timing, Since, Returning
  <2> QED
    BY <2>2, <2>3, <2>4 DEF Inv, IInv
<1> QED
  BY <1>1, <1>2, <1>3, <1>4, <1>5, <1>6, <1>7, <1>8 DEF Next

\* The invariant holds throughout.
LEMMA Invariance == Spec => []Inv
BY InitInv, NextInv, PTL DEF Spec

\* Every variable of the plan keeps its type: shares stay percentages and ages within
\* their caps, for every plan validate_plan accepts.
THEOREM TypeCorrect == Spec => []TypeOK
<1>1. Inv => TypeOK
  BY DEF Inv, IInv
<1> QED
  BY <1>1, Invariance, PTL

\* Only the mirroring of a record changes the published share.
LEMMA OnlyMirrorPublishes ==
    ASSUME [Next]_vars, published' # published
    PROVE  MirrorRecord
BY DEF Next, Action, vars, StartPass, FailPlan, StayIdle, Soak, Abort, KeepDraining, Publish,
       Complete, Hold, WaitCooldown, StartDrain, Decide, SaveStatus, Abandon, HealthChanges,
       ControlChanges, SpecChanges, Tick

\* A record that changes the share is that of the step in flight, whose drain is over.
LEMMA MirroredStep ==
    ASSUME Inv, MirrorRecord, published' # published
    PROVE  /\ status.step.outcome = "Draining" /\ status.step.age >= Drain
           /\ published = status.weight /\ published' = status.step.to
           /\ Between(published', published, TargetWeight(status.direction))
           /\ status' = status
BY DEF Inv, IInv, TimeInv, PassInv, Accounts, MirrorRecord

\* The direction of the saved status changes only at the published end point.
LEMMA TurnsAtTheEnd ==
    ASSUME Inv, [Next]_vars, status'.direction # status.direction
    PROVE  /\ published = TargetWeight(status.direction) /\ published' = published
           /\ status'.direction \in Directions
<1>1. CASE SaveStatus
  BY <1>1 DEF SaveStatus, Inv, IInv, PassInv, TypeOK, Statuses
<1>2. CASE Tick
  BY <1>2, AgedTyped DEF Tick, Inv, IInv, TypeOK
<1>3. CASE ~SaveStatus /\ ~Tick
  <2>1. status' = status
    BY <1>3 DEF Next, Action, vars, StartPass, FailPlan, StayIdle, Soak, Abort, KeepDraining,
       Publish, Complete, Hold, WaitCooldown, StartDrain, Decide, MirrorRecord, Abandon,
       HealthChanges, ControlChanges, SpecChanges
  <2> QED
    BY <2>1
<1> QED
  BY <1>1, <1>2, <1>3

\* The controller implements GradualShift: whatever pass fails between its two writes, the
\* published share moves only towards the end point of the saved direction, never past it,
\* and the direction changes only at the end point.
THEOREM ShiftIsGradual == Spec => MovesGradually
<1>1. Init => Promise!Init
  BY DEF Init, Promise!Init
<1>2. Inv /\ [Next]_vars => [Promise!Next]_<<published, status.direction>>
  <2> SUFFICES ASSUME Inv, [Next]_vars, <<published, status.direction>>' # <<published, status.direction>>
               PROVE  Promise!Next
    OBVIOUS
  <2>1. CASE published' # published
    <3>1. /\ Between(published', published, TargetWeight(status.direction))
          /\ status' = status /\ published' \in 0..100 /\ published \in 0..100
      BY <2>1, OnlyMirrorPublishes, MirroredStep, NextInv DEF Inv, IInv, TypeOK
    <3>2. TargetWeight(status.direction) \in 0..100
      BY TargetTyped
    <3>3. Promise!EndPoint(status.direction) = TargetWeight(status.direction)
      BY DEF Promise!EndPoint, TargetWeight
    <3>4. Promise!Towards(published')
      BY <2>1, <3>1, <3>2, <3>3 DEF Promise!Towards, Between
    <3> QED
      BY <3>1, <3>4 DEF Promise!Next, Promise!Move
  <2>2. CASE published' = published
    <3>1. status'.direction # status.direction
      BY <2>2
    <3>2. /\ published = TargetWeight(status.direction) /\ published' = published
          /\ status'.direction \in Directions
      BY <3>1, TurnsAtTheEnd
    <3> QED
      BY <3>1, <3>2 DEF Promise!Next, Promise!Turn, Promise!EndPoint, TargetWeight,
         Promise!Directions, Directions
  <2> QED
    BY <2>1, <2>2
<1> QED
  BY <1>1, <1>2, Invariance, PTL DEF Spec, MovesGradually, Promise!Spec

\* Between two increments the resolvers get the time of propagation_deadline and the
\* losing region that of drain_deadline, less the latency of one pass.
THEOREM IncrementsSpaced == Spec => IncrementsAreSpaced
<1>1. ASSUME Inv, [Next]_vars, published' # published
      PROVE  quiet >= Propagation + Drain - MaxLatency
  <2>1. MirrorRecord
    BY <1>1, OnlyMirrorPublishes
  <2>2. Since(status.step.age, Propagation) /\ status.step.age >= Drain
    BY <1>1, <2>1, MirroredStep DEF Inv, TimeInv, Timing
  <2>3. /\ status.step.age \in Nat /\ quiet \in Nat /\ Propagation \in Nat
        /\ Drain \in Nat /\ MaxLatency \in Nat /\ QuietCap \in Nat
        /\ QuietCap >= Propagation + Drain
    BY <1>1, PlanAssumption, BoundsTyped DEF Inv, IInv, TypeOK, Statuses
  <2> QED
    BY <2>2, <2>3 DEF Since
<1>2. Inv /\ [Next]_vars
        => [published' # published => quiet >= Propagation + Drain - MaxLatency]_vars
  BY <1>1
<1> QED
  BY <1>2, Invariance, PTL DEF Spec, IncrementsAreSpaced

\* No traffic goes back before the secondary has carried all of it for the cooldown of
\* failback_ready_at, on top of the propagation of the last increment and the new drain.
THEOREM FailbackCooled == Spec => FailbackAfterCooldown
<1>1. ASSUME Inv, [Next]_vars, published = 0, published' > 0
      PROVE  quiet >= Propagation + MinStable + Drain - MaxLatency
  <2>1. MirrorRecord /\ published' # published
    BY <1>1, OnlyMirrorPublishes
  <2>2. /\ status.step.outcome = "Draining" /\ status.step.age >= Drain
        /\ published = status.weight
        /\ Between(published', published, TargetWeight(status.direction))
    BY <1>1, <2>1, MirroredStep
  <2>3. status.direction = "Failback" /\ InitialWeight > 0
    <3>1. published' \in 0..100 /\ status.direction \in Directions
      BY <1>1, NextInv DEF Inv, IInv, TypeOK, Statuses
    <3>2. TargetWeight(status.direction) \in 0..100
      BY TargetTyped
    <3>3. TargetWeight(status.direction) > 0
      BY <1>1, <2>2, <3>1, <3>2 DEF Between
    <3> QED
      BY <3>1, <3>3, PlanAssumption DEF TargetWeight, Directions
  <2>4. Since(status.step.age, Propagation + MinStable)
    BY <1>1, <2>2, <2>3 DEF Inv, TimeInv, Timing, Returning
  <2>5. /\ status.step.age \in Nat /\ quiet \in Nat /\ Propagation \in Nat
        /\ MinStable \in Nat /\ Drain \in Nat /\ MaxLatency \in Nat
        /\ QuietCap = Propagation + Drain + MinStable
    BY <1>1, PlanAssumption, BoundsTyped DEF Inv, IInv, TypeOK, Statuses, QuietCap
  <2> QED
    BY <2>2, <2>4, <2>5 DEF Since
<1>2. Inv /\ [Next]_vars
        => [published = 0 /\ published' > 0
              => quiet >= Propagation + MinStable + Drain - MaxLatency]_vars
  BY <1>1
<1> QED
  BY <1>2, Invariance, PTL DEF Spec, FailbackAfterCooldown

-----------------------------------------------------------------------------
(* Probes that are newer than the pass.                                    *)

\* With late probes no step ever drains, so none is ever published.
Still ==
    late /\ AsksSamples
      => /\ published = InitialWeight
         /\ status.step.outcome # "Draining" /\ draft.step.outcome # "Draining"

\* A plan that turns round starts without a step in flight.
LEMMA TurnedDrainsNothing ==
    ASSUME NEW s, s \in Statuses, s.step.outcome # "Draining"
    PROVE  Turned(s).step.outcome # "Draining"
BY DEF Turned, NoStep, Statuses

\* The gate stays closed.
LEMMA GateStaysClosed ==
    ASSUME late, AsksSamples, NEW d
    PROVE  ~GateOpen(d)
BY DEF GateOpen, Collected

\* Every step keeps the plan still.
LEMMA StaysStill == Inv /\ Still /\ [Next]_vars => Still'
<1> SUFFICES ASSUME Inv, Still, [Next]_vars, late', AsksSamples
             PROVE  /\ published' = InitialWeight
                    /\ status'.step.outcome # "Draining" /\ draft'.step.outcome # "Draining"
  BY DEF Still
<1>1. late' = late
  BY DEF Next, Action, vars, env, StartPass, FailPlan, StayIdle, Soak, Abort, KeepDraining,
     Publish, Complete, Hold, WaitCooldown, StartDrain, Decide, MirrorRecord, SaveStatus,
     Abandon, HealthChanges, ControlChanges, SpecChanges, Tick
<1>2. /\ published = InitialWeight /\ status.step.outcome # "Draining"
      /\ draft.step.outcome # "Draining" /\ status \in Statuses /\ draft \in Statuses
  BY <1>1 DEF Still, Inv, IInv, TypeOK
<1>3. Turned(draft).step.outcome # "Draining" /\ Turned(draft) \in Statuses
  BY <1>2, TurnedDrainsNothing, TurnedTyped
<1>4. ~MirrorRecord
  BY <1>2 DEF MirrorRecord, Inv, IInv, PassInv
<1>5. published' = published
  BY <1>4, OnlyMirrorPublishes
<1>6. CASE Tick
  BY <1>2, <1>5, <1>6, AgedTyped DEF Tick
<1>7. CASE StartDrain
  BY <1>1, <1>7, GateStaysClosed DEF StartDrain, MayMove
<1>8. CASE Publish
  BY <1>3, <1>8 DEF Publish, Drains
<1>9. CASE FailPlan \/ StayIdle \/ Soak \/ Abort \/ KeepDraining \/ Complete \/ Hold \/ WaitCooldown
  <2> DEFINE s == Turned(draft)
  <2> HIDE DEF s
  <2>1. s \in Statuses /\ s.step.outcome # "Draining"
    BY <1>3 DEF s
  <2>2. status' = status
    BY <1>9 DEF FailPlan, StayIdle, Soak, Abort, KeepDraining, Complete, Hold, WaitCooldown,
       Decide
  <2>3. CASE Abort
    <3>1. draft' = [s EXCEPT !.phase = "Aborted", !.step.outcome = "Aborted"]
      BY <2>3 DEF Abort, Decide, s
    <3> QED
      BY <1>2, <1>5, <2>1, <2>2, <3>1 DEF Statuses
  <2>4. CASE Complete
    <3>1. draft'.step.outcome
            = IF s.step.outcome = "Applied" THEN "Succeeded" ELSE s.step.outcome
      BY <2>1, <2>4 DEF Complete, Decide, s, Statuses
    <3> QED
      BY <1>2, <1>5, <2>1, <2>2, <3>1
  <2>5. CASE FailPlan \/ StayIdle \/ Soak \/ KeepDraining \/ Hold \/ WaitCooldown
    <3>1. draft'.step = s.step
      <4>1. CASE StayIdle
        BY <4>1 DEF StayIdle, Decide, s
      <4>2. CASE FailPlan \/ Soak \/ KeepDraining \/ Hold \/ WaitCooldown
        <5>1. \E ph : draft' = [s EXCEPT !.phase = ph]
          BY <4>2 DEF FailPlan, Soak, KeepDraining, Hold, WaitCooldown, Decide, s
        <5> QED
          BY <2>1, <5>1 DEF Statuses
      <4> QED
        BY <2>5, <4>1, <4>2
    <3> QED
      BY <1>2, <1>5, <2>1, <2>2, <3>1
  <2> QED
    BY <1>9, <2>3, <2>4, <2>5
<1>10. CASE StartPass \/ SaveStatus \/ Abandon \/ HealthChanges \/ ControlChanges \/ SpecChanges
            \/ UNCHANGED vars
  BY <1>2, <1>5, <1>10 DEF StartPass, SaveStatus, Abandon, HealthChanges, ControlChanges,
     SpecChanges, vars
<1> QED
  BY <1>4, <1>6, <1>7, <1>8, <1>9, <1>10 DEF Next, Action

\* reconcile_traffic_shift_plan captures `now` before it probes: a probe that takes its
\* samples then, as HttpHealthProbe does, never lets a gate that asks for samples open,
\* and the published share stays the initial one for every plan.
THEOREM LateProbesStill == Spec => []LateProbesMoveNothing
<1>1. Init => Still
  BY DEF Init, Still, NoStep
<1>2. Spec => []Still
  BY <1>1, StaysStill, Invariance, PTL DEF Spec
<1>3. Still => LateProbesMoveNothing
  BY DEF Still, LateProbesMoveNothing
<1> QED
  BY <1>2, <1>3, PTL
=============================================================================
