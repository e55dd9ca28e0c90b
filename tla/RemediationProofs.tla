------------------------- MODULE RemediationProofs -------------------------
(***************************************************************************)
(* Proofs about Remediation, for any replicas, components, thresholds,     *)
(* ages and number of faults: the type invariant; that a standstill causes *)
(* one restart unless the annotations do not tell of it; and that an       *)
(* outage withholds the restart.  The second rests on RestartInv about the *)
(* annotations: every ledger with a restart is behind the last observed    *)
(* one, or is that one with the level raised or about to be.  The third    *)
(* rests on OutageInv: the rounds that have told of a component bound its  *)
(* failed rounds from below, these decide the level, and a chosen restart  *)
(* is as old as its pass at most.                                          *)
(***************************************************************************)
EXTENDS Remediation, TLAPS

\* What a pass holds is not ahead of the node, and a restart is chosen on a copy whose
\* ledger is the one seen and whose level is not raised.
ViewInv ==
    /\ notes.ledger <= ledger /\ old.ledger <= ledger
    /\ \A o \in Operators :
          /\ pc[o] # "idle" => view[o].ledger <= cur[o] /\ cur[o] <= ledger
          /\ pc[o] \in {"restart", "record"} => cur[o] = view[o].ledger /\ view[o].level = 0

\* A restart for ledger l is about to be recorded.
Pending(l) == \E q \in Operators : pc[q] = "record" /\ cur[q] = l

\* The restart at ledger l is accounted for.
Known(l) ==
    \/ l < notes.ledger
    \/ l = notes.ledger /\ (notes.level = 1 \/ Pending(l))

RestartInv ==
    ~unsure => \A l \in 0..MaxLedger :
                  restarts[l] # 0 => restarts[l] = 1 /\ Known(l)

Inv == TypeOK /\ ViewInv /\ RestartInv

-----------------------------------------------------------------------------
(* The monitor.                                                            *)

\* Of several levels one is the worst.
LEMMA HasWorst ==
    ASSUME NEW L \in SUBSET Levels, "Normal" \in L
    PROVE  \E l \in L : \A m \in L : Severity(m) <= Severity(l)
<1>1. CASE "Frozen" \in L
  BY <1>1 DEF Levels, Severity
<1>2. CASE "Frozen" \notin L /\ "Degraded" \in L
  BY <1>2 DEF Levels, Severity
<1>3. CASE "Frozen" \notin L /\ "Degraded" \notin L /\ "Reduced" \in L
  BY <1>3 DEF Levels, Severity
<1>4. CASE L = {"Normal"}
  BY <1>4 DEF Levels, Severity
<1> QED
  BY <1>1, <1>2, <1>3, <1>4 DEF Levels

\* The worst of several levels is one of them.
LEMMA WorstTyped ==
    ASSUME NEW L \in SUBSET Levels, "Normal" \in L
    PROVE  Worst(L) \in Levels
BY HasWorst DEF Worst

\* A recorded result keeps the counts within their thresholds.
LEMMA RecordedTyped ==
    ASSUME NEW o,
           NEW t \in [state : {"Unknown", "Healthy", "Unhealthy"},
                      fails : 0..FailureThreshold, oks : 0..RecoveryThreshold]
    PROVE  Recorded(t, o) \in [state : {"Unknown", "Healthy", "Unhealthy"},
                               fails : 0..FailureThreshold, oks : 0..RecoveryThreshold]
<1>1. CASE o = "Healthy"
  BY <1>1, DegradationAssumption DEF Recorded, Capped
<1>2. CASE o = "Unhealthy"
  BY <1>2, DegradationAssumption DEF Recorded, Capped
<1>3. CASE o \notin {"Healthy", "Unhealthy"}
  BY <1>3 DEF Recorded
<1> QED
  BY <1>1, <1>2, <1>3

\* What record_round makes of the attributed results, in the order it does.
Roots(outcome) ==
    [c \in Components |-> IF DependsOn(c) = {} THEN Recorded(tracker[c], outcome[c])
                          ELSE tracker[c]]
Results(outcome) ==
    [c \in Components |-> IF DependsOn(c) = {} THEN outcome[c]
                          ELSE Attributed(c, outcome[c], Roots(outcome))]
After(outcome) == [c \in Components |-> Recorded(tracker[c], Results(outcome)[c])]
TargetOf(t) ==
    {"Normal"} \cup {ImpliedLevel(c) : c \in {c \in Components : t[c].state = "Unhealthy"}}

\* RecordRound in these terms.
LEMMA RecordRoundIs ==
    ASSUME NEW outcome, RecordRound(outcome)
    PROVE  /\ tracker' = After(outcome) /\ level' = Worst(TargetOf(After(outcome)))
           /\ downFor' = [c \in Components |->
                            IF Results(outcome)[c] = "Inconclusive" THEN downFor[c]
                            ELSE IF Showing(c) THEN Capped(downFor[c] + 1, DownCap) ELSE 0]
BY DEF RecordRound, After, Results, Roots, TargetOf

\* The levels that trackers imply.
LEMMA TargetTyped ==
    ASSUME NEW t
    PROVE  TargetOf(t) \in SUBSET Levels /\ "Normal" \in TargetOf(t)
BY DEF TargetOf, ImpliedLevel, Levels

\* What goes wrong is counted up to the bound.
LEMMA FaultTyped ==
    ASSUME MonitorTypeOK, Fault \/ UNCHANGED faults
    PROVE  faults' \in 0..MaxFaults
BY DegradationAssumption DEF MonitorTypeOK, Fault

\* A step of a pass leaves the monitor alone.
LEMMA ControlKept ==
    ASSUME MonitorTypeOK, UNCHANGED control, Fault \/ UNCHANGED faults
    PROVE  MonitorTypeOK'
<1>1. faults' \in 0..MaxFaults
  BY FaultTyped
<1> QED
  BY <1>1 DEF MonitorTypeOK, control, components, monitor

\* A round keeps the monitor typed.
LEMMA RoundTyped ==
    ASSUME MonitorTypeOK, Round
    PROVE  MonitorTypeOK'
<1> DEFINE T == [state : {"Unknown", "Healthy", "Unhealthy"},
                 fails : 0..FailureThreshold, oks : 0..RecoveryThreshold]
<1>1. PICK outcome \in [Components -> {"Healthy", "Unhealthy", "Inconclusive"}] :
         RecordRound(outcome) /\ (Fault \/ UNCHANGED faults)
  BY DEF Round
<1>2. /\ tracker' = After(outcome) /\ level' = Worst(TargetOf(After(outcome)))
      /\ downFor' = [c \in Components |->
                       IF Results(outcome)[c] = "Inconclusive" THEN downFor[c]
                       ELSE IF Showing(c) THEN Capped(downFor[c] + 1, DownCap) ELSE 0]
  BY <1>1, RecordRoundIs
<1>3. \A c \in Components : tracker[c] \in T
  BY DEF MonitorTypeOK
<1>4. After(outcome) \in [Components -> T]
  BY <1>3, RecordedTyped DEF After
<1>5. Worst(TargetOf(After(outcome))) \in Levels
  BY TargetTyped, WorstTyped
<1>6. downFor' \in [Components -> 0..DownCap]
  <2>1. \A c \in Components : downFor[c] \in 0..DownCap
    BY DEF MonitorTypeOK
  <2>2. \A c \in Components : Capped(downFor[c] + 1, DownCap) \in 0..DownCap /\ 0 \in 0..DownCap
    BY <2>1, DegradationAssumption DEF Capped
  <2> QED
    BY <1>2, <2>1, <2>2
<1>7. faults' \in 0..MaxFaults
  BY <1>1, FaultTyped
<1>8. seen' = {down} /\ rounded' = TRUE /\ UNCHANGED <<down, lease>>
  BY DEF Round, components
<1> QED
  BY <1>2, <1>4, <1>5, <1>6, <1>7, <1>8 DEF MonitorTypeOK

\* So does a component that goes down or comes up.
LEMMA ChangeTyped ==
    ASSUME MonitorTypeOK, NEW c \in Components, Change(c)
    PROVE  MonitorTypeOK'
<1>1. faults' \in 0..MaxFaults
  BY FaultTyped DEF Change, GoesDown, ComesUp
<1>2. down' \subseteq Components /\ lease' \in 0..LeaseGrace + 1
  <2>1. 0 \in 0..LeaseGrace + 1
    BY DegradationAssumption
  <2>2. CASE GoesDown(c)
    BY <2>1, <2>2 DEF MonitorTypeOK, GoesDown
  <2>3. CASE ComesUp(c)
    BY <2>3 DEF MonitorTypeOK, ComesUp
  <2> QED
    BY <2>2, <2>3 DEF Change
<1>3. downFor' \in [Components -> 0..DownCap]
  BY DegradationAssumption DEF MonitorTypeOK, Change
<1>4. seen' \subseteq SUBSET Components /\ UNCHANGED <<tracker, level, rounded>>
  BY <1>2 DEF MonitorTypeOK, Change
<1> QED
  BY <1>1, <1>2, <1>3, <1>4 DEF MonitorTypeOK

\* An interval keeps it typed.
LEMMA IntervalTyped ==
    ASSUME MonitorTypeOK, Interval
    PROVE  MonitorTypeOK'
<1>1. lease' \in 0..LeaseGrace + 1
  BY DegradationAssumption DEF MonitorTypeOK, Interval, Capped
<1>2. rounded' = FALSE /\ UNCHANGED <<down, seen, tracker, level, downFor, faults>>
  BY DEF Interval
<1> QED
  BY <1>1, <1>2 DEF MonitorTypeOK

\* A process that starts has nothing to tell.
LEMMA NewTrackerTyped ==
    NewTracker \in [Components -> [state : {"Unknown", "Healthy", "Unhealthy"},
                                   fails : 0..FailureThreshold, oks : 0..RecoveryThreshold]]
<1>1. [state |-> "Unknown", fails |-> 0, oks |-> 0]
        \in [state : {"Unknown", "Healthy", "Unhealthy"},
             fails : 0..FailureThreshold, oks : 0..RecoveryThreshold]
  BY DegradationAssumption
<1> QED
  BY <1>1 DEF NewTracker

\* A restarted monitor is typed.
LEMMA RestartTyped ==
    ASSUME MonitorTypeOK, MonitorRestarts, Fault
    PROVE  MonitorTypeOK'
<1>1. faults' \in 0..MaxFaults
  BY FaultTyped
<1>2. downFor' \in [Components -> 0..DownCap]
  BY DegradationAssumption DEF MonitorRestarts
<1>3. /\ seen' = {down} /\ tracker' = NewTracker /\ level' \in Levels /\ rounded' = FALSE
      /\ UNCHANGED <<down, lease>>
  BY DEF MonitorRestarts, Levels, components
<1> QED
  BY <1>1, <1>2, <1>3, NewTrackerTyped DEF MonitorTypeOK

-----------------------------------------------------------------------------
(* A pass.                                                                 *)

\* Nothing is annotated at first.
LEMMA NoNotesTyped == NoNotes \in Notes
BY RemediationAssumption DEF NoNotes, Notes, None

\* The end of a pass concerns its operator only.
LEMMA EndPassTyped ==
    ASSUME TypeOK, NEW o \in Operators, EndPass(o)
    PROVE  /\ pc' \in [Operators -> {"idle", "observed", "restart", "record"}]
           /\ view' \in [Operators -> Notes] /\ cur' \in [Operators -> 0..MaxLedger]
           /\ lag' \in [Operators -> 0..MaxLatency]
           /\ pc'[o] = "idle"
           /\ \A q \in Operators \ {o} :
                 pc'[q] = pc[q] /\ view'[q] = view[q] /\ cur'[q] = cur[q] /\ lag'[q] = lag[q]
<1>1. 0 \in 0..MaxLedger /\ 0 \in 0..MaxLatency
  BY RemediationAssumption
<1> QED
  BY <1>1, NoNotesTyped DEF TypeOK, EndPass

\* The annotations after a pass that saw the ledger move on are typed.
LEMMA ProgressedTyped ==
    ASSUME TypeOK, NEW o \in Operators
    PROVE  /\ Progressed(o) \in Notes
           /\ Progressed(o).ledger = (IF cur[o] > view[o].ledger THEN cur[o] ELSE view[o].ledger)
           /\ Progressed(o).level = (IF cur[o] > view[o].ledger THEN 0 ELSE view[o].level)
<1>1. view[o] \in Notes /\ cur[o] \in 0..MaxLedger
  BY DEF TypeOK
<1>2. cur[o] \in None..MaxLedger /\ 0 \in 0..StaleAfter /\ 0 \in 0..1
  BY <1>1, RemediationAssumption DEF None
<1> QED
  BY <1>1, <1>2 DEF Progressed, Notes

\* A patch writes typed annotations, with the ledger and the level sent.
LEMMA PatchTyped ==
    ASSUME TypeOK, NEW o \in Operators, NEW n \in Notes, Patch(o, n)
    PROVE  /\ notes' \in Notes /\ notes'.ledger = n.ledger /\ notes'.level = n.level
           /\ old' \in {notes', old, notes} /\ old' \in Notes
<1>1. notes \in Notes /\ old \in Notes
  BY DEF TypeOK
<1>2. /\ [n EXCEPT !.cool = notes.cool] \in Notes
      /\ [n EXCEPT !.cool = notes.cool].ledger = n.ledger
      /\ [n EXCEPT !.cool = notes.cool].level = n.level
  BY <1>1 DEF Notes
<1>3. notes' = IF n.cool = None THEN [n EXCEPT !.cool = notes.cool] ELSE n
  BY DEF Patch
<1>4. notes' \in Notes /\ notes'.ledger = n.ledger /\ notes'.level = n.level
  BY <1>2, <1>3
<1>5. old' \in {notes', old, notes}
  BY DEF Patch
<1> QED
  BY <1>1, <1>4, <1>5

\* Nothing has been observed at the start.
LEMMA InitInv == Init => Inv
<1> SUFFICES ASSUME Init PROVE Inv
  OBVIOUS
<1>1. MonitorTypeOK
  <2>1. /\ down = {} /\ seen = {down} /\ faults = 0 /\ lease = 0 /\ level = "Normal"
        /\ rounded = FALSE /\ tracker = NewTracker /\ downFor = [c \in Components |-> 0]
    BY DEF Init, MonitorInit, ComponentsInit
  <2>2. level \in Levels /\ faults \in 0..MaxFaults /\ lease \in 0..LeaseGrace + 1
    BY <2>1, DegradationAssumption DEF Levels
  <2>3. rounded \in BOOLEAN
    BY <2>1, Zenon
  <2>4. downFor \in [Components -> 0..DownCap]
    BY <2>1, DegradationAssumption
  <2> QED
    BY <2>1, <2>2, <2>3, <2>4, NewTrackerTyped DEF MonitorTypeOK
<1>2. TypeOK
  <2>1. ledger \in 0..MaxLedger /\ notes \in Notes /\ old \in Notes
    BY RemediationAssumption, NoNotesTyped DEF Init
  <2>2. leading \subseteq Operators /\ overlap \in 0..MaxOverlap
    BY RemediationAssumption DEF Init
  <2>3. /\ pc \in [Operators -> {"idle", "observed", "restart", "record"}]
        /\ view \in [Operators -> Notes] /\ cur \in [Operators -> 0..MaxLedger]
        /\ lag \in [Operators -> 0..MaxLatency]
    BY RemediationAssumption, NoNotesTyped DEF Init
  <2>4. restarts \in [0..MaxLedger -> 0..2]
    BY DEF Init
  <2>5. unsure \in BOOLEAN
    BY Zenon DEF Init
  <2> QED
    BY <1>1, <2>1, <2>2, <2>3, <2>4, <2>5 DEF TypeOK
<1>3. ViewInv /\ RestartInv
  BY DEF Init, ViewInv, RestartInv, NoNotes, None
<1> QED
  BY <1>2, <1>3 DEF Inv

\* A pass that has not restarted anything may end.
LEMMA EndKeeps ==
    ASSUME Inv, NEW o \in Operators, EndPass(o), pc[o] # "record",
           UNCHANGED <<ledger, notes, old, restarts>>, unsure' = unsure
    PROVE  ViewInv' /\ RestartInv'
<1>1. /\ pc'[o] = "idle"
      /\ \A q \in Operators \ {o} :
            pc'[q] = pc[q] /\ view'[q] = view[q] /\ cur'[q] = cur[q] /\ lag'[q] = lag[q]
  BY EndPassTyped DEF Inv
<1>2. ViewInv'
  BY <1>1 DEF Inv, ViewInv
<1>3. \A l : Pending(l) => Pending(l)'
  BY <1>1 DEF Pending
<1>4. RestartInv'
  BY <1>3 DEF Inv, RestartInv, Known
<1> QED
  BY <1>2, <1>4

\* The end of a pass that changes nothing: it was withheld or left to a human.
LEMMA EndPreserves ==
    ASSUME Inv, NEW o \in Operators, Withhold(o) \/ LeaveAlone(o)
    PROVE  Inv'
<1>1. /\ pc[o] = "observed" /\ EndPass(o) /\ UNCHANGED control /\ UNCHANGED faults
      /\ UNCHANGED <<ledger, notes, old, leading, overlap, restarts, unsure>>
  BY DEF Withhold, LeaveAlone, Allowed, node, leads, history
<1>2. MonitorTypeOK'
  BY <1>1, ControlKept DEF Inv, TypeOK
<1>3. TypeOK'
  BY <1>1, <1>2, EndPassTyped DEF Inv, TypeOK
<1> QED
  BY <1>1, <1>3, EndKeeps DEF Inv

\* Pods are deleted for the ledger that was seen.
LEMMA CountedTyped ==
    ASSUME TypeOK, NEW o \in Operators
    PROVE  Counted(o) \in [0..MaxLedger -> 0..2]
<1>1. cur[o] \in 0..MaxLedger /\ restarts \in [0..MaxLedger -> 0..2]
  BY DEF TypeOK
<1>2. Capped(restarts[cur[o]] + 1, 2) \in 0..2
  BY <1>1 DEF Capped
<1> QED
  BY <1>1, <1>2 DEF Counted

\* A pass that fails once pods are deleted leaves the restart unrecorded.
LEMMA InterruptedPreserves ==
    ASSUME Inv, NEW o \in Operators, Interrupted(o), MonitorTypeOK',
           leading' \subseteq Operators, overlap' \in 0..MaxOverlap
    PROVE  Inv'
<1>1. PICK deleted \in BOOLEAN :
         /\ restarts' = IF deleted THEN Counted(o) ELSE restarts
         /\ unsure' = (unsure \/ deleted \/ pc[o] = "record")
  BY DEF Interrupted
<1>2. EndPass(o) /\ UNCHANGED <<ledger, notes, old>>
  BY DEF Interrupted, node
<1>3. unsure' \in BOOLEAN
  BY <1>1
<1>4. restarts' \in [0..MaxLedger -> 0..2]
  BY <1>1, CountedTyped DEF Inv, TypeOK
<1>5. TypeOK'
  BY <1>2, <1>3, <1>4, EndPassTyped DEF Inv, TypeOK
<1>6. /\ pc'[o] = "idle"
      /\ \A q \in Operators \ {o} :
            pc'[q] = pc[q] /\ view'[q] = view[q] /\ cur'[q] = cur[q] /\ lag'[q] = lag[q]
  BY <1>2, EndPassTyped DEF Inv
<1>7. ViewInv'
  BY <1>2, <1>6 DEF Inv, ViewInv
<1>8. RestartInv'
  <2> SUFFICES ASSUME ~unsure' PROVE RestartInv'
    BY DEF RestartInv
  <2>1. ~unsure /\ ~deleted /\ pc[o] # "record" /\ unsure' = unsure
    <3>1. unsure \in BOOLEAN
      BY DEF Inv, TypeOK
    <3> QED
      BY <1>1, <3>1
  <2>2. UNCHANGED restarts
    BY <1>1, <2>1
  <2> QED
    BY <1>2, <2>1, <2>2, EndKeeps
<1> QED
  BY <1>5, <1>7, <1>8 DEF Inv

\* A failed request.
LEMMA FailPreserves ==
    ASSUME Inv, NEW o \in Operators, Fail(o)
    PROVE  Inv'
<1>1. Interrupted(o) /\ UNCHANGED control /\ Fault /\ UNCHANGED <<leading, overlap>>
  BY DEF Fail, Interrupted, leads
<1>2. MonitorTypeOK'
  BY <1>1, ControlKept DEF Inv, TypeOK
<1> QED
  BY <1>1, <1>2, InterruptedPreserves DEF Inv, TypeOK

\* A crash.
LEMMA CrashPreserves ==
    ASSUME Inv, NEW o \in Operators, Crash(o)
    PROVE  Inv'
<1>1. /\ Interrupted(o) /\ Fault /\ leading' = leading \ {o} /\ UNCHANGED overlap
      /\ MonitorRestarts \/ UNCHANGED control
  BY DEF Crash, Interrupted
<1>2. MonitorTypeOK'
  BY <1>1, ControlKept, RestartTyped DEF Inv, TypeOK
<1>3. leading' \subseteq Operators /\ overlap' \in 0..MaxOverlap
  BY <1>1 DEF Inv, TypeOK
<1> QED
  BY <1>1, <1>2, <1>3, InterruptedPreserves

\* The lead moves.
LEMMA LeadPreserves ==
    ASSUME Inv, NEW o \in Operators, TakeLead(o) \/ LoseLead(o)
    PROVE  Inv'
<1>1. /\ UNCHANGED control /\ (Fault \/ UNCHANGED faults) /\ UNCHANGED overlap
      /\ UNCHANGED <<ledger, notes, old, pc, view, cur, lag, restarts, unsure>>
      /\ leading' = leading \cup {o} \/ leading' = leading \ {o}
  BY DEF TakeLead, LoseLead, node, pass, history
<1>2. MonitorTypeOK'
  BY <1>1, ControlKept DEF Inv, TypeOK
<1>3. leading' \subseteq Operators
  BY <1>1 DEF Inv, TypeOK
<1>4. TypeOK'
  BY <1>1, <1>2, <1>3 DEF Inv, TypeOK
<1> QED
  BY <1>1, <1>4 DEF Inv, ViewInv, RestartInv, Known, Pending

\* A pass starts on the node as it is or was.
LEMMA StartPassPreserves ==
    ASSUME Inv, NEW o \in Operators, StartPass(o)
    PROVE  Inv'
<1>1. PICK n \in {notes, old} : view' = [view EXCEPT ![o] = n]
  BY DEF StartPass
<1>2. /\ pc[o] = "idle" /\ pc' = [pc EXCEPT ![o] = "observed"]
      /\ cur' = [cur EXCEPT ![o] = ledger]
      /\ UNCHANGED control /\ UNCHANGED faults
      /\ UNCHANGED <<ledger, notes, old, leading, overlap, lag, restarts, unsure>>
  BY DEF StartPass, node, leads, history
<1>3. MonitorTypeOK'
  BY <1>2, ControlKept DEF Inv, TypeOK
<1>4. n \in Notes /\ n.ledger <= ledger /\ ledger \in 0..MaxLedger
  BY DEF Inv, TypeOK, ViewInv
<1>5. TypeOK'
  BY <1>1, <1>2, <1>3, <1>4 DEF Inv, TypeOK
<1>6. /\ pc'[o] = "observed" /\ view'[o] = n /\ cur'[o] = ledger
      /\ \A q \in Operators \ {o} : pc'[q] = pc[q] /\ view'[q] = view[q] /\ cur'[q] = cur[q]
  BY <1>1, <1>2 DEF Inv, TypeOK
<1>7. ViewInv'
  <2>1. ledger <= ledger
    BY <1>4, RemediationAssumption
  <2> QED
    BY <1>2, <1>4, <1>6, <2>1 DEF Inv, ViewInv
<1>8. \A l : Pending(l) => Pending(l)'
  BY <1>2, <1>6 DEF Pending
<1>9. RestartInv'
  BY <1>2, <1>8 DEF Inv, RestartInv, Known
<1> QED
  BY <1>5, <1>7, <1>9 DEF Inv

\* The restart is chosen on a ledger that stands still, with the level not raised.
LEMMA ChooseRestartPreserves ==
    ASSUME Inv, NEW o \in Operators, ChooseRestart(o)
    PROVE  Inv'
<1>1. /\ pc[o] = "observed" /\ pc' = [pc EXCEPT ![o] = "restart"] /\ Stale(o) /\ ~Attempted(o)
      /\ UNCHANGED control /\ UNCHANGED faults
      /\ UNCHANGED <<ledger, notes, old, leading, overlap, view, cur, lag, restarts, unsure>>
  BY DEF ChooseRestart, Allowed, node, leads, history
<1>2. MonitorTypeOK'
  BY <1>1, ControlKept DEF Inv, TypeOK
<1>3. TypeOK'
  BY <1>1, <1>2 DEF Inv, TypeOK
<1>4. cur[o] = view[o].ledger /\ view[o].level = 0
  <2>1. view[o] \in Notes /\ cur[o] \in 0..MaxLedger
    BY DEF Inv, TypeOK
  <2>2. view[o].ledger \in Int /\ cur[o] \in Int
    BY <2>1, RemediationAssumption DEF Notes, None
  <2>3. view[o].ledger <= cur[o]
    BY <1>1 DEF Inv, ViewInv
  <2> QED
    BY <1>1, <2>2, <2>3 DEF Stale, Attempted
<1>5. pc'[o] = "restart" /\ \A q \in Operators \ {o} : pc'[q] = pc[q]
  BY <1>1 DEF Inv, TypeOK
<1>6. ViewInv'
  BY <1>1, <1>4, <1>5 DEF Inv, ViewInv
<1>7. \A l : Pending(l) => Pending(l)'
  BY <1>1, <1>5 DEF Pending
<1>8. RestartInv'
  BY <1>1, <1>7 DEF Inv, RestartInv, Known
<1> QED
  BY <1>3, <1>6, <1>8 DEF Inv

\* With a current copy the ledger has had no restart: it is the observed one, with the
\* level not raised and no restart about to be recorded.
LEMMA RestartPodPreserves ==
    ASSUME Inv, NEW o \in Operators, RestartPod(o)
    PROVE  Inv'
<1>1. /\ pc[o] = "restart" /\ pc' = [pc EXCEPT ![o] = "record"]
      /\ restarts' = Counted(o) /\ unsure' = (unsure \/ ~Current(o))
      /\ UNCHANGED control /\ UNCHANGED faults
      /\ UNCHANGED <<ledger, notes, old, leading, overlap, view, cur, lag>>
  BY DEF RestartPod, node, leads
<1>2. MonitorTypeOK'
  BY <1>1, ControlKept DEF Inv, TypeOK
<1>3. unsure' \in BOOLEAN
  BY <1>1
<1>4. TypeOK'
  BY <1>1, <1>2, <1>3, CountedTyped DEF Inv, TypeOK
<1>5. pc'[o] = "record" /\ \A q \in Operators \ {o} : pc'[q] = pc[q]
  BY <1>1 DEF Inv, TypeOK
<1>6. cur[o] = view[o].ledger /\ view[o].level = 0 /\ ViewInv'
  BY <1>1, <1>5 DEF Inv, ViewInv
<1>7. cur[o] \in 0..MaxLedger /\ restarts \in [0..MaxLedger -> 0..2] /\ notes \in Notes
  BY DEF Inv, TypeOK
<1>8. \A l : Pending(l) => Pending(l)'
  BY <1>1, <1>5 DEF Pending
<1>9. RestartInv'
  <2> SUFFICES ASSUME ~unsure', NEW l \in 0..MaxLedger, restarts'[l] # 0
               PROVE  restarts'[l] = 1 /\ Known(l)'
    BY DEF RestartInv
  <2>1. ~unsure /\ Current(o)
    BY <1>1
  <2>2. cur[o] = notes.ledger /\ notes.level = 0 /\ ~Pending(cur[o])
    BY <1>6, <2>1 DEF Current, Pending
  <2>3. CASE l = cur[o]
    <3>1. restarts[cur[o]] = 0
      BY <1>7, <2>1, <2>2 DEF Inv, RestartInv, Known, Notes
    <3>2. restarts'[l] = 1
      BY <1>1, <1>7, <2>3, <3>1 DEF Counted, Capped
    <3>3. Pending(l)'
      BY <1>1, <1>5, <2>3 DEF Pending
    <3> QED
      BY <1>1, <2>2, <2>3, <3>2, <3>3 DEF Known
  <2>4. CASE l # cur[o]
    <3>1. restarts'[l] = restarts[l]
      BY <1>1, <1>7, <2>4 DEF Counted
    <3> QED
      BY <1>1, <1>8, <2>1, <3>1 DEF Inv, RestartInv, Known
  <2> QED
    BY <2>3, <2>4
<1> QED
  BY <1>4, <1>6, <1>9 DEF Inv

\* A patch that is not behind the annotations keeps account of every restart, if its own
\* is in it.
LEMMA PatchPreserves ==
    ASSUME Inv, NEW o \in Operators, NEW n \in Notes, Patch(o, n), n.ledger <= ledger,
           pc[o] = "record" => n.ledger = cur[o] /\ n.level = 1
    PROVE  Inv'
<1>1. /\ EndPass(o) /\ unsure' = (unsure \/ TakesBack(n))
      /\ UNCHANGED control /\ (Fault \/ UNCHANGED faults)
      /\ UNCHANGED <<ledger, leading, overlap, restarts>>
  BY DEF Patch, leads
<1>2. /\ notes' \in Notes /\ notes'.ledger = n.ledger /\ notes'.level = n.level
      /\ old' \in {notes', old, notes} /\ old' \in Notes
  BY PatchTyped DEF Inv
<1>3. MonitorTypeOK'
  BY <1>1, ControlKept DEF Inv, TypeOK
<1>4. unsure' \in BOOLEAN
  BY <1>1
<1>5. TypeOK'
  BY <1>1, <1>2, <1>3, <1>4, EndPassTyped DEF Inv, TypeOK
<1>6. /\ pc'[o] = "idle"
      /\ \A q \in Operators \ {o} :
            pc'[q] = pc[q] /\ view'[q] = view[q] /\ cur'[q] = cur[q] /\ lag'[q] = lag[q]
  BY <1>1, EndPassTyped DEF Inv
<1>7. ViewInv'
  <2>1. notes'.ledger <= ledger' /\ old'.ledger <= ledger'
    BY <1>1, <1>2 DEF Inv, ViewInv
  <2> QED
    BY <1>1, <1>6, <2>1 DEF Inv, ViewInv
<1>8. RestartInv'
  <2> SUFFICES ASSUME ~unsure', NEW l \in 0..MaxLedger, restarts[l] # 0
               PROVE  restarts[l] = 1 /\ Known(l)'
    BY <1>1 DEF RestartInv
  <2>1. ~unsure /\ ~TakesBack(n)
    BY <1>1
  <2>2. restarts[l] = 1 /\ Known(l)
    BY <2>1 DEF Inv, RestartInv
  <2>3. /\ n.ledger \in Int /\ notes.ledger \in Int /\ n.level \in 0..1 /\ notes.level \in 0..1
        /\ l \in Int
    BY RemediationAssumption DEF Inv, TypeOK, Notes, None
  <2>4. notes.ledger < n.ledger \/ (notes.ledger = n.ledger /\ notes.level <= n.level)
    BY <2>1, <2>3 DEF TakesBack
  <2>5. CASE l < notes.ledger \/ notes.ledger < n.ledger
    <3>1. l < n.ledger
      BY <2>2, <2>3, <2>4, <2>5 DEF Known
    <3> QED
      BY <1>2, <2>2, <3>1 DEF Known
  <2>6. CASE l = notes.ledger /\ n.ledger = notes.ledger /\ notes.level = 1
    <3>1. n.level = 1
      BY <2>3, <2>4, <2>6
    <3> QED
      BY <1>2, <2>2, <2>6, <3>1 DEF Known
  <2>7. CASE l = notes.ledger /\ n.ledger = notes.ledger /\ Pending(l)
    <3>1. PICK q \in Operators : pc[q] = "record" /\ cur[q] = l
      BY <2>7 DEF Pending
    <3>2. CASE q = o
      BY <1>2, <2>2, <2>7, <3>1, <3>2 DEF Known
    <3>3. CASE q # o
      <4>1. Pending(l)'
        BY <1>6, <3>1, <3>3 DEF Pending
      <4> QED
        BY <1>2, <2>2, <2>7, <4>1 DEF Known
    <3> QED
      BY <3>2, <3>3
  <2> QED
    BY <2>2, <2>3, <2>4, <2>5, <2>6, <2>7 DEF Known
<1> QED
  BY <1>5, <1>7, <1>8 DEF Inv

\* The restart is recorded: the level of the ledger seen is raised.
LEMMA RecordPreserves ==
    ASSUME Inv, NEW o \in Operators, Record(o)
    PROVE  Inv'
<1> DEFINE n == [Progressed(o) EXCEPT !.level = 1, !.cool = 0]
<1>1. pc[o] = "record" /\ Patch(o, n)
  BY DEF Record
<1>2. cur[o] = view[o].ledger /\ cur[o] <= ledger /\ view[o] \in Notes /\ cur[o] \in 0..MaxLedger
  BY <1>1 DEF Inv, ViewInv, TypeOK
<1>3. Progressed(o) = view[o]
  BY <1>2 DEF Progressed
<1>4. n \in Notes /\ n.ledger = cur[o] /\ n.level = 1
  <2>1. /\ view[o] \in [ledger : None..MaxLedger, age : 0..StaleAfter, level : 0..1,
                         cool : None..Cooldown]
        /\ 0 \in None..Cooldown /\ 1 \in 0..1
    BY <1>2, RemediationAssumption DEF Notes, None
  <2>2. n = [view[o] EXCEPT !.level = 1, !.cool = 0]
    BY <1>3
  <2> HIDE DEF n
  <2> QED
    BY <1>2, <2>1, <2>2 DEF Notes
<1> HIDE DEF n
<1> QED
  BY <1>1, <1>2, <1>4, PatchPreserves

\* An update without a restart.
LEMMA UpdatePreserves ==
    ASSUME Inv, NEW o \in Operators, Update(o)
    PROVE  Inv'
<1>1. pc[o] = "observed" /\ Patch(o, Progressed(o))
  BY DEF Update, Allowed
<1>2. view[o].ledger <= cur[o] /\ cur[o] <= ledger /\ view[o] \in Notes /\ cur[o] \in 0..MaxLedger
  BY <1>1 DEF Inv, ViewInv, TypeOK
<1>3. /\ Progressed(o) \in Notes
      /\ Progressed(o).ledger = (IF cur[o] > view[o].ledger THEN cur[o] ELSE view[o].ledger)
  BY ProgressedTyped DEF Inv
<1>4. view[o].ledger \in Int /\ cur[o] \in Int /\ ledger \in Int
  BY <1>2, RemediationAssumption DEF Inv, TypeOK, Notes, None
<1>5. Progressed(o).ledger <= ledger
  BY <1>2, <1>3, <1>4
<1> QED
  BY <1>1, <1>3, <1>5, PatchPreserves

-----------------------------------------------------------------------------
(* The cluster and time.                                                   *)

\* The monitor and the components touch nothing of the node.
LEMMA MonitorPreserves ==
    ASSUME Inv, MonitorRound \/ \E c \in Components : ComponentChanges(c)
    PROVE  Inv'
<1>1. UNCHANGED <<ledger, notes, old, leading, overlap, pc, view, cur, lag, restarts, unsure>>
  BY DEF MonitorRound, ComponentChanges, Others, node, leads, pass, history
<1>2. ViewInv' /\ RestartInv'
  BY <1>1 DEF Inv, ViewInv, RestartInv, Known, Pending
<1>3. MonitorTypeOK'
  BY RoundTyped, ChangeTyped DEF Inv, TypeOK, MonitorRound, ComponentChanges
<1>4. TypeOK'
  BY <1>1, <1>3 DEF Inv, TypeOK
<1> QED
  BY <1>2, <1>4 DEF Inv

\* Nor do the reflectors.
LEMMA WatchPreserves ==
    ASSUME Inv, WatchCatchesUp
    PROVE  Inv'
<1>1. /\ UNCHANGED control /\ UNCHANGED faults /\ old' = notes
      /\ UNCHANGED <<ledger, notes, leading, overlap, pc, view, cur, lag, restarts, unsure>>
  BY DEF WatchCatchesUp, leads, pass, history
<1>2. MonitorTypeOK'
  BY <1>1, ControlKept DEF Inv, TypeOK
<1>3. TypeOK'
  BY <1>1, <1>2 DEF Inv, TypeOK
<1> QED
  BY <1>1, <1>3 DEF Inv, ViewInv, RestartInv, Known, Pending

\* A ledger that closes leaves what has been observed behind.
LEMMA CloseLedgerPreserves ==
    ASSUME Inv, CloseLedger
    PROVE  Inv'
<1>1. /\ ledger < MaxLedger /\ ledger' = ledger + 1 /\ UNCHANGED control /\ UNCHANGED faults
      /\ UNCHANGED <<notes, old, leading, overlap, pc, view, cur, lag, restarts, unsure>>
  BY DEF CloseLedger, leads, pass, history
<1>2. MonitorTypeOK'
  BY <1>1, ControlKept DEF Inv, TypeOK
<1>3. ledger' \in 0..MaxLedger
  BY <1>1, RemediationAssumption DEF Inv, TypeOK
<1>4. TypeOK'
  BY <1>1, <1>2, <1>3 DEF Inv, TypeOK
<1>5. /\ notes.ledger \in Int /\ old.ledger \in Int /\ ledger \in Int
      /\ \A o \in Operators : cur[o] \in Int
  BY RemediationAssumption DEF Inv, TypeOK, Notes, None
<1>6. ViewInv'
  BY <1>1, <1>5 DEF Inv, ViewInv
<1>7. RestartInv'
  BY <1>1 DEF Inv, RestartInv, Known, Pending
<1> QED
  BY <1>4, <1>6, <1>7 DEF Inv

\* Time changes ages only.
LEMMA AgedTyped ==
    ASSUME NEW n \in Notes
    PROVE  Aged(n) \in Notes /\ Aged(n).ledger = n.ledger /\ Aged(n).level = n.level
<1> DEFINE a == Capped(n.age + 1, StaleAfter)
           c == IF n.cool = None THEN None ELSE Capped(n.cool + 1, Cooldown)
<1>1. a \in 0..StaleAfter
  BY RemediationAssumption DEF Capped, Notes
<1>2. c \in None..Cooldown
  BY RemediationAssumption DEF Capped, Notes, None
<1>3. Aged(n) = IF n.ledger = None THEN n ELSE [n EXCEPT !.age = a, !.cool = c]
  BY DEF Aged
<1> HIDE DEF a, c
<1>4. CASE n.ledger = None
  BY <1>3, <1>4
<1>5. CASE n.ledger # None
  BY <1>1, <1>2, <1>3, <1>5 DEF Notes
<1> QED
  BY <1>4, <1>5

\* Time changes no ledger and no level.
LEMMA TickPreserves ==
    ASSUME Inv, Tick
    PROVE  Inv'
<1>1. /\ Interval /\ notes' = Aged(notes) /\ old' = Aged(old)
      /\ view' = [o \in Operators |-> Aged(view[o])]
      /\ \A o \in Operators : pc[o] # "idle" => lag[o] < MaxLatency
      /\ lag' = [o \in Operators |-> IF pc[o] = "idle" THEN 0 ELSE lag[o] + 1]
      /\ Contested => overlap < MaxOverlap
      /\ overlap' = IF Contested THEN overlap + 1 ELSE 0
      /\ UNCHANGED <<ledger, leading, pc, cur, restarts, unsure>>
  BY DEF Tick, history
<1>2. /\ notes \in Notes /\ old \in Notes /\ \A o \in Operators : view[o] \in Notes
      /\ \A o \in Operators : lag[o] \in 0..MaxLatency
      /\ overlap \in 0..MaxOverlap
  BY DEF Inv, TypeOK
<1>3. /\ notes' \in Notes /\ notes'.ledger = notes.ledger /\ notes'.level = notes.level
      /\ old' \in Notes /\ old'.ledger = old.ledger
  BY <1>1, <1>2, AgedTyped
<1>4. \A o \in Operators : Aged(view[o]) \in Notes
  BY <1>2, AgedTyped
<1>5. \A o \in Operators : view'[o].ledger = view[o].ledger /\ view'[o].level = view[o].level
  BY <1>1, <1>2, AgedTyped
<1>6. MonitorTypeOK'
  BY <1>1, IntervalTyped DEF Inv, TypeOK
<1>7. lag' \in [Operators -> 0..MaxLatency] /\ overlap' \in 0..MaxOverlap
  BY <1>1, <1>2, RemediationAssumption
<1>8. TypeOK'
  BY <1>1, <1>3, <1>4, <1>6, <1>7 DEF Inv, TypeOK
<1>9. ViewInv'
  BY <1>1, <1>3, <1>5 DEF Inv, ViewInv
<1>10. RestartInv'
  BY <1>1, <1>3 DEF Inv, RestartInv, Known, Pending
<1> QED
  BY <1>8, <1>9, <1>10 DEF Inv

-----------------------------------------------------------------------------
(* The theorems.                                                           *)

\* Every step keeps the invariant.
LEMMA NextInv == Inv /\ [Next]_vars => Inv'
<1> SUFFICES ASSUME Inv, [Next]_vars PROVE Inv'
  OBVIOUS
<1>1. ASSUME NEW o \in Operators, StartPass(o) \/ PassStep(o) PROVE Inv'
  BY <1>1, StartPassPreserves, EndPreserves, ChooseRestartPreserves, RestartPodPreserves,
     RecordPreserves, UpdatePreserves DEF PassStep
<1>2. ASSUME NEW o \in Operators, Fail(o) \/ Crash(o) \/ TakeLead(o) \/ LoseLead(o) PROVE Inv'
  BY <1>2, FailPreserves, CrashPreserves, LeadPreserves
<1>3. CASE MonitorRound \/ \E c \in Components : ComponentChanges(c)
  BY <1>3, MonitorPreserves
<1>4. CASE WatchCatchesUp \/ CloseLedger \/ Tick
  BY <1>4, WatchPreserves, CloseLedgerPreserves, TickPreserves
<1>5. CASE UNCHANGED vars
  <2>1. /\ UNCHANGED control /\ UNCHANGED faults
        /\ UNCHANGED <<ledger, notes, old, leading, overlap, pc, view, cur, lag, restarts, unsure>>
    BY <1>5 DEF vars, node, leads, pass, history
  <2>2. MonitorTypeOK'
    BY <2>1, ControlKept DEF Inv, TypeOK
  <2> QED
    BY <2>1, <2>2 DEF Inv, TypeOK, ViewInv, RestartInv, Known, Pending
<1> QED
  BY <1>1, <1>2, <1>3, <1>4, <1>5 DEF Next

\* The invariant holds throughout.
LEMMA Invariance == Spec => []Inv
BY InitInv, NextInv, PTL DEF Spec

\* The monitor, the annotations and the passes keep their types, whatever the thresholds:
\* in particular the level is always one of DegradationLevel.
THEOREM TypeCorrect == Spec => []TypeOK
<1>1. Inv => TypeOK
  BY DEF Inv
<1> QED
  BY <1>1, Invariance, PTL

\* However many replicas lead, however long a standstill lasts and however often the
\* control plane fails meanwhile, the pods are restarted once for it, unless a restart
\* went unrecorded, or a pass acted on an outdated copy of the annotations.
THEOREM OneRestart == Spec => []OneRestartPerStandstill
<1>1. Inv => OneRestartPerStandstill
  <2> SUFFICES ASSUME Inv, NEW l \in 0..MaxLedger, restarts[l] > 1, ~unsure
               PROVE  FALSE
    BY DEF OneRestartPerStandstill
  <2>1. restarts[l] \in 0..2
    BY DEF Inv, TypeOK
  <2>2. restarts[l] = 1
    BY <2>1 DEF Inv, RestartInv
  <2> QED
    BY <2>1, <2>2
<1> QED
  BY <1>1, Invariance, PTL

-----------------------------------------------------------------------------
(* Outages.                                                                *)

\* A component of which rounds have told is down throughout, and failed in all of them.
Told(c) ==
    /\ downFor[c] # 0 => Showing(c)
    /\ tracker[c].fails >= FailureThreshold \/ downFor[c] <= tracker[c].fails

\* The level is that of the components known to be down.
Judged ==
    /\ \A c \in Components : tracker[c].fails >= FailureThreshold => tracker[c].state = "Unhealthy"
    /\ level = "Normal" => \A c \in Components : tracker[c].state # "Unhealthy"

\* A restart was chosen before any outage could be told, and lag ago at most.
ChosenInTime ==
    pc[Self] = "restart" =>
        \A c \in Components :
            downFor[c] < FailureThreshold + lag[Self] + (IF rounded THEN 1 ELSE 0)

OutageInv == down \in seen /\ (\A c \in Components : Told(c)) /\ Judged /\ ChosenInTime

\* Only Normal is not worse than Normal.
LEMMA WorstIsNormal ==
    ASSUME NEW L \in SUBSET Levels, Worst(L) = "Normal", "Normal" \in L
    PROVE  L = {"Normal"}
<1>1. \A m \in L : Severity(m) <= Severity("Normal")
  BY HasWorst DEF Worst
<1> QED
  BY <1>1 DEF Levels, Severity

\* What record_round makes of one result.
LEMMA RecordedFails ==
    ASSUME NEW t \in [state : {"Unknown", "Healthy", "Unhealthy"},
                      fails : 0..FailureThreshold, oks : 0..RecoveryThreshold],
           t.fails >= FailureThreshold => t.state = "Unhealthy"
    PROVE  /\ \A o : Recorded(t, o).fails >= FailureThreshold => Recorded(t, o).state = "Unhealthy"
           /\ Recorded(t, "Unhealthy").fails \in {t.fails + 1, FailureThreshold}
           /\ Recorded(t, "Inconclusive") = t
<1>1. ASSUME NEW o, Recorded(t, o).fails >= FailureThreshold PROVE Recorded(t, o).state = "Unhealthy"
  <2>1. CASE o = "Healthy"
    BY <1>1, <2>1, DegradationAssumption DEF Recorded, Capped
  <2>2. CASE o = "Unhealthy"
    BY <1>1, <2>2, DegradationAssumption DEF Recorded, Capped
  <2>3. CASE o \notin {"Healthy", "Unhealthy"}
    BY <1>1, <2>3 DEF Recorded
  <2> QED
    BY <2>1, <2>2, <2>3
<1>2. Recorded(t, "Unhealthy").fails \in {t.fails + 1, FailureThreshold}
  BY DegradationAssumption DEF Recorded, Capped
<1>3. Recorded(t, "Inconclusive") = t
  BY DEF Recorded
<1> QED
  BY <1>1, <1>2, <1>3

\* A probe of a component whose failure shows finds it or cannot tell.
LEMMA ProbeTells ==
    ASSUME MonitorTypeOK, NEW c \in Components, Showing(c), NEW D \in seen, NEW r \in Outcomes(c, D)
    PROVE  r \in {"Unhealthy", "Inconclusive"}
<1>1. c \in D /\ c \in {"Etcd", "Dns", "Webhook", "Scheduler"}
  BY DegradationAssumption DEF Showing
<1>2. CASE c = "Scheduler"
  <2>1. lease > LeaseGrace /\ "Scheduler" \in D
    BY <1>1, <1>2 DEF Showing
  <2>2. ~(lease <= LeaseGrace)
    BY <2>1, DegradationAssumption DEF MonitorTypeOK
  <2> QED
    BY <1>2, <2>1, <2>2 DEF Outcomes, LeaseOutcomes
<1>3. CASE c # "Scheduler"
  BY <1>1, <1>3 DEF Outcomes
<1> QED
  BY <1>2, <1>3

\* A round that can tell finds a component down that has been down throughout.
LEMMA RoundTells ==
    ASSUME Inv, OutageInv, MonitorRound
    PROVE  OutageInv'
<1>1. /\ MonitorTypeOK /\ rounded = FALSE /\ rounded' = TRUE /\ seen' = {down}
      /\ UNCHANGED <<down, lease, pc, lag>> /\ downFor \in [Components -> 0..DownCap]
  BY DEF MonitorRound, Round, Others, pass, components, Inv, TypeOK, MonitorTypeOK
<1>2. PICK outcome \in [Components -> {"Healthy", "Unhealthy", "Inconclusive"}] :
         /\ \A c \in Components : \E D \in seen : outcome[c] \in Outcomes(c, D)
         /\ RecordRound(outcome)
  BY DEF MonitorRound, Round
<1> DEFINE T == [state : {"Unknown", "Healthy", "Unhealthy"},
                 fails : 0..FailureThreshold, oks : 0..RecoveryThreshold]
           result == Results(outcome)
<1>3. /\ tracker' = After(outcome) /\ level' = Worst(TargetOf(After(outcome)))
      /\ downFor' = [c \in Components |->
                       IF result[c] = "Inconclusive" THEN downFor[c]
                       ELSE IF Showing(c) THEN Capped(downFor[c] + 1, DownCap) ELSE 0]
  BY <1>2, RecordRoundIs
<1>4. /\ \A c \in Components : tracker[c] \in T
      /\ \A c \in Components : tracker[c].fails >= FailureThreshold => tracker[c].state = "Unhealthy"
  BY <1>1 DEF MonitorTypeOK, OutageInv, Judged
<1>5. \A c \in Components : tracker'[c] = Recorded(tracker[c], result[c])
  BY <1>3 DEF After
<1>6. \A c \in Components : tracker'[c].fails >= FailureThreshold => tracker'[c].state = "Unhealthy"
  BY <1>4, <1>5, RecordedFails
<1>7. level' = "Normal" => \A c \in Components : tracker'[c].state # "Unhealthy"
  <2>1. ASSUME level' = "Normal", NEW c \in Components, tracker'[c].state = "Unhealthy" PROVE FALSE
    <3>1. TargetOf(tracker') = {"Normal"}
      BY <1>3, <2>1, TargetTyped, WorstIsNormal
    <3>2. ImpliedLevel(c) \in TargetOf(tracker') /\ ImpliedLevel(c) # "Normal"
      BY <2>1 DEF TargetOf, ImpliedLevel
    <3> QED
      BY <3>1, <3>2
  <2> QED
    BY <2>1
<1>8. Judged'
  BY <1>6, <1>7 DEF Judged
<1>9. \A c \in Components : downFor[c] \in Nat /\ downFor'[c] \in Nat /\ downFor'[c] <= downFor[c] + 1
  BY <1>1, <1>3, DegradationAssumption DEF Capped
<1>10. ChosenInTime'
  <2> SUFFICES ASSUME pc[Self] = "restart", NEW c \in Components
               PROVE  downFor'[c] < FailureThreshold + lag[Self] + 1
    BY <1>1 DEF ChosenInTime
  <2>1. downFor[c] < FailureThreshold + lag[Self]
    <3>1. downFor[c] < FailureThreshold + lag[Self] + 0
      BY <1>1 DEF OutageInv, ChosenInTime
    <3> QED
      BY <3>1, DegradationAssumption, RemediationAssumption DEF Inv, TypeOK
  <2>2. lag[Self] \in Nat
    BY RemediationAssumption DEF Inv, TypeOK
  <2> QED
    BY <1>9, <2>1, <2>2, DegradationAssumption
<1>11. ASSUME NEW c \in Components PROVE Told(c)'
  <2>1. Told(c) /\ tracker[c] \in T /\ tracker[c].fails \in Nat
    BY <1>4, DegradationAssumption DEF OutageInv
  <2>2. PICK D \in seen : outcome[c] \in Outcomes(c, D)
    BY <1>2
  <2>3. Showing(c) => result[c] \in {"Unhealthy", "Inconclusive"}
    <3> SUFFICES ASSUME Showing(c) PROVE result[c] \in {"Unhealthy", "Inconclusive"}
      OBVIOUS
    <3>1. outcome[c] \in {"Unhealthy", "Inconclusive"}
      BY <1>1, <2>2, ProbeTells
    <3> QED
      BY <3>1 DEF Results, Attributed
  <2>4. downFor'[c] # 0 => Showing(c)
    BY <1>3, <1>9, <2>1 DEF Told
  <2>5. Showing(c) => Showing(c)'
    BY <1>1 DEF Showing, OutageInv
  <2>6. tracker'[c].fails >= FailureThreshold \/ downFor'[c] <= tracker'[c].fails
    <3>1. CASE result[c] = "Inconclusive"
      <4>1. tracker'[c] = tracker[c]
        BY <1>4, <1>5, <3>1, RecordedFails
      <4> QED
        BY <1>3, <2>1, <3>1, <4>1 DEF Told
    <3>2. CASE result[c] # "Inconclusive" /\ Showing(c)
      <4>1. tracker'[c].fails \in {tracker[c].fails + 1, FailureThreshold}
        BY <1>4, <1>5, <2>3, <3>2, RecordedFails
      <4> QED
        BY <1>9, <2>1, <4>1, DegradationAssumption DEF Told
    <3>3. CASE result[c] # "Inconclusive" /\ ~Showing(c)
      <4>1. downFor'[c] = 0
        BY <1>3, <3>3
      <4>2. tracker'[c].fails \in Nat
        <5>1. MonitorTypeOK'
          BY <1>1, RoundTyped DEF MonitorRound
        <5> QED
          BY <5>1, DegradationAssumption DEF MonitorTypeOK
      <4> QED
        BY <4>1, <4>2
    <3> QED
      BY <3>1, <3>2, <3>3
  <2> QED
    BY <2>4, <2>5, <2>6 DEF Told
<1> QED
  BY <1>1, <1>8, <1>10, <1>11 DEF OutageInv

\* What goes down or comes up starts over; the lease of a scheduler that is down is not
\* renewed.
LEMMA ChangeStartsOver ==
    ASSUME Inv, OutageInv, NEW x \in Components, ComponentChanges(x)
    PROVE  OutageInv'
<1>1. /\ UNCHANGED <<tracker, level, rounded, pc, lag>>
      /\ downFor' = [downFor EXCEPT ![x] = 0]
      /\ seen' = seen \cup {down'}
      /\ down' = down \cup {x} \/ down' = down \ {x}
      /\ "Scheduler" \in down => lease' = lease
  BY DEF ComponentChanges, Change, GoesDown, ComesUp, Renewing, Others, pass
<1>2. /\ downFor \in [Components -> 0..DownCap] /\ lag[Self] \in Nat
      /\ \A c \in Components : tracker[c].fails \in Nat
  BY DegradationAssumption, RemediationAssumption DEF Inv, TypeOK, MonitorTypeOK
<1>3. Judged' /\ down' \in seen'
  BY <1>1 DEF OutageInv, Judged
<1>4. ChosenInTime'
  BY <1>1, <1>2, DegradationAssumption DEF OutageInv, ChosenInTime
<1>5. ASSUME NEW c \in Components PROVE Told(c)'
  <2>1. CASE c = x
    BY <1>1, <1>2, <2>1 DEF Told
  <2>2. CASE c # x
    <3>1. downFor'[c] = downFor[c] /\ tracker'[c] = tracker[c] /\ Told(c)
      BY <1>1, <1>2, <2>2 DEF OutageInv
    <3>2. Showing(c) => Showing(c)'
      <4> SUFFICES ASSUME Showing(c) PROVE Showing(c)'
        OBVIOUS
      <4>1. c \in down /\ \A D \in seen : c \in D
        BY DEF Showing, OutageInv
      <4>2. c \in down'
        BY <1>1, <2>2, <4>1
      <4> QED
        BY <1>1, <4>1, <4>2 DEF Showing
    <3> QED
      BY <3>1, <3>2 DEF Told
  <2> QED
    BY <2>1, <2>2
<1> QED
  BY <1>3, <1>4, <1>5 DEF OutageInv

\* An interval goes by after its round.
LEMMA TickTells ==
    ASSUME Inv, OutageInv, Tick
    PROVE  OutageInv'
<1>1. /\ rounded /\ rounded' = FALSE /\ UNCHANGED <<down, seen, tracker, level, downFor, pc>>
      /\ pc[Self] # "idle" => lag'[Self] = lag[Self] + 1
      /\ "Scheduler" \in down => lease' = Capped(lease + 1, LeaseGrace + 1)
  BY RemediationAssumption DEF Tick, Interval, Renewing
<1>2. /\ downFor \in [Components -> 0..DownCap] /\ lag[Self] \in Nat
      /\ lease \in Nat
  BY DegradationAssumption, RemediationAssumption DEF Inv, TypeOK, MonitorTypeOK
<1>3. Judged' /\ down' \in seen'
  BY <1>1 DEF OutageInv, Judged
<1>4. ChosenInTime'
  BY <1>1, <1>2, DegradationAssumption DEF OutageInv, ChosenInTime
<1>5. ASSUME NEW c \in Components PROVE Told(c)'
  <2>1. Showing(c) => Showing(c)'
    <3> SUFFICES ASSUME Showing(c) PROVE Showing(c)'
      OBVIOUS
    <3>1. c \in down
      BY DEF Showing, OutageInv
    <3>2. c = "Scheduler" => lease' > LeaseGrace
      BY <1>1, <1>2, <3>1, DegradationAssumption DEF Showing, Capped
    <3> QED
      BY <1>1, <3>2 DEF Showing
  <2> QED
    BY <1>1, <2>1 DEF OutageInv, Told
<1> QED
  BY <1>3, <1>4, <1>5 DEF OutageInv

\* A restart is chosen at level Normal: fewer rounds than the threshold have told of any
\* component.
LEMMA ChosenAtNormal ==
    ASSUME Inv, OutageInv, ChooseRestart(Self)
    PROVE  ChosenInTime'
<1>1. level = "Normal" /\ UNCHANGED <<downFor, lag, rounded>>
  BY DEF ChooseRestart, Allowed, Gates, Withheld, PermitsDisruption, control, monitor
<1>2. /\ downFor \in [Components -> 0..DownCap] /\ lag[Self] \in Nat
      /\ \A c \in Components : tracker[c].fails \in Nat
  BY DegradationAssumption, RemediationAssumption DEF Inv, TypeOK, MonitorTypeOK
<1>3. ASSUME NEW c \in Components PROVE downFor[c] < FailureThreshold
  <2>1. ~(tracker[c].fails >= FailureThreshold)
    BY <1>1 DEF OutageInv, Judged
  <2>2. downFor[c] <= tracker[c].fails
    BY <2>1 DEF OutageInv, Told
  <2> QED
    BY <1>2, <2>1, <2>2, DegradationAssumption
<1>4. ASSUME NEW c \in Components
      PROVE  downFor[c] < FailureThreshold + lag[Self] + (IF rounded THEN 1 ELSE 0)
  <2>1. (IF rounded THEN 1 ELSE 0) \in Nat
    OBVIOUS
  <2> QED
    BY <1>2, <1>3, <2>1, DegradationAssumption
<1> QED
  BY <1>1, <1>4 DEF ChosenInTime

\* A new process knows of nothing.
LEMMA RestartForgets ==
    ASSUME MonitorRestarts, pc'[Self] = "idle"
    PROVE  OutageInv'
<1>1. /\ down' = down /\ seen' = {down} /\ tracker' = NewTracker /\ level' = "Normal"
      /\ downFor' = [c \in Components |-> 0]
  BY DEF MonitorRestarts, components
<1>2. \A c \in Components : NewTracker[c].fails = 0 /\ NewTracker[c].state = "Unknown"
  BY DEF NewTracker
<1> QED
  BY <1>1, <1>2, DegradationAssumption DEF OutageInv, Told, Judged, ChosenInTime

\* Nothing else disturbs it.
LEMMA PassTells ==
    ASSUME OutageInv, UNCHANGED control, ChosenInTime'
    PROVE  OutageInv'
BY DEF OutageInv, Told, Judged, Showing, control, components, monitor

\* A step of the pass of o.
LEMMA StepTells ==
    ASSUME Inv, OutageInv, NEW o \in Operators, StartPass(o) \/ PassStep(o) \/ Fail(o)
    PROVE  OutageInv'
<1>1. /\ UNCHANGED control /\ pc \in [Operators -> {"idle", "observed", "restart", "record"}]
      /\ lag \in [Operators -> 0..MaxLatency]
  BY DEF StartPass, PassStep, Withhold, LeaveAlone, ChooseRestart, RestartPod, Record, Update,
         Patch, Fail, Inv, TypeOK
<1>2. UNCHANGED <<rounded, downFor>> /\ Self \in Operators
  BY <1>1, RemediationAssumption DEF control, monitor
<1>3. CASE o = Self /\ ChooseRestart(o)
  BY <1>1, <1>3, ChosenAtNormal, PassTells
<1>4. CASE o = Self /\ ~ChooseRestart(o)
  <2>1. pc'[Self] # "restart"
    BY <1>1, <1>2, <1>4 DEF StartPass, PassStep, Withhold, LeaveAlone, RestartPod, Record, Update,
                            Patch, Fail, Interrupted, EndPass
  <2> QED
    BY <1>1, <2>1, PassTells DEF ChosenInTime
<1>5. CASE o # Self
  <2>1. pc'[Self] = pc[Self] /\ lag'[Self] = lag[Self]
    BY <1>1, <1>2, <1>5 DEF StartPass, PassStep, Withhold, LeaveAlone, ChooseRestart, RestartPod,
                            Record, Update, Patch, Fail, Interrupted, EndPass
  <2> QED
    BY <1>1, <1>2, <2>1, PassTells DEF OutageInv, ChosenInTime
<1> QED
  BY <1>3, <1>4, <1>5

\* A crash of Self starts it over.
LEMMA CrashTells ==
    ASSUME Inv, OutageInv, NEW o \in Operators, Crash(o)
    PROVE  OutageInv'
<1>1. pc \in [Operators -> {"idle", "observed", "restart", "record"}] /\ EndPass(o)
      /\ Self \in Operators /\ lag \in [Operators -> 0..MaxLatency]
  BY RemediationAssumption DEF Crash, Interrupted, Inv, TypeOK
<1>2. CASE o = Self
  <2>1. MonitorRestarts /\ pc'[Self] = "idle"
    BY <1>1, <1>2 DEF Crash, EndPass
  <2> QED
    BY <2>1, RestartForgets
<1>3. CASE o # Self
  <2>1. UNCHANGED control /\ pc'[Self] = pc[Self] /\ lag'[Self] = lag[Self]
    BY <1>1, <1>3 DEF Crash, EndPass
  <2>2. ChosenInTime'
    BY <2>1 DEF OutageInv, ChosenInTime, control, monitor
  <2> QED
    BY <2>1, <2>2, PassTells
<1> QED
  BY <1>2, <1>3

\* Every step keeps it.
LEMMA NextOutageInv == Inv /\ OutageInv /\ [Next]_vars => OutageInv'
<1> SUFFICES ASSUME Inv, OutageInv, [Next]_vars PROVE OutageInv'
  OBVIOUS
<1>1. ASSUME NEW o \in Operators, StartPass(o) \/ PassStep(o) PROVE OutageInv'
  BY <1>1, StepTells
<1>2. ASSUME NEW o \in Operators, Fail(o) \/ Crash(o) PROVE OutageInv'
  BY <1>2, StepTells, CrashTells
<1>3. CASE MonitorRound
  BY <1>3, RoundTells
<1>4. CASE \E c \in Components : ComponentChanges(c)
  BY <1>4, ChangeStartsOver
<1>5. CASE Tick
  BY <1>5, TickTells
<1>6. CASE \/ \E o \in Operators : TakeLead(o) \/ LoseLead(o)
           \/ WatchCatchesUp \/ CloseLedger \/ UNCHANGED vars
  <2>1. UNCHANGED control /\ UNCHANGED <<pc, lag>>
    BY <1>6 DEF TakeLead, LoseLead, WatchCatchesUp, CloseLedger, vars, pass
  <2>2. ChosenInTime'
    BY <2>1 DEF OutageInv, ChosenInTime, control, monitor
  <2> QED
    BY <2>1, <2>2, PassTells
<1> QED
  BY <1>1, <1>2, <1>3, <1>4, <1>5, <1>6 DEF Next

\* Nothing is down at the start.
LEMMA InitOutageInv == Init => OutageInv
<1> SUFFICES ASSUME Init PROVE OutageInv
  OBVIOUS
<1>1. /\ seen = {down} /\ tracker = NewTracker /\ level = "Normal"
      /\ downFor = [c \in Components |-> 0] /\ pc[Self] = "idle"
  BY RemediationAssumption DEF Init, MonitorInit
<1>2. \A c \in Components : NewTracker[c].fails = 0 /\ NewTracker[c].state = "Unknown"
  BY DEF NewTracker
<1>3. \A c \in Components : Told(c)
  BY <1>1, <1>2 DEF Told
<1>4. Judged
  BY <1>1, <1>2, DegradationAssumption DEF Judged
<1> QED
  BY <1>1, <1>3, <1>4 DEF OutageInv, ChosenInTime

\* "never restart serving pods" on signals of a degraded control plane: whatever the
\* thresholds and the latency of a pass, and whatever the other replicas do, an operator
\* deletes no pod once FailureThreshold + MaxLatency conclusive rounds since its start
\* have told of a component that is down throughout.
THEOREM RestartWithheld == Spec => OutageWithholdsRestart
<1>1. Inv /\ OutageInv =>
         [pc[Self] = "restart" /\ pc'[Self] # "restart" =>
             \A c \in Components : downFor[c] <= FailureThreshold + MaxLatency]_vars
  <2> SUFFICES ASSUME Inv, OutageInv, pc[Self] = "restart", NEW c \in Components
               PROVE  downFor[c] <= FailureThreshold + MaxLatency
    OBVIOUS
  <2>1. downFor[c] < FailureThreshold + lag[Self] + (IF rounded THEN 1 ELSE 0)
    BY DEF OutageInv, ChosenInTime
  <2>2. downFor[c] \in Nat /\ lag[Self] \in Nat /\ lag[Self] <= MaxLatency
    BY DegradationAssumption, RemediationAssumption DEF Inv, TypeOK, MonitorTypeOK
  <2>3. (IF rounded THEN 1 ELSE 0) \in {0, 1}
    OBVIOUS
  <2> QED
    BY <2>1, <2>2, <2>3, DegradationAssumption, RemediationAssumption
<1>2. Spec => [](Inv /\ OutageInv)
  BY InitInv, NextInv, InitOutageInv, NextOutageInv, PTL DEF Spec
<1> QED
  BY <1>1, <1>2, PTL DEF Spec, OutageWithholdsRestart
=============================================================================
