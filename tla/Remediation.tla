---------------------------- MODULE Remediation ----------------------------
(***************************************************************************)
(* The remediation of a node whose ledger stands still (remediation.rs and *)
(* the Remediating part of apply_stellar_node) by the replicas of the      *)
(* operator, together with the gate of the degradation monitor that may    *)
(* withhold it.                                                            *)
(*                                                                         *)
(* Its memory are annotations of the StellarNode.  A pass decides on those *)
(* of the cached node it was handed, which may be outdated, and its patch  *)
(* sends all of them back.  Leadership is looked at once, when the pass    *)
(* begins: passes of two replicas may overlap.                             *)
(*                                                                         *)
(* Every replica has a monitor and a gate of its own.  Those of one        *)
(* replica, Self, are modelled; what the gate of another says is open.     *)
(*                                                                         *)
(* Time advances in probe intervals of Self.  Timestamps are kept as ages, *)
(* up to the age past which no test tells them apart.                      *)
(***************************************************************************)
EXTENDS Degradation, Integers

CONSTANTS
    Operators,     \* the replicas of the operator
    Self,          \* the one whose monitor is modelled
    StaleAfter,    \* DEFAULT_STALE_THRESHOLD_MINUTES
    Cooldown,      \* REMEDIATION_COOLDOWN_MINUTES
    MaxLedger,     \* bound on the ledgers closed
    MaxLatency,    \* longest duration of a pass
    MaxOverlap     \* how long a deposed leader's flag stays up (SplitBrainIsBounded)

ASSUME RemediationAssumption ==
    /\ Self \in Operators
    /\ StaleAfter \in Nat \ {0} /\ Cooldown \in Nat
    /\ MaxLedger \in Nat /\ MaxLatency \in Nat /\ MaxOverlap \in Nat
    /\ DownCap > FailureThreshold + MaxLatency

VARIABLES
    ledger,     \* the ledger the node is at
    notes,      \* the remediation annotations on the API server
    old,        \* those that a reflector may still hold
    leading,    \* the operators whose is_leader flag is up
    overlap,    \* how long more than one is
    pc,         \* where the pass of each operator is
    view,       \* the annotations it was handed
    cur,        \* the ledger it has seen
    lag,        \* how long it has run
    restarts,   \* history: restarts while the ledger seen was this one
    unsure      \* history: the annotations do not tell of all restarts

pass == <<pc, view, cur, lag>>
history == <<restarts, unsure>>
node == <<ledger, notes, old>>
leads == <<leading, overlap>>
control == <<components, seen, monitor>>
vars == <<control, node, leads, pass, faults, history>>

None == -1
\* last-observed-ledger, the age of last-ledger-update-time, remediation-level, and the
\* age of last-remediation-time.
NoNotes == [ledger |-> None, age |-> 0, level |-> 0, cool |-> None]

Init ==
    /\ ComponentsInit /\ MonitorInit
    /\ ledger = 0 /\ notes = NoNotes /\ old = NoNotes /\ leading = {Self} /\ overlap = 0
    /\ pc = [o \in Operators |-> "idle"] /\ view = [o \in Operators |-> NoNotes]
    /\ cur = [o \in Operators |-> 0] /\ lag = [o \in Operators |-> 0]
    /\ restarts = [l \in 0..MaxLedger |-> 0] /\ unsure = FALSE

EndPass(o) ==
    /\ pc' = [pc EXCEPT ![o] = "idle"] /\ view' = [view EXCEPT ![o] = NoNotes]
    /\ cur' = [cur EXCEPT ![o] = 0] /\ lag' = [lag EXCEPT ![o] = 0]

\* What the gate of o may say.
Gates(o) == IF o = Self THEN {level} ELSE Levels

-----------------------------------------------------------------------------
\* The head of reconcile, where the gate lets the pass of a leader write, up to the health
\* check, which returns the ledger of the node.
StartPass(o) ==
    /\ pc[o] = "idle" /\ o \in leading
    /\ \E l \in Gates(o) : PermitsWrites(l)
    /\ pc' = [pc EXCEPT ![o] = "observed"] /\ cur' = [cur EXCEPT ![o] = ledger]
    /\ \E n \in {notes, old} : view' = [view EXCEPT ![o] = n]
    /\ UNCHANGED <<control, node, leads, lag, faults, history>>

\* check_stale_node.
Stale(o) == view[o].ledger # None /\ cur[o] <= view[o].ledger /\ view[o].age >= StaleAfter

\* can_remediate.
CanRemediate(o) == view[o].cool = None \/ view[o].cool >= Cooldown

\* Mutant of Withheld: the gate is asked about writes.
WithheldWhileFrozen(o, l) == Stale(o) /\ ~PermitsWrites(l)

\* The signal may stem from the degraded control plane.
Withheld(o, l) == Stale(o) /\ ~PermitsDisruption(l)

\* Mutant of Attempted: the level is not looked at.
AttemptedNever(o) == FALSE

\* The recommended action is ClearAndResync, which is left to a human.
Attempted(o) == view[o].level # 0

\* The pass gets past the gate.
Allowed(o) == pc[o] = "observed" /\ \E l \in Gates(o) : ~Withheld(o, l)

Withhold(o) ==
    /\ pc[o] = "observed" /\ \E l \in Gates(o) : Withheld(o, l)
    /\ EndPass(o)
    /\ UNCHANGED <<control, node, leads, faults, history>>

LeaveAlone(o) ==
    /\ Allowed(o) /\ Stale(o) /\ CanRemediate(o) /\ Attempted(o)
    /\ EndPass(o)
    /\ UNCHANGED <<control, node, leads, faults, history>>

ChooseRestart(o) ==
    /\ Allowed(o) /\ Stale(o) /\ CanRemediate(o) /\ ~Attempted(o)
    /\ pc' = [pc EXCEPT ![o] = "restart"]
    /\ UNCHANGED <<control, node, leads, view, cur, lag, faults, history>>

Counted(o) == [restarts EXCEPT ![cur[o]] = Capped(@ + 1, 2)]

\* The annotations on the API server tell o nothing that its copy does not, and no restart
\* for its ledger is about to be recorded.
Current(o) ==
    /\ view[o].ledger = notes.ledger /\ view[o].level = notes.level
    /\ \A q \in Operators : pc[q] = "record" => cur[q] # cur[o]

\* restart_pod has deleted all pods.
RestartPod(o) ==
    /\ pc[o] = "restart"
    /\ pc' = [pc EXCEPT ![o] = "record"]
    /\ restarts' = Counted(o)
    /\ unsure' = (unsure \/ ~Current(o))
    /\ UNCHANGED <<control, node, leads, view, cur, lag, faults>>

\* Mutant of Progressed: the level is stepped down instead of reset.
ProgressedSteppingDown(o) ==
    IF cur[o] > view[o].ledger
    THEN [view[o] EXCEPT !.ledger = cur[o], !.age = 0, !.level = @ - 1] ELSE view[o]

\* update_remediation_state, the ledger.
Progressed(o) ==
    IF cur[o] > view[o].ledger
    THEN [view[o] EXCEPT !.ledger = cur[o], !.age = 0, !.level = 0] ELSE view[o]

\* The annotations n are behind those on the API server.
TakesBack(n) ==
    n.ledger < notes.ledger \/ (n.ledger = notes.ledger /\ n.level < notes.level)

\* The merge patch keeps an annotation that it does not mention.  If the reflectors do
\* not see it at once, they go on holding what they held, or the annotations up to now.
Patch(o, n) ==
    /\ notes' = IF n.cool = None THEN [n EXCEPT !.cool = notes.cool] ELSE n
    /\ \/ old' = notes' /\ UNCHANGED faults
       \/ old' \in {old, notes} /\ Fault
    /\ EndPass(o)
    /\ unsure' = (unsure \/ TakesBack(n))
    /\ UNCHANGED <<control, ledger, leads, restarts>>

Record(o) ==
    /\ pc[o] = "record"
    /\ Patch(o, [Progressed(o) EXCEPT !.level = 1, !.cool = 0])

Update(o) ==
    /\ Allowed(o) /\ ~(Stale(o) /\ CanRemediate(o))
    /\ Patch(o, Progressed(o))

-----------------------------------------------------------------------------
\* The pass of o ends at a request.  Within restart_pod some pods may have been deleted.
Interrupted(o) ==
    /\ Fault
    /\ EndPass(o)
    /\ \E deleted \in BOOLEAN :
          /\ deleted => pc[o] = "restart"
          /\ restarts' = IF deleted THEN Counted(o) ELSE restarts
          /\ unsure' = (unsure \/ deleted \/ pc[o] = "record")
    /\ UNCHANGED node

\* A request fails, or the node does not answer.
Fail(o) ==
    /\ pc[o] # "idle" /\ Interrupted(o)
    /\ UNCHANGED <<control, leads>>

\* The process of o crashes and starts again, not leading.
Crash(o) ==
    /\ Interrupted(o)
    /\ leading' = leading \ {o} /\ UNCHANGED overlap
    /\ IF o = Self THEN MonitorRestarts ELSE UNCHANGED control

\* The flag of o goes up, while another's may still be up.
TakeLead(o) ==
    /\ o \notin leading /\ leading' = leading \cup {o} /\ UNCHANGED overlap
    /\ IF leading = {} THEN UNCHANGED faults ELSE Fault
    /\ UNCHANGED <<control, node, pass, history>>

\* A deposed leader notices.
LoseLead(o) ==
    /\ o \in leading /\ leading # {o} /\ leading' = leading \ {o} /\ UNCHANGED overlap
    /\ UNCHANGED <<control, node, pass, faults, history>>

\* The reflectors have seen the latest patch.
WatchCatchesUp ==
    /\ old # notes /\ old' = notes
    /\ UNCHANGED <<control, ledger, notes, leads, pass, faults, history>>

-----------------------------------------------------------------------------
Others == <<node, leads, pass, history>>

MonitorRound == Round /\ UNCHANGED Others

ComponentChanges(c) == Change(c) /\ UNCHANGED Others

\* The node closes a ledger.
CloseLedger ==
    /\ ledger < MaxLedger /\ ledger' = ledger + 1
    /\ UNCHANGED <<control, notes, old, leads, pass, faults, history>>

Aged(n) ==
    IF n.ledger = None THEN n
    ELSE [n EXCEPT !.age = Capped(@ + 1, StaleAfter),
                   !.cool = IF @ = None THEN None ELSE Capped(@ + 1, Cooldown)]

Contested == \E o, q \in leading : o # q

Tick ==
    /\ Interval
    /\ \A o \in Operators : pc[o] # "idle" => lag[o] < MaxLatency
    /\ lag' = [o \in Operators |-> IF pc[o] = "idle" THEN 0 ELSE lag[o] + 1]
    /\ Contested => overlap < MaxOverlap
    /\ overlap' = IF Contested THEN overlap + 1 ELSE 0
    /\ notes' = Aged(notes) /\ old' = Aged(old)
    /\ view' = [o \in Operators |-> Aged(view[o])]
    /\ UNCHANGED <<ledger, leading, pc, cur, history>>

PassStep(o) ==
    Withhold(o) \/ LeaveAlone(o) \/ ChooseRestart(o) \/ RestartPod(o) \/ Record(o) \/ Update(o)

Next ==
    \/ \E o \in Operators : StartPass(o) \/ PassStep(o)
    \/ \E o \in Operators : Fail(o) \/ Crash(o) \/ TakeLead(o) \/ LoseLead(o)
    \/ MonitorRound \/ (\E c \in Components : ComponentChanges(c))
    \/ WatchCatchesUp \/ CloseLedger \/ Tick

\* Passes are requeued and come to an end, the monitor loop goes on, and time and the
\* watches too; a deposed leader's election loop tells it in the end.
Fairness ==
    /\ \A o \in Operators : WF_vars(StartPass(o) \/ PassStep(o))
    /\ WF_vars(MonitorRound \/ Tick)
    /\ WF_vars(WatchCatchesUp) /\ WF_vars(\E o \in Operators : LoseLead(o))

Spec == Init /\ [][Next]_vars
FairSpec == Spec /\ Fairness

-----------------------------------------------------------------------------
Notes == [ledger : None..MaxLedger, age : 0..StaleAfter, level : 0..1, cool : None..Cooldown]

TypeOK ==
    /\ MonitorTypeOK
    /\ ledger \in 0..MaxLedger /\ notes \in Notes /\ old \in Notes
    /\ leading \subseteq Operators /\ overlap \in 0..MaxOverlap
    /\ pc \in [Operators -> {"idle", "observed", "restart", "record"}]
    /\ view \in [Operators -> Notes] /\ cur \in [Operators -> 0..MaxLedger]
    /\ lag \in [Operators -> 0..MaxLatency]
    /\ restarts \in [0..MaxLedger -> 0..2] /\ unsure \in BOOLEAN

\* "never restart serving pods" on signals of a degraded control plane: once
\* FailureThreshold + MaxLatency conclusive rounds of its own monitor have found a
\* component down throughout, an operator deletes no pod.  The rounds are those since the
\* operator started: one that starts during an outage is at level Normal, and may restart
\* the pods until its own rounds have told.  The lease of a scheduler that has stopped
\* counts as fresh for LeaseGrace more, and inconclusive probes tell nothing.
OutageWithholdsRestart ==
    [][pc[Self] = "restart" /\ pc'[Self] # "restart" =>
          \A c \in Components : downFor[c] <= FailureThreshold + MaxLatency]_vars

\* RemediationLevel: the graduated response restarts the pods once for a standstill,
\* unless a restart went (partly) unrecorded, a pass restarted them on an outdated copy
\* of the annotations or before another's restart was recorded, or a patch took the
\* record back with such a copy.  The code prevents none of the three.
OneRestartPerStandstill == (\E l \in 0..MaxLedger : restarts[l] > 1) => unsure

\* "Full recovery without manual intervention": once everything works for good, the gate
\* of an operator that leads for good is open for good, and a node that stands still (no
\* ledger is closed past the bound) has been restarted.  Probes that stay inconclusive
\* would hold the level: they are among the faults, which come to an end.
RecoversByItself ==
    <>[](down = {} /\ Self \in leading) => <>[](level = "Normal" /\ restarts[ledger] > 0)
=============================================================================
