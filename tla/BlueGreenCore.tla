---------------------------- MODULE BlueGreenCore ----------------------------
(***************************************************************************)
(* Blue/green rollout of one validator (src/controller/blue_green_core.rs).*)
(*                                                                         *)
(* A pass of reconcile_validator_blue_green works on the copy of the       *)
(* StellarNode it was handed (view).  It alternates between decisions,     *)
(* which read the cluster, and API writes, one per step: a decision leaves *)
(* the writes it leads to in todo, and the pass may be cut short before    *)
(* any of them (API error, crash of the operator).  Kubernetes, the pods   *)
(* and the user take steps in between, and between the reads of a step of  *)
(* the cutover, each of which is an await.                                 *)
(*                                                                         *)
(* Hazards switches on what the environment may do to a pass:              *)
(*   staleCache  a pass may be handed the node as it was some time ago     *)
(*   lostPatch   a patch whose result the code discards (let _) may fail   *)
(*   fixedSelector  the API server refuses to change spec.selector of a    *)
(*               StatefulSet, which holds the role; else a change is taken *)
(*               as the code expects                                       *)
(***************************************************************************)
EXTENDS Naturals, Sequences

CONSTANTS
    Versions,         \* spec.version
    NoVersion,        \* no StatefulSet, or no bg-blue-version annotation
    Tokens, NoToken,  \* publish-rollout tokens (the times of the rollouts)
    Snaps, NoSnap,    \* VolumeSnapshot names; as many as the quota admits
    RequireSnapshot,  \* blueGreen.requireVolumeSnapshot
    Hazards,          \* see above
    MaxFaults,        \* bound on aborted passes, lost patches and pod failures
    MaxEdits          \* bound on the user's changes

ASSUME BlueGreenAssumption ==
    /\ NoVersion \notin Versions /\ NoToken \notin Tokens /\ NoSnap \notin Snaps
    /\ {"blue", "green"} \cap (Tokens \cup {NoToken}) = {}   \* seen holds both kinds
    /\ RequireSnapshot \in BOOLEAN
    /\ Hazards \subseteq {"staleCache", "lostPatch", "fixedSelector"}
    /\ MaxFaults \in Nat /\ MaxEdits \in Nat

Colors == {"blue", "green"}
Phases == {"BlueActive", "PreparingGreen", "WaitingForGreen", "CuttingOver",
           "GreenActive", "RollingBack", "Failed", "UpgradeDeferred"}
CutoverSteps == {"ScaleBlueDown", "WaitBlueDown", "EnableGreenPublish",
                 "WaitGreenHealthy", "SwitchService", "Complete"}
RollbackSteps == {"StopGreen", "ScaleBlueUp", "WaitBlueHealthy", "SwitchService", "Complete"}

VARIABLES
    node,     \* the StellarNode on the API server
    cache,    \* an older copy of it that the reflector still hands out, or Idle
    sts,      \* the two StatefulSets (ver = NoVersion: absent)
    cm,       \* the green ConfigMap: "none", "standby" or "publishing"
    svc,      \* the color the primary Service selects
    pvc,      \* the green PVC: "none", "blank" or the snapshot it was made from
    snaps,    \* VolumeSnapshots that exist
    usable,   \* those with readyToUse
    pod,      \* the pod of each StatefulSet
    pc,       \* where the running pass is
    view,     \* the StellarNode it works on
    ph,       \* its local phase
    step,     \* its local cutover or rollback step
    token,    \* its local expected_rollout
    read,     \* what the reads of the running decision returned so far
    todo,     \* API writes it has still to make
    faults, edits,
    seen      \* history: "blue" if a blue pod has been healthy since blue was scaled
              \* down, and of green's current template its token once a pod of it has
              \* started and "green" once one has been healthy

cluster == <<sts, cm, svc, pvc, snaps>>
kubelet == <<usable, pod>>
locals == <<view, ph, step, token, read>>
vars == <<node, cache, cluster, kubelet, pc, locals, todo, faults, edits, seen>>

\* spec.version, then status, then the annotations of the rollout.
NewNode(v) ==
    [ver |-> v, sPhase |-> "none", sColor |-> "none",
     phase |-> "none", color |-> "none", cut |-> "none", rb |-> "none",
     blueVer |-> NoVersion, snap |-> NoSnap, token |-> NoToken,
     retry |-> "none", started |-> "none"]

\* A merge patch: the fields of p replace or extend those of n.
Merge(n, p) == [f \in DOMAIN n \cup DOMAIN p |-> IF f \in DOMAIN p THEN p[f] ELSE n[f]]

NoSts == [ver |-> NoVersion, tok |-> NoToken, role |-> "standby", replicas |-> 0]
NoPod == [st |-> "none", term |-> FALSE, ver |-> NoVersion, tok |-> NoToken,
          role |-> "standby", pub |-> FALSE]
NoRead == [blueDown |-> FALSE, health |-> FALSE]
Idle == NewNode(NoVersion)

Init ==
    /\ \E v \in Versions : node = NewNode(v)
    /\ cache = Idle
    /\ sts = [c \in Colors |-> NoSts]
    /\ cm = "none" /\ svc = "none" /\ pvc = "none" /\ snaps = {}
    /\ usable = {} /\ pod = [c \in Colors |-> NoPod]
    /\ pc = "idle" /\ view = Idle /\ ph = "none" /\ step = "none"
    /\ token = NoToken /\ read = NoRead /\ todo = <<>>
    /\ faults = 0 /\ edits = 0 /\ seen = {}

-----------------------------------------------------------------------------
(* What the code reads from the node and from the cluster.                 *)

ReadPhase(n) == IF n.sPhase # "none" THEN n.sPhase
                ELSE IF n.phase # "none" THEN n.phase ELSE "BlueActive"
ReadActiveColor(n) == IF n.sColor # "none" THEN n.sColor
                      ELSE IF n.color # "none" THEN n.color ELSE "blue"

\* Mutant of ReadCutoverStep: an absent annotation is not defaulted.
ReadCutoverStepRaw(n) == n.cut

ReadCutoverStep(n) == IF n.cut = "none" THEN "ScaleBlueDown" ELSE n.cut
ReadRollbackStep(n) == IF n.rb = "none" THEN "StopGreen" ELSE n.rb
RetryRequested(n) == n.retry = "true"

\* The version blue is kept at: the annotation, else the desired version.
BlueVersion(n) == IF n.blueVer # NoVersion THEN n.blueVer ELSE n.ver

PodReady(c) == pod[c].st \in {"ready", "synced"}
StsFullyDown(c) == sts[c].replicas = 0 /\ pod[c].st = "none"

\* Mutant of BlueFullyDown: the pods are not looked at.
BlueScaledDown == sts["blue"].replicas = 0

BlueFullyDown == StsFullyDown("blue") /\ ~PodReady("blue")

\* evaluate_cutover_gate with a reference: within the lag if there is one to compare.
Synced(c) == pod[c].st = "synced"
Gate(c, ref, lagOk) == Synced(c) /\ (pod[ref].st = "none" \/ lagOk)

\* Mutant of GreenPublishRolloutObserved: health alone is enough.
HealthIsEnough(expected) == TRUE

GreenPublishRolloutObserved(expected) ==
    expected # NoToken /\ pod["green"].tok = expected

-----------------------------------------------------------------------------
(* The pure planners.                                                      *)

EnforceCutoverSafety(s, blueDown) ==
    IF ~blueDown /\ s \in {"EnableGreenPublish", "WaitGreenHealthy", "SwitchService"}
    THEN "WaitBlueDown" ELSE s

\* Mutant of PlanCutoverAdvance: WaitBlueDown does not wait.
PlanCutoverEagerly(s, blueDown, eligible) ==
    CASE s = "ScaleBlueDown" -> "ScaleBlueToZero"
      [] s = "WaitBlueDown" -> "EnableGreenPublishingAndRestart"
      [] s = "WaitGreenHealthy" /\ eligible -> "SwitchServiceToGreenAndFinish"
      [] OTHER -> "Wait"

PlanCutoverAdvance(s, blueDown, eligible) ==
    CASE s = "ScaleBlueDown" -> "ScaleBlueToZero"
      [] s = "WaitBlueDown" /\ blueDown -> "EnableGreenPublishingAndRestart"
      [] s = "WaitGreenHealthy" /\ eligible -> "SwitchServiceToGreenAndFinish"
      [] OTHER -> "Wait"

\* Mutant of PlanRollbackAdvance: ScaleBlueUp is taken for already applied.
PlanRollbackWithoutBlue(s, eligible) ==
    CASE s = "StopGreen" -> "ScaleGreenToZero"
      [] s = "WaitBlueHealthy" /\ eligible -> "SwitchServiceToBlueAndFinish"
      [] OTHER -> "Wait"

PlanRollbackAdvance(s, eligible) ==
    CASE s = "StopGreen" -> "ScaleGreenToZero"
      [] s = "ScaleBlueUp" -> "ScaleBlueToOne"
      [] s = "WaitBlueHealthy" /\ eligible -> "SwitchServiceToBlueAndFinish"
      [] OTHER -> "Wait"

-----------------------------------------------------------------------------
(* The API writes, as members of todo.                                     *)

ApplySts(c, role, replicas, ver, tok) ==
    <<[op |-> "sts", color |-> c,
       sts |-> [ver |-> ver, tok |-> tok, role |-> role, replicas |-> replicas]]>>
ApplyCm(mode) == <<[op |-> "cm", mode |-> mode]>>
ApplySvc(c) == <<[op |-> "svc", color |-> c]>>
CreatePvc(src) == <<[op |-> "pvc", src |-> src]>>
PatchNode(p) == <<[op |-> "node", patch |-> p]>>
PatchNodeIgnoringErrors(p) == <<[op |-> "node?", patch |-> p]>>
CleanupGreenResources == <<[op |-> "cleanup?"]>> \o <<[op |-> "cleanCm?"]>>

\* patch_node_progress: the annotations, then the status, whose failure is ignored.
\* opt holds the arguments that are Some(_); the snapshot name is written if known.
Progress(phase, color, snap, opt) ==
    PatchNode(Merge(Merge([phase |-> phase, color |-> color], opt),
                    IF snap = NoSnap THEN <<>> ELSE [snap |-> snap]))
    \o PatchNodeIgnoringErrors([sPhase |-> phase, sColor |-> color])

Nothing == <<>>

-----------------------------------------------------------------------------
(* Running a pass.                                                         *)

\* The pass goes on at p after the writes w.
Goto(p, w) == pc' = p /\ todo' = w
Finish(w) == Goto("end", w)

\* A decision is taken at p once the writes of the one before it are done.
At(p) == pc = p /\ todo = <<>>

Reset == view' = Idle /\ ph' = "none" /\ step' = "none" /\ token' = NoToken /\ read' = NoRead

\* A pass is handed the node as it is, or the older copy where there is one; after
\* either the watch has moved on.
Begin ==
    /\ pc = "idle"
    /\ \/ view' = node
       \/ cache # Idle /\ view' = cache
    /\ cache' = Idle
    /\ LET retry == ReadPhase(view') = "Failed" /\ RetryRequested(view')
       IN  /\ ph' = IF retry THEN "BlueActive" ELSE ReadPhase(view')
           /\ Goto("decide",
                   IF retry THEN PatchNode([retry |-> "none"])
                                 \o Progress("BlueActive", "blue", NoSnap, Nothing)
                            ELSE <<>>)
    /\ UNCHANGED <<node, cluster, kubelet, step, token, read, faults, edits, seen>>

End ==
    /\ At("end")
    /\ pc' = "idle"
    /\ Reset
    /\ UNCHANGED <<node, cache, cluster, kubelet, todo, faults, edits, seen>>

unmoved == <<node, cache, cluster, kubelet, faults, edits, seen>>

\* Blue's version as deployed, else as annotated.
DeployedBlue == IF sts["blue"].ver # NoVersion THEN sts["blue"].ver ELSE view.blueVer
NeedsUpgrade == /\ DeployedBlue \notin {NoVersion, view.ver}
                /\ ReadActiveColor(view) = "blue"
GreenSide == \/ ph \in {"GreenActive", "UpgradeDeferred"}
             \/ ph # "RollingBack" /\ ReadActiveColor(view) = "green"
GreenOutdated == sts["green"].ver \notin {NoVersion, view.ver}

\* Green publishes and has the Service, blue is kept at 0 replicas.
KeepGreen ==
    ApplyCm("publishing")
    \o ApplySts("green", "active", 1, view.ver, view.token)
    \o ApplySvc("green")
    \o ApplySts("blue", "standby", 0, BlueVersion(view), NoToken)

\* Green is active and another version is wanted: the rollout is deferred.
DeferUpgrade ==
    /\ At("decide") /\ GreenSide /\ GreenOutdated
    /\ Finish(Progress("UpgradeDeferred", "green", view.snap, Nothing) \o KeepGreen)
    /\ UNCHANGED <<locals, unmoved>>

StayDeferred ==
    /\ At("decide") /\ GreenSide /\ ~GreenOutdated /\ ph = "UpgradeDeferred"
    /\ Finish(<<>>)
    /\ UNCHANGED <<locals, unmoved>>

\* maintain_green_active, up to its health check.
MaintainGreen ==
    /\ At("decide") /\ GreenSide /\ ~GreenOutdated /\ ph # "UpgradeDeferred"
    /\ Goto("health", KeepGreen)
    /\ UNCHANGED <<locals, unmoved>>

KeepFailed ==
    /\ At("decide") /\ ~GreenSide /\ ph = "Failed"
    /\ Finish(ApplySts("blue", "active", 1, view.ver, NoToken) \o ApplySvc("blue"))
    /\ UNCHANGED <<locals, unmoved>>

MaintainBlue ==
    /\ At("decide") /\ ~GreenSide /\ ph = "BlueActive" /\ ~NeedsUpgrade
    /\ Finish(ApplySts("blue", "active", 1, view.ver, NoToken) \o ApplySvc("blue")
               \o Progress("BlueActive", "blue", NoSnap, Nothing))
    /\ UNCHANGED <<locals, unmoved>>

\* Mutant of KeepBluePublishing: the replicas of a suspended node.
KeepBlueScaledDown ==
    ApplySts("blue", "active", 0, BlueVersion(view), NoToken) \o ApplySvc("blue")

\* Blue stays up at its own version while green is prepared.
KeepBluePublishing ==
    ApplySts("blue", "active", 1,
             IF view.blueVer # NoVersion THEN view.blueVer
             ELSE IF DeployedBlue # NoVersion THEN DeployedBlue ELSE view.ver,
             NoToken)
    \o ApplySvc("blue")

StartRollout ==
    /\ At("decide") /\ ~GreenSide /\ ph = "BlueActive" /\ NeedsUpgrade
    /\ ph' = "PreparingGreen"
    /\ Goto("prepare",
            PatchNodeIgnoringErrors([started |-> "set", blueVer |-> DeployedBlue,
                                     phase |-> "PreparingGreen", cut |-> "none", rb |-> "none"])
            \o KeepBluePublishing)
    /\ UNCHANGED <<view, step, token, read, unmoved>>

Resume ==
    /\ At("decide") /\ ~GreenSide
    /\ \/ /\ ph = "PreparingGreen"
          /\ Goto("prepare", KeepBluePublishing)
          /\ UNCHANGED <<step, token>>
       \/ /\ ph = "WaitingForGreen"
          /\ Goto("wait", KeepBluePublishing)
          /\ UNCHANGED <<step, token>>
       \/ /\ ph = "CuttingOver"
          /\ step' = ReadCutoverStep(view) /\ token' = view.token
          /\ Goto("cutover", <<>>)
       \/ /\ ph = "RollingBack"
          /\ step' = ReadRollbackStep(view)
          /\ Goto("rollback", <<>>)
          /\ UNCHANGED token
    /\ UNCHANGED <<view, ph, read, unmoved>>

-----------------------------------------------------------------------------
(* PreparingGreen.                                                         *)

CreateSnapshot ==
    /\ At("prepare") /\ RequireSnapshot /\ view.snap = NoSnap
    /\ snaps # Snaps
    /\ LET s == CHOOSE t \in Snaps : t \notin snaps
       IN  snaps' = snaps \cup {s} /\ view' = [view EXCEPT !.snap = s]
    /\ UNCHANGED <<node, cache, sts, cm, svc, pvc, kubelet, pc, ph, step, token, read, todo,
                   faults, edits, seen>>

\* The quota is used up: the create fails and ends the pass.
SnapshotRefused ==
    /\ At("prepare") /\ RequireSnapshot /\ view.snap = NoSnap
    /\ snaps = Snaps
    /\ pc' = "idle" /\ Reset
    /\ UNCHANGED <<todo, unmoved>>

AwaitSnapshot ==
    /\ At("prepare") /\ RequireSnapshot /\ view.snap # NoSnap /\ view.snap \notin usable
    /\ Finish(Progress("PreparingGreen", "blue", view.snap, Nothing))
    /\ UNCHANGED <<locals, unmoved>>

\* What CreateGreen does once the snapshot, if one is required, is snap.
SeedGreen(snap) ==
    /\ Finish(CreatePvc(IF RequireSnapshot THEN snap ELSE "blank")
               \o ApplyCm("standby")
               \o ApplySts("green", "standby", 1, view.ver, NoToken)
               \o Progress("WaitingForGreen", "blue",
                           IF RequireSnapshot THEN snap ELSE NoSnap, Nothing))
    /\ UNCHANGED <<locals, unmoved>>

\* Mutant of CreateGreen: the snapshot need only exist.
CreateGreenEarly ==
    At("prepare") /\ (RequireSnapshot => view.snap \in snaps) /\ SeedGreen(view.snap)

CreateGreen ==
    At("prepare") /\ (RequireSnapshot => view.snap \in usable) /\ SeedGreen(view.snap)

-----------------------------------------------------------------------------
(* WaitingForGreen.                                                        *)

\* readyTimeoutSeconds may have elapsed at any look at a started rollout.
TimeOut ==
    /\ At("wait") /\ view.started = "set"
    /\ Finish(CleanupGreenResources \o Progress("Failed", "blue", view.snap, Nothing))
    /\ UNCHANGED <<locals, unmoved>>

AwaitGreen ==
    /\ At("wait")
    /\ \E lagOk \in BOOLEAN : ~Gate("green", "blue", lagOk)
    /\ Finish(Progress("WaitingForGreen", "blue", view.snap, Nothing))
    /\ UNCHANGED <<locals, unmoved>>

EnterCutover ==
    /\ At("wait")
    /\ \E lagOk \in BOOLEAN : Gate("green", "blue", lagOk)
    /\ step' = ReadCutoverStep(view) /\ token' = view.token
    /\ Goto("cutover", Progress("CuttingOver", "blue", view.snap, [cut |-> "ScaleBlueDown"]))
    /\ UNCHANGED <<view, ph, read, unmoved>>

-----------------------------------------------------------------------------
(* CuttingOver: one iteration of run_cutover_steps.                        *)

\* First read: is blue down.
ReadBlueDown ==
    /\ At("cutover")
    /\ read' = [blueDown |-> BlueFullyDown, health |-> FALSE]
    /\ pc' = "cutoverHealth"
    /\ UNCHANGED <<view, ph, step, token, todo, unmoved>>

\* Second: is green healthy, compared with blue if there is one.
ReadGreenHealth ==
    /\ At("cutoverHealth")
    /\ \E lagOk \in BOOLEAN : read' = [read EXCEPT !.health = Gate("green", "blue", lagOk)]
    /\ pc' = "cutoverStep"
    /\ UNCHANGED <<view, ph, step, token, todo, unmoved>>

\* Third: the token on the green pod; then the planner decides.
CutoverCommand(s) ==
    PlanCutoverAdvance(s, read.blueDown,
                       read.health /\ GreenPublishRolloutObserved(token))

ClampedStep == EnforceCutoverSafety(step, read.blueDown)

ScaleBlueToZero ==
    /\ At("cutoverStep") /\ CutoverCommand(ClampedStep) = "ScaleBlueToZero"
    /\ step' = "WaitBlueDown"
    /\ Goto("cutover",
            ApplySts("blue", "standby", 0, BlueVersion(view), NoToken)
            \o ApplySvc("blue") \o ApplyCm("standby")
            \o Progress("CuttingOver", "blue", view.snap, [cut |-> "WaitBlueDown"]))
    /\ UNCHANGED <<view, ph, token, read, unmoved>>

\* Tokens a fresh timestamp cannot be equal to.
TokensInUse == {node.token, cache.token, view.token, sts["green"].tok, pod["green"].tok} \cup seen

EnableGreenPublishingAndRestart ==
    /\ At("cutoverStep") /\ CutoverCommand(ClampedStep) = "EnableGreenPublishingAndRestart"
    /\ step' = "WaitGreenHealthy"
    /\ Tokens \ TokensInUse # {}
    /\ token' = CHOOSE t \in Tokens : t \notin TokensInUse
    /\ Goto("cutover",
            ApplyCm("publishing")
            \o ApplySts("green", "active", 1, view.ver, token')
            \o PatchNodeIgnoringErrors([token |-> token'])
            \o Progress("CuttingOver", "blue", view.snap, [cut |-> "WaitGreenHealthy"]))
    /\ UNCHANGED <<view, ph, read, unmoved>>

SwitchServiceToGreen ==
    /\ At("cutoverStep") /\ CutoverCommand(ClampedStep) = "SwitchServiceToGreenAndFinish"
    /\ Finish(ApplySvc("green")
               \o PatchNodeIgnoringErrors([cut |-> "Complete"])
               \o Progress("GreenActive", "green", view.snap, [cut |-> "Complete"]))
    /\ UNCHANGED <<locals, unmoved>>

CutoverWait ==
    /\ At("cutoverStep") /\ CutoverCommand(ClampedStep) = "Wait"
    /\ Finish(Progress("CuttingOver", "blue", view.snap, [cut |-> ClampedStep]))
    /\ UNCHANGED <<locals, unmoved>>

-----------------------------------------------------------------------------
(* GreenActive: the health check at the end of maintain_green_active.      *)

GreenHealthy ==
    /\ At("health") /\ Synced("green")
    /\ Finish(Progress("GreenActive", "green", view.snap, [cut |-> "Complete"]))
    /\ UNCHANGED <<locals, unmoved>>

StartRollback ==
    /\ At("health") /\ ~Synced("green")
    /\ step' = ReadRollbackStep(view)
    /\ Goto("rollback", Progress("RollingBack", "green", view.snap, [rb |-> "StopGreen"]))
    /\ UNCHANGED <<view, ph, token, read, unmoved>>

-----------------------------------------------------------------------------
(* RollingBack: one iteration of run_rollback_steps.                       *)

RollbackCommand == PlanRollbackAdvance(step, Synced("blue"))

ScaleGreenToZero ==
    /\ At("rollback") /\ RollbackCommand = "ScaleGreenToZero"
    /\ step' = "ScaleBlueUp"
    /\ Goto("rollback",
            ApplyCm("standby") \o ApplySts("green", "standby", 0, view.ver, NoToken)
            \o Progress("RollingBack", "green", view.snap, [rb |-> "ScaleBlueUp"]))
    /\ UNCHANGED <<view, ph, token, read, unmoved>>

ScaleBlueToOne ==
    /\ At("rollback") /\ RollbackCommand = "ScaleBlueToOne"
    /\ step' = "WaitBlueHealthy"
    /\ Goto("rollback",
            ApplySts("blue", "active", 1, BlueVersion(view), NoToken)
            \o Progress("RollingBack", "green", view.snap, [rb |-> "WaitBlueHealthy"]))
    /\ UNCHANGED <<view, ph, token, read, unmoved>>

SwitchServiceToBlue ==
    /\ At("rollback") /\ RollbackCommand = "SwitchServiceToBlueAndFinish"
    /\ Finish(ApplySvc("blue")
               \o Progress("BlueActive", "blue", view.snap, [rb |-> "Complete"]))
    /\ UNCHANGED <<locals, unmoved>>

RollbackWait ==
    /\ At("rollback") /\ RollbackCommand = "Wait"
    /\ Finish(Progress("RollingBack", "green", view.snap, [rb |-> step]))
    /\ UNCHANGED <<locals, unmoved>>

Decide ==
    \/ Begin \/ End
    \/ DeferUpgrade \/ StayDeferred \/ MaintainGreen \/ KeepFailed \/ MaintainBlue
    \/ StartRollout \/ Resume
    \/ CreateSnapshot \/ SnapshotRefused \/ AwaitSnapshot \/ CreateGreen
    \/ TimeOut \/ AwaitGreen \/ EnterCutover
    \/ ReadBlueDown \/ ReadGreenHealth \/ ScaleBlueToZero \/ EnableGreenPublishingAndRestart
    \/ SwitchServiceToGreen \/ CutoverWait
    \/ GreenHealthy \/ StartRollback
    \/ ScaleGreenToZero \/ ScaleBlueToOne \/ SwitchServiceToBlue \/ RollbackWait

-----------------------------------------------------------------------------
(* The writes of a pass, in order.                                         *)

NextWrite(op) == todo # <<>> /\ Head(todo).op = op
Written == todo' = Tail(todo) /\ UNCHANGED <<cache, kubelet, pc, locals, edits>>

\* The selector would change: set_sts_identity puts the role label into it.
SelectorChanges(w) == sts[w.color].ver # NoVersion /\ sts[w.color].role # w.sts.role
Refused(w) == "fixedSelector" \in Hazards /\ SelectorChanges(w)

WriteSts ==
    /\ NextWrite("sts") /\ ~Refused(Head(todo))
    /\ LET w == Head(todo) IN
          /\ sts' = [sts EXCEPT ![w.color] = w.sts]
          /\ seen' = IF w.color = "green" THEN seen \cap {"blue", w.sts.tok}
                     ELSE IF w.sts.replicas = 0 THEN seen \ {"blue"} ELSE seen
    /\ Written
    /\ UNCHANGED <<node, cm, svc, pvc, snaps, faults>>

\* The apply of the StatefulSet is refused, which ends the pass.
RefuseSts ==
    /\ NextWrite("sts") /\ Refused(Head(todo))
    /\ pc' = "idle" /\ todo' = <<>> /\ Reset
    /\ UNCHANGED unmoved

WriteCm ==
    /\ NextWrite("cm")
    /\ cm' = Head(todo).mode
    /\ Written
    /\ UNCHANGED <<node, sts, svc, pvc, snaps, faults, seen>>

WriteSvc ==
    /\ NextWrite("svc")
    /\ svc' = Head(todo).color
    /\ Written
    /\ UNCHANGED <<node, sts, cm, pvc, snaps, faults, seen>>

\* An existing PVC is left as it is.
WritePvc ==
    /\ NextWrite("pvc")
    /\ pvc' = IF pvc = "none" THEN Head(todo).src ELSE pvc
    /\ Written
    /\ UNCHANGED <<node, sts, cm, svc, snaps, faults, seen>>

WriteNode ==
    /\ NextWrite("node") \/ NextWrite("node?")
    /\ node' = Merge(node, Head(todo).patch)
    /\ Written
    /\ UNCHANGED <<cluster, faults, seen>>

\* cleanup_green_resources deletes the StatefulSet, then the ConfigMap; no PVC.
WriteCleanup ==
    /\ \/ /\ NextWrite("cleanup?")
          /\ sts' = [sts EXCEPT !["green"] = NoSts]
          /\ seen' = seen \cap {"blue"}
          /\ UNCHANGED cm
       \/ /\ NextWrite("cleanCm?")
          /\ cm' = "none"
          /\ UNCHANGED <<sts, seen>>
    /\ Written
    /\ UNCHANGED <<node, svc, pvc, snaps, faults>>

Fault == faults < MaxFaults /\ faults' = faults + 1

\* An error the code discards: the pass goes on as if the write had been made.  A failed
\* delete of the StatefulSet skips the one of the ConfigMap.
LoseWrite ==
    /\ "lostPatch" \in Hazards
    /\ Fault
    /\ \/ (NextWrite("node?") \/ NextWrite("cleanCm?")) /\ todo' = Tail(todo)
       \/ NextWrite("cleanup?") /\ todo' = SubSeq(todo, 3, Len(todo))
    /\ UNCHANGED <<cache, kubelet, pc, locals, edits, node, cluster, seen>>

\* Any other error ends the pass (?), and so does a crash of the operator.
Abort ==
    /\ pc # "idle"
    /\ Fault
    /\ pc' = "idle" /\ todo' = <<>> /\ Reset
    /\ UNCHANGED <<node, cache, cluster, kubelet, edits, seen>>

Write == WriteSts \/ RefuseSts \/ WriteCm \/ WriteSvc \/ WritePvc \/ WriteNode \/ WriteCleanup

-----------------------------------------------------------------------------
(* The environment (external): watch, user, CSI driver, StatefulSet        *)
(* controller and kubelet.                                                 *)

running == <<pc, locals, todo>>

\* The watch falls behind: what the node is now is what the next pass may be handed.
WatchLags ==
    /\ "staleCache" \in Hazards /\ cache = Idle
    /\ cache' = node
    /\ Fault
    /\ UNCHANGED <<node, cluster, kubelet, running, edits, seen>>

Edit(n) ==
    /\ edits < MaxEdits
    /\ node' = n /\ edits' = edits + 1
    /\ UNCHANGED <<cache, cluster, kubelet, running, faults, seen>>

SetVersion == \E v \in Versions \ {node.ver} : Edit([node EXCEPT !.ver = v])
RequestRetry == node.retry = "none" /\ Edit([node EXCEPT !.retry = "true"])

SnapshotReady ==
    /\ \E s \in snaps \ usable : usable' = usable \cup {s}
    /\ UNCHANGED <<node, cache, cluster, pod, running, faults, edits, seen>>

PodStep(c, p) ==
    /\ pod' = [pod EXCEPT ![c] = p]
    /\ UNCHANGED <<node, cache, cluster, usable, running, edits>>

\* NODE_IS_VALIDATOR as the process reads it when it starts.
Publishes(c) == c = "blue" \/ cm = "publishing"

PodCreate(c) ==
    /\ pod[c].st = "none" /\ sts[c].ver # NoVersion /\ sts[c].replicas = 1
    /\ c = "green" => cm # "none"
    /\ PodStep(c, [st |-> "up", term |-> FALSE, ver |-> sts[c].ver, tok |-> sts[c].tok,
                   role |-> sts[c].role, pub |-> Publishes(c)])
    /\ seen' = IF c = "green" THEN seen \cup {sts[c].tok} ELSE seen
    /\ UNCHANGED faults

PodBecomesReady(c) ==
    /\ pod[c].st = "up" /\ ~pod[c].term
    /\ PodStep(c, [pod[c] EXCEPT !.st = "ready"])
    /\ UNCHANGED <<faults, seen>>

PodBecomesSynced(c) ==
    /\ pod[c].st = "ready" /\ ~pod[c].term
    /\ PodStep(c, [pod[c] EXCEPT !.st = "synced"])
    /\ seen' = IF c = "blue" \/ pod[c].tok = sts[c].tok THEN seen \cup {c} ELSE seen
    /\ UNCHANGED faults

\* The StatefulSet no longer wants this pod: scaled down, deleted or a new template.
Unwanted(c) ==
    \/ sts[c].replicas = 0
    \/ \E f \in {"ver", "tok", "role"} : pod[c][f] # sts[c][f]

PodTerminate(c) ==
    /\ pod[c].st # "none" /\ ~pod[c].term /\ Unwanted(c)
    /\ PodStep(c, [pod[c] EXCEPT !.term = TRUE])
    /\ UNCHANGED <<faults, seen>>

PodGone(c) ==
    /\ pod[c].term
    /\ PodStep(c, NoPod)
    /\ UNCHANGED <<faults, seen>>

\* The container restarts and reads its configuration again, or Core loses sync.
PodFails(c) ==
    /\ pod[c].st \in {"ready", "synced"} /\ ~pod[c].term
    /\ \/ PodStep(c, [pod[c] EXCEPT !.st = "up", !.pub = Publishes(c)])
       \/ PodStep(c, [pod[c] EXCEPT !.st = "ready"])
    /\ Fault
    /\ UNCHANGED seen

PodEvicted(c) ==
    /\ pod[c].st # "none" /\ ~pod[c].term
    /\ PodStep(c, [pod[c] EXCEPT !.term = TRUE])
    /\ Fault
    /\ UNCHANGED seen

Settle(c) == PodCreate(c) \/ PodBecomesReady(c) \/ PodBecomesSynced(c) \/ PodTerminate(c) \/ PodGone(c)

Next ==
    \/ Decide \/ Write \/ LoseWrite \/ Abort
    \/ WatchLags \/ SetVersion \/ RequestRetry \/ SnapshotReady
    \/ \E c \in Colors : Settle(c) \/ PodFails(c) \/ PodEvicted(c)

\* The controller requeues every node, so passes follow one another; Kubernetes
\* settles the pods it owns.
Fairness ==
    /\ WF_vars(Decide) /\ WF_vars(Write) /\ WF_vars(SnapshotReady)
    /\ \A c \in Colors : SF_vars(Settle(c))

Spec == Init /\ [][Next]_vars
FairSpec == Spec /\ Fairness

-----------------------------------------------------------------------------
NodeType ==
    [ver : Versions \cup {NoVersion}, sPhase : Phases \cup {"none"}, sColor : Colors \cup {"none"},
     phase : Phases \cup {"none"}, color : Colors \cup {"none"},
     cut : CutoverSteps \cup {"none"}, rb : RollbackSteps \cup {"none"},
     blueVer : Versions \cup {NoVersion}, snap : Snaps \cup {NoSnap}, token : Tokens \cup {NoToken},
     retry : {"none", "true"}, started : {"none", "set"}]
TemplateType ==
    [ver : Versions \cup {NoVersion}, tok : Tokens \cup {NoToken}, role : {"active", "standby"},
     replicas : {0, 1}]
PodType ==
    [st : {"none", "up", "ready", "synced"}, term : BOOLEAN, ver : Versions \cup {NoVersion},
     tok : Tokens \cup {NoToken}, role : {"active", "standby"}, pub : BOOLEAN]

\* Every variable has its type; a running cutover or rollback is at a step of its own.
TypeOK ==
    /\ node \in NodeType /\ cache \in NodeType /\ view \in NodeType
    /\ sts \in [Colors -> TemplateType]
    /\ cm \in {"none", "standby", "publishing"}
    /\ svc \in Colors \cup {"none"}
    /\ pvc \in Snaps \cup {"none", "blank"}
    /\ snaps \subseteq Snaps /\ usable \subseteq snaps
    /\ pod \in [Colors -> PodType]
    /\ pc \in {"idle", "decide", "prepare", "wait", "cutover", "cutoverHealth", "cutoverStep",
               "health", "rollback", "end"}
    /\ ph \in Phases \cup {"none"}
    /\ pc \in {"cutover", "cutoverHealth", "cutoverStep"} => step \in CutoverSteps
    /\ pc = "rollback" => step \in RollbackSteps
    /\ token \in Tokens \cup {NoToken}
    /\ read \in [blueDown : BOOLEAN, health : BOOLEAN]
    /\ \A i \in DOMAIN todo :
          \/ todo[i].op \in {"node", "node?"} /\ Merge(node, todo[i].patch) \in NodeType
          \/ todo[i] \in [op : {"sts"}, color : Colors, sts : TemplateType]
          \/ todo[i] \in [op : {"cm"}, mode : {"standby", "publishing"}]
          \/ todo[i] \in [op : {"svc"}, color : Colors]
          \/ todo[i] \in [op : {"pvc"}, src : Snaps \cup {"blank"}]
          \/ todo[i].op \in {"cleanup?", "cleanCm?"}
    /\ faults \in 0..MaxFaults /\ edits \in 0..MaxEdits
    /\ seen \subseteq Tokens \cup {NoToken, "blue", "green"}

Publishing(c) == pod[c].st # "none" /\ pod[c].pub
BeingStopped(c) == pod[c].term \/ Unwanted(c)

\* Runbook: no "dual-active publishing of the same validator identity".
NoDualPublishing == ~(Publishing("blue") /\ Publishing("green"))

\* Header of blue_green_core.rs: cutover serializes identity.  Both colors publish
\* only while a rollback is already taking green down, never in a cutover.  It holds as
\* long as a pass works on the node as it is and no discarded patch fails: with staleCache
\* or lostPatch both colors may be left publishing.
CutoverSerializesIdentity ==
    Publishing("blue") /\ Publishing("green") => BeingStopped("green")

\* A green pod starts to publish only when no blue pod exists.
GreenPublishesAlone ==
    [][~Publishing("green") /\ Publishing("green")' => pod["blue"].st = "none"]_vars

\* Header of blue_green_core.rs: the "Service selector switches only after green is
\* publishing, has observed the current publish-rollout token, and is healthy".  When the
\* Service moves to green, a green pod of the current rollout has been Ready and Synced.
SwitchEvidence == [][svc = "blue" /\ svc' = "green" => "green" \in seen]_vars

\* The Service moves to green only once blue is down and a green pod of the current
\* publish rollout has started, however pods come and go between the reads of a step and
\* wherever passes are cut short; and it moves back only once blue, scaled up again, has
\* been Ready and Synced.
SwitchFollowsRollout ==
    [][/\ svc = "blue" /\ svc' = "green" =>
            /\ sts["green"].tok # NoToken /\ sts["green"].tok \in seen
            /\ sts["blue"].replicas = 0 /\ pod["blue"].st = "none"
       /\ svc = "green" /\ svc' = "blue" => "blue" \in seen]_vars

\* Green's volume always comes from a snapshot that had finished.
GreenSeededFromUsableSnapshot ==
    RequireSnapshot => pvc \in usable \cup {"none"}

\* "keep blue active" while green is prepared or has failed, "upgrades are deferred"
\* while green is active: the color that serves is not put on another version.
ServedVersionIsKept ==
    [][\A c \in Colors :
          /\ svc = c
          /\ ReadPhase(node) \in {"PreparingGreen", "WaitingForGreen", "Failed", "UpgradeDeferred"}
          => sts'[c].ver = sts[c].ver]_vars

\* After aborted passes, pod failures, edits and rollbacks the Service has a Ready pod
\* behind it again and again: the color it selects is up in the role it selects.  A stale
\* node or a lost patch that meets a cutover may leave it without one.
ServesAgain ==
    []<>(\E c \in Colors : svc = c /\ PodReady(c) /\ pod[c].role = "active")
=============================================================================
