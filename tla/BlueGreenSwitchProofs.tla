----------------------- MODULE BlueGreenSwitchProofs -----------------------
(***************************************************************************)
(* Proof that the Service of a validator follows the rollout, for any      *)
(* versions, tokens and snapshots and any number of faults and edits,      *)
(* while a pass works on the node as it is and no patch is lost.           *)
(*                                                                         *)
(* The invariant stands on that of BlueGreenIdentityProofs, which says     *)
(* where the identity is.  Evidence ties the history of healthy pods to    *)
(* the pods there are, Selected the Service to the recorded phase, and the *)
(* rest says of each kind of pass which selections it may still write.     *)
(***************************************************************************)
EXTENDS BlueGreenIdentityProofs

-----------------------------------------------------------------------------
(* Between the writes.                                                     *)

\* A green pod of the current rollout has been seen to start, and a healthy blue pod that
\* is wanted to become so; blue is on its way down only in a cutover.
Evidence ==
    /\ pod["green"].tok = sts["green"].tok /\ sts["green"].tok # NoToken => sts["green"].tok \in seen
    /\ Synced("blue") /\ sts["blue"].replicas = 1 => "blue" \in seen
    /\ sts["blue"].replicas = 0 => BlueDown \/ ReadPhase(node) = "CuttingOver"

\* The recorded cutover is past its first step.
Settled == node.cut \notin {"none", "ScaleBlueDown"}

\* The Service selects what the recorded phase says; in a cutover it may select either
\* color, but green only past the first step.
Selected ==
    /\ ReadPhase(node) \in BluePhases => svc # "green"
    /\ ReadPhase(node) = "CuttingOver" /\ svc = "green" => Settled
    /\ ReadPhase(node) \in GreenPhases => svc = "green" /\ sts["green"].tok = node.token

-----------------------------------------------------------------------------
(* The kinds of passes, and what they may still write.                     *)

BlueKind == ph \in BluePhases /\ step = "none"
GreenKind == ph \in GreenPhases /\ step = "none" /\ pc # "idle"
CutKind == ph \in {"WaitingForGreen", "CuttingOver"} /\ step \in CutoverSteps

PatchWrites == {w \in Writes : IsPatch(w)}
Cuts(w) == IsPatch(w) /\ "cut" \in DOMAIN w.patch
HasCut(t) == \E i \in 1..Len(t) : Cuts(t[i])

\* Blue runs and is selected.
ForBlue ==
    {w \in Writes : /\ w.op = "svc" => w.color = "blue"
                    /\ w.op = "sts" /\ w.color = "blue" => w.sts.replicas = 1}

\* Green stays with its publish rollout and is selected.
ForGreen(t) ==
    {w \in Writes : /\ w.op = "svc" => w.color = "green"
                    /\ w.op = "sts" /\ w.color = "green" => w.sts.tok = t}

\* A cutover selects green at its last step, and records no return to the first.
ForCutover(s) ==
    {w \in Writes :
        /\ w.op = "svc" => w.color = IF s = "WaitGreenHealthy" THEN "green" ELSE "blue"
        /\ Cuts(w) /\ s # "ScaleBlueDown" => w.patch.cut \notin {"none", "ScaleBlueDown"}}

\* A rollback that has not come to the Service.
ForRollback ==
    {w \in Writes : /\ w.op # "svc"
                    /\ IsPatch(w) => Moves(w.patch, {"RollingBack"}, "green")}

\* The pass is about to select c, or has done so.
Poised(c) == /\ pc = "end" /\ todo # <<>> /\ todo[1].op = "svc" /\ todo[1].color = c
             /\ From(2, PatchWrites)
Switched(c) == pc = "end" /\ svc = c /\ todo \in Seq(PatchWrites)

BlueKeeps == BlueKind => todo \in Seq(ForBlue)
GreenKeeps == GreenKind => todo \in Seq(ForGreen(view.token)) /\ view.token = sts["green"].tok

\* The step is recorded, or is about to be.
CutKeeps ==
    CutKind => /\ todo \in Seq(ForCutover(step))
               /\ step # "ScaleBlueDown" => Settled \/ HasCut(todo)
DownKeeps ==
    CutKind /\ step # "WaitGreenHealthy" /\ svc = "green"
       => step # "ScaleBlueDown" /\ todo \in Seq(PatchWrites)

\* No pod of the new rollout is older than the rollout.
HoldKeeps ==
    CutKind /\ step = "WaitGreenHealthy" =>
       /\ sts["green"].tok = token \/ pod["green"].tok # token
       /\ pc = "end" => \/ todo \in Seq(HoldWrites)
                        \/ Switched("green")
                        \/ Poised("green") /\ token \in seen /\ Settled
BackKeeps ==
    BackPass => /\ todo \in Seq(ForBlue)
                /\ \/ todo \in Seq(ForRollback)
                   \/ Switched("blue")
                   \/ Poised("blue") /\ "blue" \in seen

SwInv == /\ Evidence /\ Selected
         /\ BlueKeeps /\ GreenKeeps /\ CutKeeps /\ DownKeeps /\ HoldKeeps /\ BackKeeps

-----------------------------------------------------------------------------
(* Which kind a pass is of.                                                *)

\* A pass that will keep blue.
LEMMA BlueAlone ==
    ASSUME Evidence', Selected', BlueKind', todo' \in Seq(ForBlue)
    PROVE  SwInv'
<1>1. ~GreenKind' /\ ~CutKind' /\ ~BackPass'
  BY DEF BlueKind, GreenKind, CutKind, BackPass, BluePhases, GreenPhases, GreenSided, CutoverSteps,
         RollbackSteps
<1> QED
  BY <1>1 DEF SwInv, BlueKeeps, GreenKeeps, CutKeeps, DownKeeps, HoldKeeps, BackKeeps

\* A pass that will keep green.
LEMMA GreenAlone ==
    ASSUME Evidence', Selected', GreenKind', todo' \in Seq(ForGreen(view'.token)),
           view'.token = sts'["green"].tok
    PROVE  SwInv'
<1>1. ~BlueKind' /\ ~CutKind' /\ ~BackPass'
  BY DEF BlueKind, GreenKind, CutKind, BackPass, BluePhases, GreenPhases, GreenSided, CutoverSteps,
         RollbackSteps
<1> QED
  BY <1>1 DEF SwInv, BlueKeeps, GreenKeeps, CutKeeps, DownKeeps, HoldKeeps, BackKeeps

\* A pass that will cut over.
LEMMA CutAlone ==
    ASSUME Evidence', Selected', CutKind', CutKeeps', DownKeeps', HoldKeeps'
    PROVE  SwInv'
<1>1. ~BlueKind' /\ ~GreenKind' /\ ~BackPass'
  BY DEF BlueKind, GreenKind, CutKind, BackPass, BluePhases, GreenPhases, GreenSided, CutoverSteps,
         RollbackSteps
<1> QED
  BY <1>1 DEF SwInv, BlueKeeps, GreenKeeps, BackKeeps

\* A pass that will roll back.
LEMMA BackAlone ==
    ASSUME Evidence', Selected', BackPass', BackKeeps'
    PROVE  SwInv'
<1>1. ~BlueKind' /\ ~GreenKind' /\ ~CutKind'
  BY DEF BlueKind, GreenKind, CutKind, BackPass, BluePhases, GreenPhases, GreenSided, CutoverSteps,
         RollbackSteps
<1> QED
  BY <1>1 DEF SwInv, BlueKeeps, GreenKeeps, CutKeeps, DownKeeps, HoldKeeps

\* No pass, or one that has not chosen its kind.
LEMMA NoneAlone ==
    ASSUME Evidence', Selected', step' = "none", ph' \notin BluePhases,
           ph' \in GreenPhases => pc' = "idle"
    PROVE  SwInv'
<1>1. ~BlueKind' /\ ~GreenKind' /\ ~CutKind' /\ ~BackPass'
  BY DEF BlueKind, GreenKind, CutKind, BackPass, CutoverSteps, RollbackSteps
<1> QED
  BY <1>1 DEF SwInv, BlueKeeps, GreenKeeps, CutKeeps, DownKeeps, HoldKeeps, BackKeeps

-----------------------------------------------------------------------------
(* The writes of the decisions.                                            *)

\* Patches may pend in any pass that keeps a color.
LEMMA PatchesIn ==
    /\ PatchWrites \subseteq ForBlue /\ \A t : PatchWrites \subseteq ForGreen(t)
    /\ PatchWrites \subseteq ForCutover("ScaleBlueDown")
BY DEF PatchWrites, ForBlue, ForGreen, ForCutover, IsPatch

\* patch_node_progress makes patches; with a step of the cutover it records the step.
LEMMA ProgressPatches ==
    ASSUME NEW a \in Phases, NEW c \in Colors, NEW s \in Snaps \cup {NoSnap}, NEW opt, Optional(opt)
    PROVE  Progress(a, c, s, opt) \in Seq(PatchWrites)
<1>1. Admits(PatchWrites, {a}, c, opt)
  BY Patched DEF PatchWrites, IsPatch, Admits
<1> QED
  BY <1>1, ProgressIn

\* A step of the cutover other than the first.
LEMMA CutProgressSettles ==
    ASSUME NEW a \in Phases, NEW c \in Colors, NEW s \in Snaps \cup {NoSnap},
           NEW t \in CutoverSteps \ {"ScaleBlueDown"}, NEW k
    PROVE  LET w == Progress(a, c, s, [cut |-> t]) IN
           w \in Seq(ForCutover(k)) /\ HasCut(w)
<1>1. Optional([cut |-> t]) /\ DOMAIN [cut |-> t] = {"cut"} /\ [cut |-> t]["cut"] = t
  BY Options
<1>2. Admits(ForCutover(k), {a}, c, [cut |-> t])
  <2> SUFFICES ASSUME NEW p \in Patches, NEW op \in {"node", "node?"},
                      Carries(p, [cut |-> t])
               PROVE  [op |-> op, patch |-> p] \in ForCutover(k)
    BY DEF Admits
  <2>1. "cut" \in DOMAIN p => p.cut = t
    BY <1>1 DEF Carries
  <2>2. [op |-> op, patch |-> p] \in Writes
    BY Patched
  <2> QED
    BY <2>1, <2>2 DEF ForCutover, IsPatch, Cuts, CutoverSteps
<1>3. Progress(a, c, s, [cut |-> t]) \in Seq(ForCutover(k))
  BY <1>1, <1>2, ProgressIn
<1>4. HasCut(Progress(a, c, s, [cut |-> t]))
  <2> DEFINE q == [sPhase |-> a, sColor |-> c]
  <2>1. PICK p \in Patches : /\ Progress(a, c, s, [cut |-> t]) = PatchNode(p) \o PatchNodeIgnoringErrors(q)
                             /\ Annotates(p, a, c, [cut |-> t])
    BY <1>1, ProgressPatch
  <2>2. "cut" \in DOMAIN p
    BY <1>1, <2>1 DEF Annotates
  <2> DEFINE w1 == [op |-> "node", patch |-> p]
             w2 == [op |-> "node?", patch |-> q]
  <2>3. Cuts(w1)
    BY <2>2 DEF Cuts, IsPatch
  <2>4. Progress(a, c, s, [cut |-> t]) = <<w1>> \o <<w2>>
    BY <2>1 DEF PatchNode, PatchNodeIgnoringErrors
  <2> HIDE DEF w1, w2
  <2>5. Len(<<w1>> \o <<w2>>) = 2 /\ (<<w1>> \o <<w2>>)[1] = w1
    OBVIOUS
  <2>6. HasCut(<<w1>> \o <<w2>>)
    BY <2>3, <2>5 DEF HasCut
  <2> QED
    BY <2>4, <2>6
<1> QED
  BY <1>3, <1>4

\* The applies of the resources.
LEMMA SwitchApplied ==
    ASSUME NEW v \in Versions \cup {NoVersion}, NEW r \in {"active", "standby"}, NEW k \in {0, 1},
           NEW t \in Tokens \cup {NoToken}
    PROVE  /\ ApplySts("blue", r, 1, v, t) \in Seq(ForBlue)
           /\ ApplySts("green", r, k, v, t) \in Seq(ForBlue)
           /\ ApplySts("green", r, k, v, t) \in Seq(ForGreen(t))
           /\ \A u : ApplySts("blue", r, k, v, t) \in Seq(ForGreen(u))
           /\ \A s : /\ ApplySts("blue", r, k, v, t) \in Seq(ForCutover(s))
                     /\ ApplySts("green", r, k, v, t) \in Seq(ForCutover(s))
           /\ ApplySts("blue", r, k, v, t) \in Seq(ForRollback)
           /\ ApplySts("green", r, k, v, t) \in Seq(ForRollback)
<1>1. "blue" \in Colors /\ "green" \in Colors /\ 1 \in {0, 1}
  BY DEF Colors
<1>2. AdmitsSts(ForBlue, "blue", 1, t) /\ AdmitsSts(ForBlue, "green", k, t)
  BY DEF AdmitsSts, ForBlue
<1>3. AdmitsSts(ForGreen(t), "green", k, t) /\ \A u : AdmitsSts(ForGreen(u), "blue", k, t)
  BY DEF AdmitsSts, ForGreen
<1>4. \A s : AdmitsSts(ForCutover(s), "blue", k, t) /\ AdmitsSts(ForCutover(s), "green", k, t)
  BY DEF AdmitsSts, ForCutover, Cuts, IsPatch
<1>5. AdmitsSts(ForRollback, "blue", k, t) /\ AdmitsSts(ForRollback, "green", k, t)
  BY DEF AdmitsSts, ForRollback, IsPatch
<1> QED
  BY <1>1, <1>2, <1>3, <1>4, <1>5, StsIn

LEMMA OthersApplied ==
    /\ ApplySvc("blue") \in Seq(ForBlue)
    /\ \A t : ApplySvc("green") \in Seq(ForGreen(t))
    /\ \A s : s # "WaitGreenHealthy" => ApplySvc("blue") \in Seq(ForCutover(s))
    /\ ApplySvc("green") \in Seq(ForCutover("WaitGreenHealthy"))
    /\ \A m \in {"standby", "publishing"} :
          /\ ApplyCm(m) \in Seq(ForBlue) /\ ApplyCm(m) \in Seq(ForRollback)
          /\ \A t : ApplyCm(m) \in Seq(ForGreen(t))
          /\ \A s : ApplyCm(m) \in Seq(ForCutover(s))
    /\ \A src \in Snaps \cup {"blank"} : CreatePvc(src) \in Seq(ForBlue)
    /\ CleanupGreenResources \in Seq(ForBlue)
<1>1. \A c \in Colors : [op |-> "svc", color |-> c] \in Writes
  BY DEF Writes
<1>2. \A m \in {"standby", "publishing"} : [op |-> "cm", mode |-> m] \in Writes
  BY DEF Writes
<1>3. /\ \A src \in Snaps \cup {"blank"} : [op |-> "pvc", src |-> src] \in Writes
      /\ [op |-> "cleanup?"] \in Writes /\ [op |-> "cleanCm?"] \in Writes
  BY DEF Writes
<1>4. /\ ApplySvc("blue") \in Seq(ForBlue)
      /\ \A t : ApplySvc("green") \in Seq(ForGreen(t))
      /\ \A s : s # "WaitGreenHealthy" => ApplySvc("blue") \in Seq(ForCutover(s))
      /\ ApplySvc("green") \in Seq(ForCutover("WaitGreenHealthy"))
  BY <1>1 DEF ApplySvc, ForBlue, ForGreen, ForCutover, Cuts, IsPatch, Colors
<1>5. ASSUME NEW m \in {"standby", "publishing"}
      PROVE  /\ ApplyCm(m) \in Seq(ForBlue) /\ ApplyCm(m) \in Seq(ForRollback)
             /\ \A t : ApplyCm(m) \in Seq(ForGreen(t))
             /\ \A s : ApplyCm(m) \in Seq(ForCutover(s))
  BY <1>2 DEF ApplyCm, ForBlue, ForGreen, ForCutover, ForRollback, Cuts, IsPatch
<1>6. /\ \A src \in Snaps \cup {"blank"} : CreatePvc(src) \in Seq(ForBlue)
      /\ CleanupGreenResources \in Seq(ForBlue)
  BY <1>3 DEF CreatePvc, CleanupGreenResources, ForBlue
<1> QED
  BY <1>4, <1>5, <1>6

\* A step of the cutover that is recorded behind other writes is recorded.
LEMMA CutLast ==
    ASSUME NEW T, NEW s \in Seq(T), NEW t \in Seq(T), HasCut(t)
    PROVE  HasCut(s \o t)
<1>1. PICK i \in 1..Len(t) : Cuts(t[i])
  BY DEF HasCut
<1>2. Len(s) \in Nat /\ Len(t) \in Nat /\ Len(s \o t) = Len(s) + Len(t)
  OBVIOUS
<1>3. (s \o t)[Len(s) + i] = t[i]
  BY <1>2
<1>4. Len(s) + i \in 1..Len(s \o t)
  BY <1>2
<1> QED
  BY <1>1, <1>3, <1>4 DEF HasCut

\* patch_node_progress in a rollback.
LEMMA RollbackProgress ==
    ASSUME NEW t \in RollbackSteps, NEW s \in Snaps \cup {NoSnap}
    PROVE  LET ws == Progress("RollingBack", "green", s, [rb |-> t]) IN
           ws \in Seq(ForBlue) /\ ws \in Seq(ForRollback)
<1>1. "RollingBack" \in Phases /\ "green" \in Colors /\ Optional([rb |-> t])
  BY Options DEF Phases, Colors
<1>2. /\ Admits(ForRollback, {"RollingBack"}, "green", [rb |-> t])
      /\ Admits(ForBlue, {"RollingBack"}, "green", [rb |-> t])
  BY Patched DEF ForRollback, ForBlue, IsPatch, Admits
<1>3. Progress("RollingBack", "green", s, [rb |-> t]) \in Seq(ForRollback)
  BY <1>1, <1>2, ProgressIn
<1>4. Progress("RollingBack", "green", s, [rb |-> t]) \in Seq(ForBlue)
  BY <1>1, <1>2, ProgressIn
<1> QED
  BY <1>3, <1>4

-----------------------------------------------------------------------------
(* The decisions.                                                          *)

\* They leave alone what the evidence and the selection are about.
LEMMA DecisionsLook ==
    ASSUME Decide, Evidence, Selected
    PROVE  /\ UNCHANGED <<node, sts, cm, svc, pod, seen>>
           /\ Evidence' /\ Selected' /\ (BlueDown' <=> BlueDown) /\ (Settled' <=> Settled)
<1>1. UNCHANGED <<node, sts, cm, svc, pod, seen>>
  BY DEF Decide, Begin, End, DeferUpgrade, StayDeferred, MaintainGreen, KeepFailed, MaintainBlue,
     StartRollout, Resume, CreateSnapshot, SnapshotRefused, AwaitSnapshot, CreateGreen, SeedGreen,
     TimeOut, AwaitGreen, EnterCutover, ReadBlueDown, ReadGreenHealth, ScaleBlueToZero, EnableGreenPublishingAndRestart,
     SwitchServiceToGreen, CutoverWait, GreenHealthy, StartRollback, ScaleGreenToZero, ScaleBlueToOne,
     SwitchServiceToBlue, RollbackWait, unmoved, cluster, kubelet
<1>2. (BlueDown' <=> BlueDown) /\ (Settled' <=> Settled)
  BY <1>1 DEF BlueDown, StsFullyDown, Settled
<1>3. Evidence'
  BY <1>1, <1>2 DEF Evidence, Synced
<1>4. Selected'
  BY <1>1, <1>2 DEF Selected
<1> QED
  BY <1>1, <1>2, <1>3, <1>4

\* The evidence and the selection of the invariant, after a decision.
LEMMA Looks ==
    ASSUME SwInv, Decide
    PROVE  /\ UNCHANGED <<node, sts, cm, svc, pod, seen>> /\ Evidence /\ Selected
           /\ Evidence' /\ Selected' /\ (BlueDown' <=> BlueDown) /\ (Settled' <=> Settled)
BY DecisionsLook DEF SwInv

\* A pass begins on the node as it is.
LEMMA BeginSwitch == ASSUME IdInv, SwInv, Begin PROVE SwInv'
<1>0. Decide
  BY DEF Decide
<1>1. Evidence' /\ Selected' /\ Selected /\ UNCHANGED <<node, sts>>
  BY <1>0, Looks
<1>2. view' = node /\ pc = "idle" /\ pc' = "decide" /\ step' = step
  BY DEF Begin, Goto, IdInv
<1>3. step = "none"
  BY <1>2 DEF IdInv, Stage, IdleStage, BlueStage, CutStage, EnterStage, DownStage, EnableStage,
     HoldStage, SwitchStage, GreenStage, BackStage, LeaveStage, StopStage, ReturnStage
<1> DEFINE retry == ReadPhase(node) = "Failed" /\ RetryRequested(node)
<1>4. /\ ph' = IF retry THEN "BlueActive" ELSE ReadPhase(node)
      /\ todo' = IF retry THEN PatchNode([retry |-> "none"])
                               \o Progress("BlueActive", "blue", NoSnap, Nothing)
                          ELSE <<>>
  BY <1>2 DEF Begin, Goto
<1>5. CASE retry
  <2>1. Progress("BlueActive", "blue", NoSnap, Nothing) \in Seq(PatchWrites)
    BY ProgressPatches, Options DEF Phases, Colors
  <2>2. PatchNode([retry |-> "none"]) \in Seq(PatchWrites)
    <3>1. [op |-> "node", patch |-> [retry |-> "none"]] \in Writes
      BY FieldPatch, Patched
    <3> QED
      BY <3>1 DEF PatchNode, PatchWrites, IsPatch
  <2>3. todo' \in Seq(PatchWrites)
    BY <1>4, <1>5, <2>1, <2>2, Concat
  <2>4. todo' \in Seq(ForBlue)
    BY <2>3, PatchesIn, SeqMonotone
  <2>5. BlueKind'
    BY <1>2, <1>3, <1>4, <1>5 DEF BlueKind, BluePhases
  <2> QED
    BY <1>1, <2>4, <2>5, BlueAlone
<1>6. CASE ~retry
  <2>1. todo' = <<>> /\ ph' = ReadPhase(node) /\ step' = "none"
    BY <1>2, <1>3, <1>4, <1>6
  <2>2. CASE ph' \in BluePhases
    <3>1. BlueKind' /\ todo' \in Seq(ForBlue)
      BY <2>1, <2>2 DEF BlueKind
    <3> QED
      BY <1>1, <3>1, BlueAlone
  <2>3. CASE ph' \in GreenPhases
    <3>1. GreenKind' /\ todo' \in Seq(ForGreen(view'.token))
      BY <1>2, <2>1, <2>3 DEF GreenKind
    <3>2. view'.token = sts'["green"].tok
      BY <1>1, <1>2, <2>1, <2>3 DEF Selected
    <3> QED
      BY <1>1, <3>1, <3>2, GreenAlone
  <2>4. CASE ph' \notin BluePhases \cup GreenPhases
    BY <1>1, <2>1, <2>4, NoneAlone
  <2> QED
    BY <2>2, <2>3, <2>4
<1> QED
  BY <1>5, <1>6

\* Blue is kept.
LEMMA KeepBlueSwitch ==
    ASSUME Inv
    PROVE  /\ KeepBluePublishing \in Seq(ForBlue)
           /\ ApplySts("blue", "active", 1, view.ver, NoToken) \o ApplySvc("blue") \in Seq(ForBlue)
<1>1. /\ view.ver \in Versions \cup {NoVersion} /\ view.blueVer \in Versions \cup {NoVersion}
      /\ DeployedBlue \in Versions \cup {NoVersion}
  BY KeepTyped, ViewTyped DEF NodeType
<1>2. \A v \in Versions \cup {NoVersion} :
         ApplySts("blue", "active", 1, v, NoToken) \o ApplySvc("blue") \in Seq(ForBlue)
  BY SwitchApplied, OthersApplied, Concat
<1> QED
  BY <1>1, <1>2 DEF KeepBluePublishing

\* The decisions of a pass that keeps blue.
LEMMA BlueSwitch ==
    ASSUME IdInv, SwInv,
           \/ KeepFailed \/ MaintainBlue \/ StartRollout
           \/ CreateSnapshot \/ AwaitSnapshot \/ CreateGreen \/ TimeOut \/ AwaitGreen
    PROVE  SwInv'
<1>1. Evidence' /\ Selected'
  <2>1. Decide
    BY DEF Decide
  <2> QED
    BY <2>1, Looks
<1>2. Inv /\ view.snap \in Snaps \cup {NoSnap} /\ view.ver \in Versions \cup {NoVersion}
  BY ViewTyped DEF IdInv
<1>3. step' = "none" /\ ph' \in BluePhases
  <2>1. CASE KeepFailed \/ MaintainBlue \/ StartRollout
    <3>1. At("decide") /\ ~GreenSide /\ ph \in {"Failed", "BlueActive"}
      BY <2>1 DEF KeepFailed, MaintainBlue, StartRollout
    <3>2. BlueStage
      BY <3>1, AtStage DEF IdInv, CutStage, GreenStage, BackStage, GreenPhases
    <3> QED
      BY <2>1, <3>2 DEF BlueStage, KeepFailed, MaintainBlue, StartRollout, locals, BluePhases
  <2>2. CASE CreateSnapshot \/ AwaitSnapshot \/ CreateGreen \/ TimeOut \/ AwaitGreen
    <3>1. At("prepare") \/ At("wait")
      BY <2>2 DEF CreateSnapshot, AwaitSnapshot, CreateGreen, TimeOut, AwaitGreen
    <3>2. BlueStage
      BY <3>1, AtStage DEF IdInv
    <3> QED
      BY <2>2, <3>2 DEF BlueStage, CreateSnapshot, AwaitSnapshot, CreateGreen, SeedGreen, TimeOut,
                        AwaitGreen, locals
  <2> QED
    BY <2>1, <2>2
<1>4. ASSUME NEW a \in Phases, NEW s \in Snaps \cup {NoSnap}
      PROVE  Progress(a, "blue", s, Nothing) \in Seq(ForBlue)
  BY ProgressPatches, Options, PatchesIn, SeqMonotone DEF Colors
<1>5. /\ KeepBluePublishing \in Seq(ForBlue)
      /\ ApplySts("blue", "active", 1, view.ver, NoToken) \o ApplySvc("blue") \in Seq(ForBlue)
  BY <1>2, KeepBlueSwitch
<1>6. todo' \in Seq(ForBlue)
  <2>1. CASE KeepFailed
    BY <1>5, <2>1 DEF KeepFailed, Finish, Goto
  <2>2. CASE MaintainBlue
    <3>1. Progress("BlueActive", "blue", NoSnap, Nothing) \in Seq(ForBlue)
      BY <1>4 DEF Phases
    <3> QED
      BY <1>5, <2>2, <3>1, Concat DEF MaintainBlue, Finish, Goto
  <2>3. CASE StartRollout
    <3> DEFINE p == [started |-> "set", blueVer |-> DeployedBlue,
                     phase |-> "PreparingGreen", cut |-> "none", rb |-> "none"]
    <3>1. p \in Patches
      BY <1>2, KeepTyped, StartPatch
    <3> HIDE DEF p
    <3>2. PatchNodeIgnoringErrors(p) \in Seq(ForBlue)
      <4>1. [op |-> "node?", patch |-> p] \in Writes
        BY <3>1, Patched
      <4>2. [op |-> "node?", patch |-> p] \in ForBlue
        BY <4>1 DEF ForBlue
      <4> QED
        BY <4>2 DEF PatchNodeIgnoringErrors
    <3>3. todo' = PatchNodeIgnoringErrors(p) \o KeepBluePublishing
      BY <2>3 DEF StartRollout, Goto, p
    <3> QED
      BY <1>5, <3>2, <3>3, Concat
  <2>4. CASE CreateSnapshot
    BY <2>4 DEF CreateSnapshot, At
  <2>5. CASE AwaitSnapshot
    BY <1>2, <1>4, <2>5 DEF AwaitSnapshot, Finish, Goto, Phases
  <2>6. CASE CreateGreen
    <3> DEFINE src == IF RequireSnapshot THEN view.snap ELSE "blank"
               known == IF RequireSnapshot THEN view.snap ELSE NoSnap
    <3>1. src \in Snaps \cup {"blank"} /\ known \in Snaps \cup {NoSnap}
      BY <1>2, <2>6 DEF CreateGreen, Inv, TypeInv, ClusterTyped
    <3>2. Progress("WaitingForGreen", "blue", known, Nothing) \in Seq(ForBlue)
      BY <1>4, <3>1 DEF Phases
    <3>3. /\ CreatePvc(src) \in Seq(ForBlue) /\ ApplyCm("standby") \in Seq(ForBlue)
          /\ ApplySts("green", "standby", 1, view.ver, NoToken) \in Seq(ForBlue)
      BY <1>2, <3>1, SwitchApplied, OthersApplied
    <3> QED
      BY <2>6, <3>2, <3>3, Concat DEF CreateGreen, SeedGreen, Finish, Goto
  <2>7. CASE TimeOut
    <3>1. Progress("Failed", "blue", view.snap, Nothing) \in Seq(ForBlue)
      BY <1>2, <1>4 DEF Phases
    <3> QED
      BY <2>7, <3>1, OthersApplied, Concat DEF TimeOut, Finish, Goto
  <2>8. CASE AwaitGreen
    BY <1>2, <1>4, <2>8 DEF AwaitGreen, Finish, Goto, Phases
  <2> QED
    BY <2>1, <2>2, <2>3, <2>4, <2>5, <2>6, <2>7, <2>8
<1> QED
  BY <1>1, <1>3, <1>6, BlueAlone DEF BlueKind

\* The cutover is entered while blue is selected.
LEMMA EnterSwitch == ASSUME IdInv, SwInv, EnterCutover PROVE SwInv'
<1>1. Evidence' /\ Selected' /\ Selected /\ UNCHANGED <<node, svc>>
  <2>1. Decide
    BY DEF Decide
  <2> QED
    BY <2>1, Looks
<1>2. At("wait")
  BY DEF EnterCutover
<1>3. BlueStage /\ ph = "WaitingForGreen" /\ Unbegun(view) /\ Inv
  BY <1>2, AtStage DEF IdInv
<1>4. step' = "ScaleBlueDown" /\ ph' = "WaitingForGreen" /\ pc' = "cutover"
  BY <1>3 DEF EnterCutover, ReadCutoverStep, Unbegun, Goto
<1>5. svc' # "green"
  BY <1>1, <1>3 DEF BlueStage, Selected
<1>6. todo' \in Seq(PatchWrites)
  <2>1. view.snap \in Snaps \cup {NoSnap}
    BY <1>3, ViewTyped
  <2>2. /\ "CuttingOver" \in Phases /\ "blue" \in Colors /\ "ScaleBlueDown" \in CutoverSteps
    BY DEF Phases, Colors, CutoverSteps
  <2>3. Progress("CuttingOver", "blue", view.snap, [cut |-> "ScaleBlueDown"]) \in Seq(PatchWrites)
    BY <2>1, <2>2, ProgressPatches, Options
  <2> QED
    BY <2>3 DEF EnterCutover, Goto
<1>7. todo' \in Seq(ForCutover("ScaleBlueDown"))
  BY <1>6, PatchesIn, SeqMonotone
<1>8. CutKind'
  BY <1>4 DEF CutKind, CutoverSteps
<1>9. CutKeeps' /\ DownKeeps' /\ HoldKeeps'
  BY <1>4, <1>5, <1>7 DEF CutKeeps, DownKeeps, HoldKeeps
<1> QED
  BY <1>1, <1>8, <1>9, CutAlone

\* A pass goes on where the node says.
LEMMA ResumeSwitch == ASSUME IdInv, SwInv, Resume PROVE SwInv'
<1>1. /\ Evidence' /\ Selected' /\ Selected /\ UNCHANGED <<node, sts, svc, pod>>
      /\ Settled' <=> Settled
  <2>1. Decide
    BY DEF Decide
  <2> QED
    BY <2>1, Looks
<1>2. At("decide") /\ ~GreenSide /\ UNCHANGED <<view, ph>> /\ Inv /\ NodeInv
  BY DEF Resume, IdInv
<1>3. CASE ph \in {"PreparingGreen", "WaitingForGreen"}
  <2>1. BlueStage
    BY <1>2, <1>3, AtStage DEF IdInv, CutStage, GreenStage, BackStage, GreenPhases
  <2>2. step' = "none" /\ todo' = KeepBluePublishing
    BY <1>3, <2>1 DEF Resume, Goto, BlueStage
  <2>3. BlueKind' /\ todo' \in Seq(ForBlue)
    BY <1>2, <1>3, <2>2, KeepBlueSwitch DEF BlueKind, BluePhases
  <2> QED
    BY <1>1, <2>3, BlueAlone
<1>4. CASE ph = "CuttingOver"
  <2>1. CutStage
    BY <1>2, <1>4, AtStage DEF IdInv, BlueStage, BluePhases, GreenStage, BackStage, GreenPhases
  <2>2. /\ step' = ReadCutoverStep(view) /\ token' = view.token /\ todo' = <<>> /\ pc' = "cutover"
    BY <1>4 DEF Resume, Goto
  <2>3. view.cut = node.cut /\ view.token = node.token /\ ReadPhase(node) = "CuttingOver"
    BY <2>1 DEF CutStage, Current
  <2>4. /\ step' # "ScaleBlueDown" <=> Settled
        /\ step' = "WaitGreenHealthy" => node.cut = "WaitGreenHealthy"
    BY <2>2, <2>3 DEF ReadCutoverStep, Settled
  <2>5. CutKind'
    <3>1. node \in NodeType
      BY <1>2 DEF Inv, TypeInv
    <3>2. step' \in CutoverSteps
      BY <2>2, <2>3, <3>1 DEF ReadCutoverStep, NodeType, CutoverSteps
    <3> QED
      BY <1>2, <1>4, <3>2 DEF CutKind
  <2>6. CutKeeps' /\ DownKeeps'
    BY <1>1, <2>2, <2>3, <2>4 DEF CutKeeps, DownKeeps, Selected
  <2>7. HoldKeeps'
    <3>1. step' = "WaitGreenHealthy" => sts["green"].tok = node.token
      BY <1>2, <2>3, <2>4 DEF NodeInv, Restarted
    <3> QED
      BY <1>1, <2>2, <2>3, <3>1 DEF HoldKeeps
  <2> QED
    BY <1>1, <2>5, <2>6, <2>7, CutAlone
<1>5. CASE ph = "RollingBack"
  <2>1. BackStage
    BY <1>2, <1>5, AtStage DEF IdInv, BlueStage, BluePhases, GreenStage, CutStage, GreenPhases
  <2>2. step' = ReadRollbackStep(view) /\ todo' = <<>>
    BY <1>5 DEF Resume, Goto
  <2>3. BackPass'
    <3>1. view \in NodeType
      BY <1>2 DEF Inv, TypeInv, PassTyped
    <3>2. step' \in RollbackSteps
      BY <2>2, <3>1 DEF ReadRollbackStep, NodeType, RollbackSteps
    <3> QED
      BY <1>2, <1>5, <3>2 DEF BackPass, GreenSided
  <2>4. BackKeeps'
    BY <2>2 DEF BackKeeps
  <2> QED
    BY <1>1, <2>3, <2>4, BackAlone
<1> QED
  BY <1>3, <1>4, <1>5 DEF Resume

\* A cutover looks at the cluster.
LEMMA ReadSwitch == ASSUME IdInv, SwInv, ReadBlueDown \/ ReadGreenHealth PROVE SwInv'
<1>1. /\ Evidence' /\ Selected' /\ UNCHANGED <<node, sts, svc, pod>>
      /\ Settled' <=> Settled
  <2>1. Decide
    BY DEF Decide
  <2> QED
    BY <2>1, Looks
<1>2. /\ At("cutover") \/ At("cutoverHealth")
      /\ UNCHANGED <<view, ph, step, token, todo>> /\ pc' \in {"cutoverHealth", "cutoverStep"}
  BY DEF ReadBlueDown, ReadGreenHealth
<1>3. DownStage \/ HoldStage
  BY <1>2, AtStage DEF IdInv
<1>4. CutKind /\ CutKind'
  BY <1>2, <1>3 DEF DownStage, HoldStage, Rolled, CutPass, CutKind
<1>5. CutKeeps'
  BY <1>1, <1>2, <1>4 DEF SwInv, CutKeeps
<1>6. DownKeeps' /\ HoldKeeps'
  BY <1>1, <1>2, <1>4 DEF SwInv, DownKeeps, HoldKeeps
<1> QED
  BY <1>1, <1>4, <1>5, <1>6, CutAlone

\* The steps of a cutover.
LEMMA CutoverSwitch ==
    ASSUME IdInv, SwInv, \/ ScaleBlueToZero \/ EnableGreenPublishingAndRestart
                         \/ SwitchServiceToGreen \/ CutoverWait
    PROVE  SwInv'
<1>1. /\ Evidence /\ Evidence' /\ Selected' /\ UNCHANGED <<node, sts, svc, pod, seen>>
      /\ Settled' <=> Settled
  <2>1. Decide
    BY DEF Decide
  <2> QED
    BY <2>1, Looks
<1>2. At("cutoverStep") /\ UNCHANGED <<ph, view>> /\ Inv
  BY DEF IdInv, ScaleBlueToZero, EnableGreenPublishingAndRestart, SwitchServiceToGreen, CutoverWait,
         locals
<1>3. DownStage \/ HoldStage
  BY <1>2, AtStage DEF IdInv
<1>4. /\ CutKind /\ step \in CutoverSteps /\ read \in [blueDown : BOOLEAN, health : BOOLEAN]
  BY <1>2, <1>3 DEF DownStage, HoldStage, Rolled, CutPass, CutKind, Inv, TypeInv, PassTyped
<1>5. /\ view.snap \in Snaps \cup {NoSnap} /\ view.ver \in Versions \cup {NoVersion}
      /\ BlueVersion(view) \in Versions \cup {NoVersion}
  BY <1>2, ViewTyped, KeepTyped
<1>6. /\ step # "ScaleBlueDown" => Settled
      /\ step = "ScaleBlueDown" => svc # "green"
  <2>1. ~HasCut(todo) /\ pc = "cutoverStep"
    BY <1>2 DEF At, HasCut
  <2> QED
    BY <1>4, <2>1 DEF SwInv, CutKeeps, DownKeeps
<1>7. /\ "CuttingOver" \in Phases /\ "GreenActive" \in Phases /\ "blue" \in Colors /\ "green" \in Colors
      /\ {"WaitBlueDown", "WaitGreenHealthy", "Complete"} \subseteq CutoverSteps \ {"ScaleBlueDown"}
  BY DEF Phases, Colors, CutoverSteps
<1>8. CASE ScaleBlueToZero
  <2>1. step = "ScaleBlueDown"
    BY <1>4, <1>8, CutoverCommands DEF ScaleBlueToZero
  <2>2. step' = "WaitBlueDown" /\ pc' = "cutover"
    BY <1>8 DEF ScaleBlueToZero, Goto
  <2> DEFINE T == ForCutover("WaitBlueDown")
             ws == Progress("CuttingOver", "blue", view.snap, [cut |-> "WaitBlueDown"])
             us == ApplySts("blue", "standby", 0, BlueVersion(view), NoToken)
                   \o ApplySvc("blue") \o ApplyCm("standby")
  <2>3. todo' = us \o ws
    BY <1>8 DEF ScaleBlueToZero, Goto
  <2>4. ws \in Seq(T) /\ HasCut(ws)
    BY <1>5, <1>7, CutProgressSettles
  <2>5. us \in Seq(T)
    <3>1. /\ ApplySts("blue", "standby", 0, BlueVersion(view), NoToken) \in Seq(T)
          /\ ApplySvc("blue") \in Seq(T) /\ ApplyCm("standby") \in Seq(T)
      BY <1>5, SwitchApplied, OthersApplied
    <3> HIDE DEF T
    <3> QED
      BY <3>1, Concat
  <2> HIDE DEF T, ws, us
  <2>6. todo' \in Seq(T) /\ HasCut(todo')
    BY <2>3, <2>4, <2>5, Concat, CutLast
  <2>7. CutKind'
    BY <1>2, <1>4, <2>2 DEF CutKind, CutoverSteps
  <2>8. CutKeeps' /\ DownKeeps' /\ HoldKeeps'
    BY <1>1, <1>6, <2>1, <2>2, <2>6 DEF CutKeeps, DownKeeps, HoldKeeps, T
  <2> QED
    BY <1>1, <2>7, <2>8, CutAlone
<1>9. CASE EnableGreenPublishingAndRestart
  <2>1. /\ token' \in Tokens /\ token' # pod["green"].tok
        /\ step' = "WaitGreenHealthy" /\ pc' = "cutover"
    BY <1>9 DEF EnableGreenPublishingAndRestart, Goto, TokensInUse
  <2> DEFINE T == ForCutover("WaitGreenHealthy")
             ws == Progress("CuttingOver", "blue", view.snap, [cut |-> "WaitGreenHealthy"])
             us == ApplyCm("publishing") \o ApplySts("green", "active", 1, view.ver, token')
                   \o PatchNodeIgnoringErrors([token |-> token'])
  <2>2. todo' = us \o ws
    BY <1>9 DEF EnableGreenPublishingAndRestart, Goto
  <2>3. ws \in Seq(T) /\ HasCut(ws)
    BY <1>5, <1>7, CutProgressSettles
  <2>4. us \in Seq(T)
    <3>1. /\ ApplyCm("publishing") \in Seq(T)
          /\ ApplySts("green", "active", 1, view.ver, token') \in Seq(T)
      BY <1>5, <2>1, SwitchApplied, OthersApplied
    <3>2. PatchNodeIgnoringErrors([token |-> token']) \in Seq(T)
      <4>1. [token |-> token'] \in Patches /\ DOMAIN [token |-> token'] = {"token"}
        BY <2>1, FieldPatch
      <4>2. [op |-> "node?", patch |-> [token |-> token']] \in Writes
        BY <4>1, Patched
      <4>3. [op |-> "node?", patch |-> [token |-> token']] \in T
        BY <4>1, <4>2 DEF ForCutover, Cuts
      <4> QED
        BY <4>3 DEF PatchNodeIgnoringErrors
    <3> HIDE DEF T
    <3> QED
      BY <3>1, <3>2, Concat
  <2> HIDE DEF T, ws, us
  <2>5. todo' \in Seq(T) /\ HasCut(todo')
    BY <2>2, <2>3, <2>4, Concat, CutLast
  <2>6. CutKind'
    BY <1>2, <1>4, <2>1 DEF CutKind, CutoverSteps
  <2>7. CutKeeps' /\ DownKeeps' /\ HoldKeeps'
    BY <1>1, <2>1, <2>5 DEF CutKeeps, DownKeeps, HoldKeeps, T
  <2> QED
    BY <1>1, <2>6, <2>7, CutAlone
<1>10. CASE SwitchServiceToGreen
  <2>1. step = "WaitGreenHealthy" /\ GreenPublishRolloutObserved(token)
    BY <1>4, <1>10, CutoverCommands DEF SwitchServiceToGreen
  <2>2. sts["green"].tok = token /\ token # NoToken
    BY <1>3, <2>1 DEF DownStage, HoldStage, Rolled, Restarted
  <2>3. token \in seen
    BY <1>1, <2>1, <2>2 DEF Evidence, GreenPublishRolloutObserved
  <2>4. pc' = "end" /\ UNCHANGED <<step, token>>
    BY <1>10 DEF SwitchServiceToGreen, Finish, Goto, locals
  <2> DEFINE w == [op |-> "svc", color |-> "green"]
             us == PatchNodeIgnoringErrors([cut |-> "Complete"])
             ws == Progress("GreenActive", "green", view.snap, [cut |-> "Complete"])
             T == ForCutover("WaitGreenHealthy")
  <2>5. todo' = <<w>> \o us \o ws
    BY <1>10 DEF SwitchServiceToGreen, Finish, Goto, ApplySvc
  <2>6. us \in Seq(PatchWrites) /\ us \in Seq(T)
    <3>1. /\ [cut |-> "Complete"] \in Patches /\ [cut |-> "Complete"].cut = "Complete"
      BY <1>7, FieldPatch
    <3>2. [op |-> "node?", patch |-> [cut |-> "Complete"]] \in Writes
      BY <3>1, Patched
    <3>3. /\ [op |-> "node?", patch |-> [cut |-> "Complete"]] \in PatchWrites
          /\ [op |-> "node?", patch |-> [cut |-> "Complete"]] \in T
      BY <3>1, <3>2 DEF PatchWrites, IsPatch, ForCutover, Cuts
    <3> QED
      BY <3>3 DEF PatchNodeIgnoringErrors
  <2>7. ws \in Seq(PatchWrites) /\ ws \in Seq(T)
    <3>1. Optional([cut |-> "Complete"])
      BY <1>7, Options
    <3>2. ws \in Seq(PatchWrites)
      BY <1>5, <1>7, <3>1, ProgressPatches
    <3>3. ws \in Seq(T)
      BY <1>5, <1>7, CutProgressSettles
    <3> QED
      BY <3>2, <3>3
  <2>8. <<w>> \in Seq(T) /\ w.op = "svc" /\ w.color = "green"
    BY OthersApplied DEF ApplySvc
  <2> HIDE DEF w, us, ws, T
  <2>9. todo' \in Seq(T)
    BY <2>5, <2>6, <2>7, <2>8, Concat
  <2>10. Poised("green")'
    <3>1. us \o ws \in Seq(PatchWrites)
      BY <2>6, <2>7, Concat
    <3>2. todo' = <<w>> \o (us \o ws)
      BY <2>5, <2>6, <2>7
    <3>3. /\ todo' # <<>> /\ todo'[1] = w
          /\ \A i \in 2..Len(todo') : todo'[i] \in PatchWrites
      BY <3>1, <3>2
    <3> QED
      BY <2>4, <2>8, <3>3 DEF Poised, From
  <2>11. CutKind'
    BY <1>2, <1>4, <2>4 DEF CutKind
  <2>12. CutKeeps' /\ DownKeeps'
    BY <1>1, <1>6, <2>1, <2>4, <2>9 DEF CutKeeps, DownKeeps, T
  <2>13. HoldKeeps'
    BY <1>1, <1>6, <2>1, <2>2, <2>3, <2>4, <2>10 DEF HoldKeeps
  <2> QED
    BY <1>1, <2>11, <2>12, <2>13, CutAlone
<1>11. CASE CutoverWait
  <2>1. pc' = "end" /\ UNCHANGED <<step, token>>
    BY <1>11 DEF CutoverWait, Finish, Goto, locals
  <2>2. ClampedStep \in CutoverSteps \ {"ScaleBlueDown"} /\ step # "ScaleBlueDown"
    <3>1. ClampedStep \in CutoverSteps
      BY <1>4, CutoverCommands
    <3>2. ClampedStep # "ScaleBlueDown"
      BY <1>11 DEF CutoverWait, CutoverCommand, PlanCutoverAdvance
    <3>3. step # "ScaleBlueDown"
      BY <3>2 DEF ClampedStep, EnforceCutoverSafety
    <3> QED
      BY <3>1, <3>2, <3>3
  <2> DEFINE ws == Progress("CuttingOver", "blue", view.snap, [cut |-> ClampedStep])
  <2>3. todo' = ws
    BY <1>11 DEF CutoverWait, Finish, Goto
  <2>4. ws \in Seq(ForCutover(step))
    BY <1>5, <1>7, <2>2, CutProgressSettles
  <2>5. ws \in Seq(PatchWrites)
    <3>1. Optional([cut |-> ClampedStep])
      BY <2>2, Options
    <3> QED
      BY <1>5, <1>7, <3>1, ProgressPatches
  <2>6. ws \in Seq(HoldWrites)
    BY <1>5, <2>2, CutProgress
  <2> HIDE DEF ws
  <2>7. CutKind'
    BY <1>2, <1>4, <2>1 DEF CutKind
  <2>8. CutKeeps'
    BY <1>1, <1>6, <2>1, <2>2, <2>3, <2>4 DEF CutKeeps
  <2>9. DownKeeps'
    BY <2>1, <2>2, <2>3, <2>5 DEF DownKeeps
  <2>10. HoldKeeps'
    BY <1>1, <1>4, <2>1, <2>3, <2>6 DEF HoldKeeps, SwInv
  <2> QED
    BY <1>1, <2>7, <2>8, <2>9, <2>10, CutAlone
<1> QED
  BY <1>8, <1>9, <1>10, <1>11

\* Green is kept, or given up.
LEMMA GreenSwitch ==
    ASSUME IdInv, SwInv, DeferUpgrade \/ StayDeferred \/ MaintainGreen \/ GreenHealthy \/ StartRollback
    PROVE  SwInv'
<1>1. /\ Evidence' /\ Selected' /\ UNCHANGED sts
  <2>1. Decide
    BY DEF Decide
  <2> QED
    BY <2>1, Looks
<1>2. Inv /\ UNCHANGED <<ph, view>> /\ pc \in {"decide", "health"}
  BY DEF IdInv, DeferUpgrade, StayDeferred, MaintainGreen, GreenHealthy, StartRollback, locals, At
<1>3. GreenStage
  <2>1. CASE At("decide")
    <3>1. GreenSide
      BY <2>1 DEF DeferUpgrade, StayDeferred, MaintainGreen, GreenHealthy, StartRollback, At
    <3>2. ~BlueStage /\ ~CutStage /\ ~BackStage
      BY <3>1 DEF GreenSide, BlueStage, CutStage, BackStage, BluePhases
    <3> QED
      BY <2>1, <3>2, AtStage DEF IdInv
  <2>2. CASE At("health")
    BY <2>2, AtStage DEF IdInv
  <2> QED
    BY <2>1, <2>2 DEF DeferUpgrade, StayDeferred, MaintainGreen, GreenHealthy, StartRollback
<1>4. ph \in GreenPhases /\ step = "none" /\ view.token = sts["green"].tok
  BY <1>2, <1>3 DEF GreenStage, GreenKind, SwInv, GreenKeeps
<1>5. /\ view.snap \in Snaps \cup {NoSnap} /\ view.ver \in Versions \cup {NoVersion}
      /\ view.token \in Tokens \cup {NoToken}
      /\ BlueVersion(view) \in Versions \cup {NoVersion}
  BY <1>2, ViewTyped, KeepTyped
<1> DEFINE T == ForGreen(view.token)
<1>6. KeepGreen \in Seq(T)
  <2>1. /\ ApplyCm("publishing") \in Seq(T) /\ ApplySvc("green") \in Seq(T)
        /\ ApplySts("green", "active", 1, view.ver, view.token) \in Seq(T)
        /\ ApplySts("blue", "standby", 0, BlueVersion(view), NoToken) \in Seq(T)
    BY <1>5, SwitchApplied, OthersApplied
  <2> HIDE DEF T
  <2> QED
    BY <2>1, Concat DEF KeepGreen
<1>7. /\ Progress("GreenActive", "green", view.snap, [cut |-> "Complete"]) \in Seq(PatchWrites)
      /\ Progress("UpgradeDeferred", "green", view.snap, Nothing) \in Seq(PatchWrites)
      /\ Progress("RollingBack", "green", view.snap, [rb |-> "StopGreen"]) \in Seq(PatchWrites)
  <2>1. /\ {"GreenActive", "UpgradeDeferred", "RollingBack"} \subseteq Phases /\ "green" \in Colors
        /\ "Complete" \in CutoverSteps /\ "StopGreen" \in RollbackSteps
    BY DEF Phases, Colors, CutoverSteps, RollbackSteps
  <2>2. Optional([cut |-> "Complete"]) /\ Optional(Nothing) /\ Optional([rb |-> "StopGreen"])
    BY <2>1, Options
  <2> QED
    BY <1>5, <2>1, <2>2, ProgressPatches
<1>8. CASE DeferUpgrade \/ StayDeferred \/ MaintainGreen \/ GreenHealthy
  <2>1. step' = step /\ pc' \in {"health", "end"}
    BY <1>8 DEF DeferUpgrade, StayDeferred, MaintainGreen, GreenHealthy, Finish, Goto, locals
  <2>2. /\ Progress("GreenActive", "green", view.snap, [cut |-> "Complete"]) \in Seq(T)
        /\ Progress("UpgradeDeferred", "green", view.snap, Nothing) \in Seq(T)
        /\ <<>> \in Seq(T)
    BY <1>7, PatchesIn, SeqMonotone
  <2> HIDE DEF T
  <2>3. todo' \in Seq(T)
    BY <1>6, <1>8, <2>2, Concat
    DEF DeferUpgrade, StayDeferred, MaintainGreen, GreenHealthy, Finish, Goto
  <2>4. GreenKind' /\ view'.token = view.token
    BY <1>2, <1>4, <2>1 DEF GreenKind
  <2> QED
    BY <1>1, <1>4, <2>3, <2>4, GreenAlone DEF T
<1>9. CASE StartRollback
  <2>1. /\ step' = "StopGreen"
        /\ todo' = Progress("RollingBack", "green", view.snap, [rb |-> "StopGreen"])
    BY <1>3, <1>9 DEF StartRollback, Goto, ReadRollbackStep, GreenStage, Fresh
  <2>2. todo' \in Seq(ForBlue)
    BY <1>7, <2>1, PatchesIn, SeqMonotone
  <2>3. todo' \in Seq(ForRollback)
    BY <1>5, <2>1, RollbackProgress DEF RollbackSteps
  <2>4. BackPass'
    BY <1>2, <1>4, <2>1 DEF BackPass, GreenSided, RollbackSteps
  <2> QED
    BY <1>1, <2>2, <2>3, <2>4, BackAlone DEF BackKeeps
<1> QED
  BY <1>8, <1>9

\* The steps of a rollback.
LEMMA RollbackSwitch ==
    ASSUME IdInv, SwInv, ScaleGreenToZero \/ ScaleBlueToOne \/ SwitchServiceToBlue \/ RollbackWait
    PROVE  SwInv'
<1>1. /\ Evidence /\ Evidence' /\ Selected' /\ UNCHANGED seen
  <2>1. Decide
    BY DEF Decide
  <2> QED
    BY <2>1, Looks
<1>2. At("rollback") /\ Inv /\ UNCHANGED <<ph, view>>
  BY DEF IdInv, ScaleGreenToZero, ScaleBlueToOne, SwitchServiceToBlue, RollbackWait, locals
<1>3. LeaveStage \/ ReturnStage
  BY <1>2, AtStage DEF IdInv
<1>4. ph \in GreenSided /\ step \in RollbackSteps
  BY <1>3 DEF LeaveStage, ReturnStage, BackPass
<1>5. /\ view.snap \in Snaps \cup {NoSnap} /\ view.ver \in Versions \cup {NoVersion}
      /\ BlueVersion(view) \in Versions \cup {NoVersion}
  BY <1>2, ViewTyped, KeepTyped
<1>6. BackPass'
  BY <1>2, <1>4 DEF BackPass, ScaleGreenToZero, ScaleBlueToOne, SwitchServiceToBlue, RollbackWait,
                    locals, RollbackSteps
<1>7. CASE ScaleGreenToZero \/ ScaleBlueToOne \/ RollbackWait
  <2>1. ASSUME NEW t \in RollbackSteps
        PROVE  LET ws == Progress("RollingBack", "green", view.snap, [rb |-> t]) IN
               ws \in Seq(ForBlue) /\ ws \in Seq(ForRollback)
    BY <1>5, RollbackProgress
  <2>2. /\ ApplyCm("standby") \in Seq(ForBlue) /\ ApplyCm("standby") \in Seq(ForRollback)
        /\ ApplySts("green", "standby", 0, view.ver, NoToken) \in Seq(ForBlue)
        /\ ApplySts("green", "standby", 0, view.ver, NoToken) \in Seq(ForRollback)
        /\ ApplySts("blue", "active", 1, BlueVersion(view), NoToken) \in Seq(ForBlue)
        /\ ApplySts("blue", "active", 1, BlueVersion(view), NoToken) \in Seq(ForRollback)
    BY <1>5, SwitchApplied, OthersApplied
  <2>3. CASE ScaleGreenToZero
    <3> DEFINE ws == Progress("RollingBack", "green", view.snap, [rb |-> "ScaleBlueUp"])
    <3>1. ws \in Seq(ForBlue) /\ ws \in Seq(ForRollback)
      BY <2>1 DEF RollbackSteps
    <3>2. todo' = ApplyCm("standby") \o ApplySts("green", "standby", 0, view.ver, NoToken) \o ws
      BY <2>3 DEF ScaleGreenToZero, Goto
    <3> HIDE DEF ws
    <3>3. todo' \in Seq(ForBlue) /\ todo' \in Seq(ForRollback)
      BY <2>2, <3>1, <3>2, Concat
    <3> QED
      BY <1>1, <1>6, <3>3, BackAlone DEF BackKeeps
  <2>4. CASE ScaleBlueToOne
    <3> DEFINE ws == Progress("RollingBack", "green", view.snap, [rb |-> "WaitBlueHealthy"])
    <3>1. ws \in Seq(ForBlue) /\ ws \in Seq(ForRollback)
      BY <2>1 DEF RollbackSteps
    <3>2. todo' = ApplySts("blue", "active", 1, BlueVersion(view), NoToken) \o ws
      BY <2>4 DEF ScaleBlueToOne, Goto
    <3> HIDE DEF ws
    <3>3. todo' \in Seq(ForBlue) /\ todo' \in Seq(ForRollback)
      BY <2>2, <3>1, <3>2, Concat
    <3> QED
      BY <1>1, <1>6, <3>3, BackAlone DEF BackKeeps
  <2>5. CASE RollbackWait
    <3>1. todo' = Progress("RollingBack", "green", view.snap, [rb |-> step])
      BY <2>5 DEF RollbackWait, Finish, Goto
    <3>2. todo' \in Seq(ForBlue) /\ todo' \in Seq(ForRollback)
      BY <1>4, <2>1, <3>1
    <3> QED
      BY <1>1, <1>6, <3>2, BackAlone DEF BackKeeps
  <2> QED
    BY <1>7, <2>3, <2>4, <2>5
<1>8. CASE SwitchServiceToBlue
  <2>1. step = "WaitBlueHealthy" /\ Synced("blue")
    BY <1>4, <1>8 DEF SwitchServiceToBlue, RollbackCommand, PlanRollbackAdvance, RollbackSteps
  <2>2. ReadPhase(node) # "CuttingOver"
    BY <1>3, <2>1 DEF LeaveStage, ReturnStage
  <2>3. sts["blue"].replicas = 1
    <3>1. sts["blue"].replicas \in {0, 1}
      BY <1>2 DEF Inv, TypeInv, ClusterTyped, TemplateType, Colors
    <3>2. ~BlueDown
      BY <2>1 DEF BlueDown, StsFullyDown, Synced
    <3> QED
      BY <1>1, <2>2, <3>1, <3>2 DEF Evidence
  <2>4. "blue" \in seen'
    BY <1>1, <2>1, <2>3 DEF Evidence
  <2> DEFINE w == [op |-> "svc", color |-> "blue"]
             ws == Progress("BlueActive", "blue", view.snap, [rb |-> "Complete"])
  <2>5. todo' = <<w>> \o ws /\ pc' = "end"
    BY <1>8 DEF SwitchServiceToBlue, Finish, Goto, ApplySvc
  <2>6. ws \in Seq(PatchWrites) /\ ws \in Seq(ForBlue)
    <3>1. /\ "BlueActive" \in Phases /\ "blue" \in Colors /\ "Complete" \in RollbackSteps
      BY DEF Phases, Colors, RollbackSteps
    <3>2. Optional([rb |-> "Complete"])
      BY <3>1, Options
    <3>3. ws \in Seq(PatchWrites)
      BY <1>5, <3>1, <3>2, ProgressPatches
    <3> QED
      BY <3>3, PatchesIn, SeqMonotone
  <2>7. <<w>> \in Seq(ForBlue) /\ w.op = "svc" /\ w.color = "blue"
    BY OthersApplied DEF ApplySvc
  <2> HIDE DEF w, ws
  <2>8. todo' \in Seq(ForBlue)
    BY <2>5, <2>6, <2>7, Concat
  <2>9. Poised("blue")'
    <3>1. /\ todo' # <<>> /\ todo'[1] = w
          /\ \A i \in 2..Len(todo') : todo'[i] \in PatchWrites
      BY <2>5, <2>6
    <3> QED
      BY <2>5, <2>7, <3>1 DEF Poised, From
  <2> QED
    BY <1>1, <1>6, <2>4, <2>8, <2>9, BackAlone DEF BackKeeps
<1> QED
  BY <1>7, <1>8

\* The pass is over.
LEMMA EndSwitch == ASSUME SwInv, End \/ SnapshotRefused \/ RefuseSts \/ Abort PROVE SwInv'
<1>1. pc' = "idle" /\ step' = "none" /\ ph' = "none" /\ UNCHANGED <<node, sts, svc, pod, seen>>
  BY DEF End, SnapshotRefused, RefuseSts, Abort, Reset, unmoved, cluster, kubelet
<1>2. (BlueDown' <=> BlueDown) /\ (Settled' <=> Settled)
  BY <1>1 DEF BlueDown, StsFullyDown, Settled
<1>3. Evidence'
  BY <1>1, <1>2 DEF SwInv, Evidence, Synced
<1>4. Selected'
  BY <1>1, <1>2 DEF SwInv, Selected
<1> QED
  BY <1>1, <1>3, <1>4, NoneAlone DEF BluePhases

\* Every decision.
LEMMA DecideSwitch == ASSUME IdInv, SwInv, Decide PROVE SwInv'
BY BeginSwitch, EndSwitch, GreenSwitch, BlueSwitch, ResumeSwitch, EnterSwitch, ReadSwitch,
   CutoverSwitch, RollbackSwitch DEF Decide

-----------------------------------------------------------------------------
(* The writes.                                                             *)

\* What the write w does to the Service and to the evidence.
Shows(w) ==
    /\ svc' = IF w.op = "svc" THEN w.color ELSE svc
    /\ "blue" \in seen /\ ~(w.op = "sts" /\ w.color = "blue" /\ w.sts.replicas = 0) => "blue" \in seen'
    /\ \A t \in Tokens :
          t \in seen /\ w.op # "cleanup?" /\ ~(w.op = "sts" /\ w.color = "green" /\ w.sts.tok # t)
             => t \in seen'

\* Each of the write actions does this.
LEMMA WriteShows ==
    ASSUME Inv, WriteSts \/ WriteCm \/ WriteSvc \/ WritePvc \/ WriteNode \/ WriteCleanup
    PROVE  \E w : Does(w) /\ Shows(w)
<1>1. PICK w : Does(w)
  BY WriteDoes
<1>2. w = Head(todo) /\ w \in Writes
  <2>1. todo # <<>> /\ w = todo[1] /\ w \in Writes /\ todo \in Seq(SeedingWrites)
    BY <1>1 DEF Does, Inv, TypeInv
  <2> QED
    BY <2>1
<1>3. "blue" \notin Tokens
  BY BlueGreenAssumption
<1>4. CASE WriteSts
  <2>1. /\ w.op = "sts" /\ svc' = svc
        /\ seen' = IF w.color = "green" THEN seen \cap {"blue", w.sts.tok}
                   ELSE IF w.sts.replicas = 0 THEN seen \ {"blue"} ELSE seen
    BY <1>2, <1>4 DEF WriteSts, NextWrite
  <2>2. w.color \in Colors
    BY <1>2, <2>1, WriteFields
  <2>3. Shows(w)
    BY <1>3, <2>1, <2>2 DEF Shows, Colors
  <2> QED
    BY <1>1, <2>3
<1>5. CASE WriteCm \/ WriteSvc \/ WritePvc \/ WriteNode
  <2>1. /\ svc' = IF w.op = "svc" THEN w.color ELSE svc
        /\ seen' = seen
    BY <1>2, <1>5 DEF WriteCm, WriteSvc, WritePvc, WriteNode, NextWrite, cluster
  <2>2. Shows(w)
    BY <2>1 DEF Shows
  <2> QED
    BY <1>1, <2>2
<1>6. CASE WriteCleanup
  <2>1. /\ svc' = svc
        /\ \/ w.op = "cleanup?" /\ seen' = seen \cap {"blue"}
           \/ w.op = "cleanCm?" /\ seen' = seen
    BY <1>2, <1>6 DEF WriteCleanup, NextWrite
  <2>2. Shows(w)
    BY <2>1 DEF Shows
  <2> QED
    BY <1>1, <2>2
<1> QED
  BY <1>4, <1>5, <1>6

\* A write keeps the evidence: green is not put back on the token of an older pod, and
\* blue is brought up or taken down only where the phase says so.
LEMMA WriteEvidence ==
    ASSUME Inv, Inv', Evidence, NEW w, Does(w), Shows(w),
           w.op = "sts" /\ w.color = "green" =>
              \/ w.sts.tok = NoToken \/ w.sts.tok = sts["green"].tok
              \/ w.sts.tok # pod["green"].tok,
           w.op = "sts" /\ w.color = "blue" =>
              \/ w.sts.replicas = 1 /\ ReadPhase(node) # "CuttingOver"
              \/ w.sts.replicas = 0 /\ (BlueDown \/ ReadPhase(node') = "CuttingOver"),
           ReadPhase(node) = "CuttingOver" => ReadPhase(node') = "CuttingOver" \/ BlueDown
    PROVE  Evidence'
<1>1. /\ pod' = pod
      /\ sts'["blue"] = IF w.op = "sts" /\ w.color = "blue" THEN w.sts ELSE sts["blue"]
      /\ sts'["green"] = IF w.op = "sts" /\ w.color = "green" THEN w.sts
                         ELSE IF w.op = "cleanup?" THEN NoSts ELSE sts["green"]
  BY DEF Does
<1>2. /\ sts["blue"].replicas \in {0, 1} /\ sts'["green"].tok \in Tokens \cup {NoToken}
  BY DEF Inv, TypeInv, ClusterTyped, TemplateType, Colors
<1>3. BlueDown /\ sts'["blue"].replicas = 0 => BlueDown'
  BY StepSituation
<1>4. pod["green"].tok = sts'["green"].tok /\ sts'["green"].tok # NoToken => sts'["green"].tok \in seen'
  <2> SUFFICES ASSUME pod["green"].tok = sts'["green"].tok, sts'["green"].tok # NoToken
               PROVE  sts'["green"].tok \in seen'
    OBVIOUS
  <2>1. w.op # "cleanup?"
    BY <1>1 DEF NoSts
  <2>2. sts'["green"].tok = sts["green"].tok
    BY <1>1, <2>1
  <2>3. sts["green"].tok \in seen
    BY <2>2 DEF Evidence
  <2>4. ~(w.op = "sts" /\ w.color = "green" /\ w.sts.tok # sts["green"].tok)
    BY <1>1, <2>2
  <2> QED
    BY <1>2, <2>1, <2>2, <2>3, <2>4 DEF Shows
<1>5. Synced("blue") /\ sts'["blue"].replicas = 1 => "blue" \in seen'
  <2> SUFFICES ASSUME Synced("blue"), sts'["blue"].replicas = 1 PROVE "blue" \in seen'
    OBVIOUS
  <2>1. ~BlueDown
    BY DEF BlueDown, StsFullyDown, Synced
  <2>2. sts["blue"].replicas = 1
    BY <1>1, <1>2, <2>1 DEF Evidence
  <2>3. "blue" \in seen /\ ~(w.op = "sts" /\ w.color = "blue" /\ w.sts.replicas = 0)
    BY <1>1, <2>2 DEF Evidence
  <2> QED
    BY <2>3 DEF Shows
<1>6. sts'["blue"].replicas = 0 => BlueDown' \/ ReadPhase(node') = "CuttingOver"
  BY <1>1, <1>3 DEF Evidence
<1> QED
  BY <1>1, <1>4, <1>5, <1>6 DEF Evidence, Synced

\* What the cutover has still to record, after the next write.
LEMMA CutTail ==
    ASSUME NEW T, NEW t \in Seq(T), t # <<>>, HasCut(t), ~Cuts(t[1])
    PROVE  HasCut(Tail(t))
<1>1. PICK i \in 1..Len(t) : Cuts(t[i])
  BY DEF HasCut
<1>2. /\ Len(t) \in Nat /\ Len(t) >= 1 /\ Len(Tail(t)) = Len(t) - 1
      /\ \A j \in 1..(Len(t) - 1) : Tail(t)[j] = t[j + 1]
  BY TailAt
<1>3. i # 1 /\ i - 1 \in 1..(Len(t) - 1) /\ (i - 1) + 1 = i
  BY <1>1, <1>2
<1>4. Tail(t)[i - 1] = t[i]
  BY <1>2, <1>3
<1> QED
  BY <1>1, <1>2, <1>3, <1>4 DEF HasCut

\* A write while blue is kept.
LEMMA BlueSelects ==
    ASSUME IdInv, IdInv', SwInv, BlueStage, NEW w, Does(w), Shows(w) PROVE SwInv'
<1>1. /\ todo # <<>> /\ w = todo[1] /\ todo' = Tail(todo) /\ UNCHANGED <<pc, view, ph, step>>
      /\ ph \in BluePhases /\ step = "none" /\ pc # "idle" /\ ReadPhase(node) \in BluePhases
      /\ Inv /\ Inv'
  BY DEF Does, BlueStage, IdInv
<1>2. BlueKind /\ BlueKind' /\ todo \in Seq(ForBlue)
  BY <1>1 DEF BlueKind, SwInv, BlueKeeps
<1>3. w \in ForBlue /\ todo' \in Seq(ForBlue)
  BY <1>1, <1>2, TailIn
<1>4. ReadPhase(node') \in BluePhases
  <2>1. BlueStage'
    BY <1>1 DEF IdInv, Stage, IdleStage, CutStage, EnterStage, DownStage, EnableStage, HoldStage,
       SwitchStage, GreenStage, BackStage, LeaveStage, StopStage, ReturnStage, Rolled, CutPass,
       BackPass, BluePhases, GreenPhases, CutoverSteps, RollbackSteps
  <2> QED
    BY <2>1 DEF BlueStage
<1>5. w.op = "sts" /\ w.color = "green" => w.sts.tok = NoToken
  <2>1. CASE todo \in Seq(BlueWrites(BlueTargets))
    <3>1. w \in BlueWrites(BlueTargets)
      BY <1>1, <2>1, TailIn
    <3> QED
      BY <3>1 DEF BlueWrites
  <2>2. CASE todo[1] \in StartWrites
    BY <1>1, <2>2 DEF StartWrites, IsPatch
  <2> QED
    BY <2>1, <2>2 DEF BlueStage
<1>6. /\ w.op = "svc" => w.color = "blue"
      /\ w.op = "sts" /\ w.color = "blue" => w.sts.replicas = 1
  BY <1>3 DEF ForBlue
<1>7. /\ ReadPhase(node) # "CuttingOver" /\ ReadPhase(node') # "CuttingOver"
      /\ ReadPhase(node') \notin GreenPhases
  BY <1>1, <1>4 DEF BluePhases, GreenPhases
<1>8. Evidence'
  BY <1>1, <1>5, <1>6, <1>7, WriteEvidence DEF SwInv
<1>9. Selected'
  <2>1. svc # "green"
    BY <1>1 DEF SwInv, Selected
  <2>2. svc' # "green"
    BY <1>6, <2>1 DEF Shows
  <2> QED
    BY <1>7, <2>2 DEF Selected
<1> QED
  BY <1>2, <1>3, <1>8, <1>9, BlueAlone

\* A write while green is kept.
LEMMA GreenSelects ==
    ASSUME IdInv, IdInv', SwInv, GreenStage, NEW w, Does(w), Shows(w) PROVE SwInv'
<1>1. /\ todo # <<>> /\ w = todo[1] /\ todo' = Tail(todo) /\ UNCHANGED <<pc, view, ph, step>>
      /\ ph \in GreenPhases /\ step = "none" /\ pc # "idle" /\ ReadPhase(node) \in GreenPhases
      /\ Inv /\ Inv' /\ NodeInv /\ todo \in Seq(GreenWrites)
  BY DEF Does, GreenStage, IdInv
<1>2. /\ GreenKind /\ GreenKind' /\ todo \in Seq(ForGreen(view.token))
      /\ view.token = sts["green"].tok
  BY <1>1 DEF GreenKind, SwInv, GreenKeeps
<1>3. w \in ForGreen(view.token) /\ todo' \in Seq(ForGreen(view.token)) /\ w \in GreenWrites
  BY <1>1, <1>2, TailIn
<1>4. /\ w.op # "cleanup?"
      /\ w.op = "svc" => w.color = "green"
      /\ w.op = "sts" /\ w.color = "green" => w.sts.tok = sts["green"].tok
      /\ w.op = "sts" /\ w.color = "blue" => w.sts.replicas = 0
      /\ IsPatch(w) => Moves(w.patch, GreenPhases, "green")
  BY <1>2, <1>3 DEF ForGreen, GreenWrites
<1>5. /\ ReadPhase(node') \in GreenPhases \cup {ReadPhase(node)} /\ node'.token = node.token
  <2>1. GreenPhases \in SUBSET Phases /\ GreenPhases \subseteq GreenSided /\ "green" \in Colors
    BY DEF Phases, GreenSided, GreenPhases, Colors
  <2> QED
    BY <1>1, <1>4, <2>1, StepMoves
<1>6. ReadPhase(node') \in GreenPhases /\ ReadPhase(node') \notin BluePhases
      /\ ReadPhase(node') # "CuttingOver" /\ ReadPhase(node) # "CuttingOver"
  BY <1>1, <1>5 DEF GreenPhases, BluePhases
<1>7. sts'["green"].tok = sts["green"].tok
  BY <1>4 DEF Does
<1>8. BlueDown
  BY <1>1 DEF NodeInv, Handed
<1>9. Evidence'
  BY <1>1, <1>4, <1>6, <1>8, WriteEvidence DEF SwInv
<1>10. Selected'
  <2>1. svc = "green" /\ sts["green"].tok = node.token
    BY <1>1 DEF SwInv, Selected
  <2>2. svc' = "green"
    BY <1>4, <2>1 DEF Shows
  <2> QED
    BY <1>5, <1>6, <1>7, <2>1, <2>2 DEF Selected
<1> QED
  BY <1>1, <1>2, <1>3, <1>7, <1>9, <1>10, GreenAlone

\* A write of the cutover goes on recording the step.
LEMMA CutRecords ==
    ASSUME Inv, SwInv, CutKind, NEW w, Does(w)
    PROVE  /\ CutKind' /\ CutKeeps' /\ w \in ForCutover(step)
           /\ step # "ScaleBlueDown" /\ Settled => Settled'
<1>1. /\ todo # <<>> /\ w = todo[1] /\ todo' = Tail(todo) /\ UNCHANGED <<pc, ph, step>>
      /\ node \in NodeType /\ todo \in Seq(SeedingWrites)
  BY DEF Does, Inv, TypeInv
<1>2. /\ todo \in Seq(ForCutover(step))
      /\ step # "ScaleBlueDown" => Settled \/ HasCut(todo)
  BY DEF SwInv, CutKeeps
<1>3. w \in ForCutover(step) /\ todo' \in Seq(ForCutover(step))
  BY <1>1, <1>2, TailIn
<1>4. node'.cut = IF Cuts(w) THEN w.patch.cut ELSE node.cut
  <2>1. CASE IsPatch(w)
    <3>1. w.patch \in Patches /\ node' = Merge(node, w.patch)
      BY <2>1 DEF Does
    <3>2. node'.cut = IF "cut" \in DOMAIN w.patch THEN w.patch.cut ELSE node.cut
      BY <1>1, <3>1, MergeFields
    <3> QED
      BY <2>1, <3>2 DEF Cuts
  <2>2. CASE ~IsPatch(w)
    BY <2>2 DEF Does, Cuts
  <2> QED
    BY <2>1, <2>2
<1>5. step # "ScaleBlueDown" /\ Cuts(w) => Settled'
  BY <1>3, <1>4 DEF ForCutover, Settled
<1>6. ~Cuts(w) /\ Settled => Settled'
  BY <1>4 DEF Settled
<1>7. ~Cuts(w) /\ HasCut(todo) => HasCut(todo')
  BY <1>1, CutTail
<1>8. CutKind'
  BY <1>1 DEF CutKind
<1>9. CutKeeps'
  BY <1>1, <1>2, <1>3, <1>5, <1>6, <1>7 DEF CutKeeps
<1> QED
  BY <1>3, <1>5, <1>6, <1>8, <1>9

\* A write that takes the node into the cutover.
LEMMA EnterSelects ==
    ASSUME IdInv, IdInv', SwInv, EnterStage, NEW w, Does(w), Shows(w) PROVE SwInv'
<1>1. /\ CutPass /\ step = "ScaleBlueDown" /\ pc = "cutover" /\ UNCHANGED <<pc, ph, step>>
      /\ ReadPhase(node) \in BluePhases \cup {"CuttingOver"}
      /\ EndsInStatus(EnterWrites, {"CuttingOver"}) /\ Inv /\ Inv' /\ NodeInv
  BY DEF EnterStage, Does, IdInv
<1>2. CutKind
  BY <1>1 DEF CutPass, CutKind
<1>3. w \in EnterWrites
  BY <1>1, StatusLast
<1>4. IsPatch(w) /\ Moves(w.patch, {"CuttingOver"}, "blue")
  BY <1>3 DEF EnterWrites
<1>5. ReadPhase(node') \in {"CuttingOver"} \cup {ReadPhase(node)}
  <2>1. {"CuttingOver"} \in SUBSET Phases /\ {"CuttingOver"} \cap GreenSided = {} /\ "blue" \in Colors
    BY DEF Phases, GreenSided, GreenPhases, Colors
  <2> QED
    BY <1>1, <1>4, <2>1, StepMoves
<1>6. svc' # "green"
  <2>1. svc # "green"
    BY <1>1, <1>2 DEF SwInv, DownKeeps
  <2> QED
    BY <1>4, <2>1 DEF Shows, IsPatch
<1>7. Evidence'
  BY <1>1, <1>4, <1>5, WriteEvidence DEF SwInv, IsPatch
<1>8. Selected'
  BY <1>1, <1>5, <1>6 DEF Selected, BluePhases, GreenPhases
<1>9. CutKind' /\ CutKeeps'
  BY <1>1, <1>2, CutRecords
<1>10. DownKeeps' /\ HoldKeeps'
  BY <1>1, <1>6 DEF DownKeeps, HoldKeeps
<1> QED
  BY <1>7, <1>8, <1>9, <1>10, CutAlone

\* A write of the cutover before green is told to publish.
LEMMA DownSelects ==
    ASSUME IdInv, IdInv', SwInv, DownStage, NEW w, Does(w), Shows(w) PROVE SwInv'
<1>1. /\ CutPass /\ step # "WaitGreenHealthy" /\ UNCHANGED <<pc, ph, step>>
      /\ ReadPhase(node) = "CuttingOver"
      /\ todo # <<>> /\ w = todo[1] /\ todo' = Tail(todo) /\ todo \in Seq(DownWrites)
      /\ Inv /\ Inv' /\ NodeInv
  BY DEF DownStage, Does, IdInv
<1>2. CutKind
  BY <1>1 DEF CutPass, CutKind
<1>3. /\ CutKind' /\ CutKeeps' /\ w \in ForCutover(step)
      /\ step # "ScaleBlueDown" /\ Settled => Settled'
  BY <1>1, <1>2, CutRecords
<1>4. w \in DownWrites
  BY <1>1, TailIn
<1>5. /\ w.op # "cleanup?" /\ (w.op = "svc" => w.color = "blue")
      /\ w.op = "sts" => w.color = "blue" /\ w.sts.replicas = 0
      /\ IsPatch(w) => Moves(w.patch, {"CuttingOver"}, "blue")
  BY <1>1, <1>3, <1>4 DEF DownWrites, ForCutover
<1>6. ReadPhase(node') = "CuttingOver"
  <2>1. {"CuttingOver"} \in SUBSET Phases /\ {"CuttingOver"} \cap GreenSided = {} /\ "blue" \in Colors
    BY DEF Phases, GreenSided, GreenPhases, Colors
  <2>2. ReadPhase(node') \in {"CuttingOver"} \cup {ReadPhase(node)}
    BY <1>1, <1>5, <2>1, StepMoves
  <2> QED
    BY <1>1, <2>2
<1>7. Evidence'
  BY <1>1, <1>5, <1>6, WriteEvidence DEF SwInv
<1>8. svc' = "green" => svc = "green"
  BY <1>5 DEF Shows
<1>9. svc = "green" => step # "ScaleBlueDown" /\ todo \in Seq(PatchWrites) /\ Settled
  BY <1>1, <1>2 DEF SwInv, DownKeeps, Selected
<1>10. Selected'
  BY <1>3, <1>6, <1>8, <1>9 DEF Selected, BluePhases, GreenPhases
<1>11. DownKeeps'
  <2>1. svc = "green" => todo' \in Seq(PatchWrites)
    BY <1>1, <1>9, TailIn
  <2> QED
    BY <1>1, <1>8, <1>9, <2>1 DEF DownKeeps
<1>12. HoldKeeps'
  BY <1>1 DEF HoldKeeps
<1> QED
  BY <1>3, <1>7, <1>10, <1>11, <1>12, CutAlone

\* Green is told to publish, restarted, and the token of the restart recorded.
LEMMA EnableSelects ==
    ASSUME IdInv, IdInv', SwInv, EnableStage, NEW w, Does(w), Shows(w) PROVE SwInv'
<1>1. /\ CutPass /\ step = "WaitGreenHealthy" /\ pc = "cutover" /\ UNCHANGED <<pc, ph, step, token, pod>>
      /\ ReadPhase(node) = "CuttingOver" /\ node \in NodeType
      /\ todo # <<>> /\ w = todo[1] /\ Inv /\ Inv'
  BY DEF EnableStage, Does, IdInv, Inv, TypeInv
<1>2. CutKind
  BY <1>1 DEF CutPass, CutKind
<1>3. /\ CutKind' /\ CutKeeps'
      /\ step # "ScaleBlueDown" /\ Settled => Settled'
  BY <1>1, <1>2, CutRecords
<1>4. Publishes1(w) \/ Restarts(w) \/ Records(w)
  BY <1>1 DEF EnableStage
<1>5. /\ w.op # "svc" /\ w.op # "cleanup?"
      /\ w.op = "sts" => w.color = "green" /\ w.sts.tok = token
  BY <1>4 DEF Publishes1, Restarts, Records, IsPatch
<1>6. ReadPhase(node') = "CuttingOver"
  <2>1. CASE Records(w)
    <3>1. w.patch \in Patches /\ node' = Merge(node, w.patch) /\ DOMAIN w.patch = {"token"}
      BY <2>1 DEF Does, Records
    <3>2. node'.sPhase = node.sPhase /\ node'.phase = node.phase
      BY <1>1, <3>1, MergeFields
    <3> QED
      BY <1>1, <3>2 DEF ReadPhase
  <2>2. CASE Publishes1(w) \/ Restarts(w)
    <3>1. node' = node
      BY <2>2 DEF Does, Publishes1, Restarts, IsPatch
    <3> QED
      BY <1>1, <3>1
  <2> QED
    BY <1>4, <2>1, <2>2
<1>7. sts["green"].tok = token \/ pod["green"].tok # token
  BY <1>1, <1>2 DEF SwInv, HoldKeeps
<1>8. Evidence'
  BY <1>1, <1>5, <1>6, <1>7, WriteEvidence DEF SwInv
<1>9. Selected'
  <2>1. svc' = svc
    BY <1>5 DEF Shows
  <2> QED
    BY <1>1, <1>3, <1>6, <2>1 DEF SwInv, Selected, BluePhases, GreenPhases
<1>10. HoldKeeps' /\ DownKeeps'
  <2>1. sts'["green"].tok = token \/ pod["green"].tok # token
    BY <1>5, <1>7 DEF Does
  <2> QED
    BY <1>1, <2>1 DEF HoldKeeps, DownKeeps
<1> QED
  BY <1>3, <1>8, <1>9, <1>10, CutAlone

\* A write while green is awaited.
LEMMA HoldSelects ==
    ASSUME IdInv, IdInv', SwInv, HoldStage, NEW w, Does(w), Shows(w) PROVE SwInv'
<1>1. /\ CutPass /\ step = "WaitGreenHealthy"
      /\ UNCHANGED <<pc, ph, step, token, pod>>
      /\ ReadPhase(node) = "CuttingOver" /\ Inv /\ Inv' /\ NodeInv
      /\ todo # <<>> /\ w = todo[1] /\ todo' = Tail(todo) /\ todo \in Seq(HoldWrites)
  BY DEF HoldStage, Rolled, Does, IdInv
<1>2. CutKind
  BY <1>1 DEF CutPass, CutKind
<1>3. /\ CutKind' /\ CutKeeps'
      /\ step # "ScaleBlueDown" /\ Settled => Settled'
  BY <1>1, <1>2, CutRecords
<1>4. w \in HoldWrites /\ todo' \in Seq(HoldWrites)
  BY <1>1, TailIn
<1>5. IsPatch(w) /\ Moves(w.patch, {"CuttingOver"}, "blue")
  BY <1>4 DEF HoldWrites
<1>6. ReadPhase(node') = "CuttingOver"
  <2>1. {"CuttingOver"} \in SUBSET Phases /\ {"CuttingOver"} \cap GreenSided = {} /\ "blue" \in Colors
    BY DEF Phases, GreenSided, GreenPhases, Colors
  <2>2. ReadPhase(node') \in {"CuttingOver"} \cup {ReadPhase(node)}
    BY <1>1, <1>5, <2>1, StepMoves
  <2> QED
    BY <1>1, <2>2
<1>7. svc' = svc /\ sts'["green"] = sts["green"]
  BY <1>5 DEF Shows, Does, IsPatch
<1>8. Evidence'
  BY <1>1, <1>5, <1>6, WriteEvidence DEF SwInv, IsPatch
<1>9. Selected'
  BY <1>1, <1>3, <1>6, <1>7 DEF SwInv, Selected, BluePhases, GreenPhases
<1>10. HoldKeeps' /\ DownKeeps'
  BY <1>1, <1>2, <1>4, <1>7 DEF SwInv, HoldKeeps, DownKeeps
<1> QED
  BY <1>3, <1>8, <1>9, <1>10, CutAlone

\* A write that ends the cutover.
LEMMA SwitchSelects ==
    ASSUME IdInv, IdInv', SwInv, SwitchStage, NEW w, Does(w), Shows(w) PROVE SwInv'
<1>1. /\ CutPass /\ step = "WaitGreenHealthy" /\ pc = "end" /\ Handed
      /\ Restarted /\ node.token = token /\ UNCHANGED <<pc, ph, step, token, pod>>
      /\ ReadPhase(node) \in {"CuttingOver", "GreenActive"} /\ Inv /\ Inv' /\ NodeInv
      /\ todo # <<>> /\ w = todo[1] /\ todo' = Tail(todo)
      /\ todo \in Seq(SwitchWrites) /\ todo \in Seq(SeedingWrites)
  BY DEF SwitchStage, Rolled, Does, IdInv, Inv, TypeInv
<1>2. CutKind
  BY <1>1 DEF CutPass, CutKind
<1>3. /\ CutKind' /\ CutKeeps'
      /\ step # "ScaleBlueDown" /\ Settled => Settled'
  BY <1>1, <1>2, CutRecords
<1>4. w \in SwitchWrites
  BY <1>1, TailIn
<1>5. /\ w.op = "svc" \/ IsPatch(w)
      /\ IsPatch(w) => Moves(w.patch, {"GreenActive"}, "green")
  BY <1>4 DEF SwitchWrites
<1>6. ReadPhase(node') \in {"GreenActive"} \cup {ReadPhase(node)} /\ node'.token = node.token
  <2>1. {"GreenActive"} \in SUBSET Phases /\ {"GreenActive"} \subseteq GreenSided /\ "green" \in Colors
    BY DEF Phases, GreenSided, GreenPhases, Colors
  <2> QED
    BY <1>1, <1>5, <2>1, StepMoves
<1>7. sts'["green"] = sts["green"] /\ BlueDown
  BY <1>1, <1>5 DEF Does, IsPatch, Handed
<1>8. Evidence'
  BY <1>1, <1>5, <1>7, WriteEvidence DEF SwInv, IsPatch
<1>9. /\ sts["green"].tok = token \/ pod["green"].tok # token
      /\ \/ todo \in Seq(HoldWrites)
         \/ Switched("green")
         \/ Poised("green") /\ token \in seen /\ Settled
  BY <1>1, <1>2 DEF SwInv, HoldKeeps
<1>10. DownKeeps'
  BY <1>1 DEF DownKeeps
<1>11. CASE todo \in Seq(HoldWrites)
  <2>1. w \in HoldWrites /\ todo' \in Seq(HoldWrites)
    BY <1>1, <1>11, TailIn
  <2>2. IsPatch(w) /\ Moves(w.patch, {"CuttingOver"}, "blue")
    BY <2>1 DEF HoldWrites
  <2>3. ReadPhase(node') \in {"CuttingOver"} \cup {ReadPhase(node)}
    <3>1. {"CuttingOver"} \in SUBSET Phases /\ {"CuttingOver"} \cap GreenSided = {} /\ "blue" \in Colors
      BY DEF Phases, GreenSided, GreenPhases, Colors
    <3> QED
      BY <1>1, <2>2, <3>1, StepMoves
  <2>4. ReadPhase(node') = ReadPhase(node)
    BY <1>6, <2>3
  <2>5. svc' = svc
    BY <2>2 DEF Shows, IsPatch
  <2>6. Selected'
    BY <1>1, <1>3, <1>6, <1>7, <2>4, <2>5 DEF SwInv, Selected
  <2>7. HoldKeeps'
    BY <1>1, <1>7, <1>9, <2>1 DEF HoldKeeps
  <2> QED
    BY <1>3, <1>8, <1>10, <2>6, <2>7, CutAlone
<1>12. CASE Switched("green") \/ (Poised("green") /\ Settled)
  <2>1. svc' = "green" /\ todo' \in Seq(PatchWrites)
    <3>1. CASE Switched("green")
      <4>1. svc = "green" /\ todo \in Seq(PatchWrites)
        BY <3>1 DEF Switched
      <4>2. w \in PatchWrites /\ todo' \in Seq(PatchWrites)
        BY <1>1, <4>1, TailIn
      <4> QED
        BY <4>1, <4>2 DEF Shows, PatchWrites, IsPatch
    <3>2. CASE Poised("green")
      <4>1. w.op = "svc" /\ w.color = "green" /\ From(2, PatchWrites)
        BY <1>1, <3>2 DEF Poised
      <4>2. todo' \in Seq(PatchWrites)
        BY <1>1, <4>1, TailFrom DEF From
      <4> QED
        BY <4>1, <4>2 DEF Shows
    <3> QED
      BY <1>12, <3>1, <3>2
  <2>2. ReadPhase(node) = "CuttingOver" => Settled
    BY <1>12 DEF Switched, SwInv, Selected
  <2>3. ReadPhase(node') = "CuttingOver" => Settled'
    BY <1>1, <1>3, <1>6, <2>2
  <2>4. sts'["green"].tok = node'.token
    BY <1>1, <1>6, <1>7 DEF Restarted
  <2>5. ReadPhase(node') \notin BluePhases
    BY <1>1, <1>6 DEF BluePhases
  <2>6. Selected'
    BY <2>1, <2>3, <2>4, <2>5 DEF Selected
  <2>7. HoldKeeps'
    BY <1>1, <1>7, <1>9, <2>1 DEF HoldKeeps, Switched
  <2> QED
    BY <1>3, <1>8, <1>10, <2>6, <2>7, CutAlone
<1> QED
  BY <1>9, <1>11, <1>12

\* A write that takes the node into the rollback.
LEMMA LeaveSelects ==
    ASSUME IdInv, IdInv', SwInv, LeaveStage, NEW w, Does(w), Shows(w) PROVE SwInv'
<1>1. /\ BackPass /\ BackPass' /\ step = "StopGreen" /\ pc = "rollback"
      /\ ReadPhase(node) \in GreenSided /\ EndsInStatus(LeaveWrites, {"RollingBack"})
      /\ todo # <<>> /\ w = todo[1] /\ todo' = Tail(todo) /\ Inv /\ Inv' /\ NodeInv
  BY DEF LeaveStage, Does, IdInv, BackPass
<1>2. w \in LeaveWrites
  BY <1>1, StatusLast
<1>3. IsPatch(w) /\ Moves(w.patch, {"RollingBack"}, "green")
  BY <1>2 DEF LeaveWrites
<1>4. ReadPhase(node') \in {"RollingBack"} \cup {ReadPhase(node)} /\ node'.token = node.token
  <2>1. {"RollingBack"} \in SUBSET Phases /\ {"RollingBack"} \subseteq GreenSided /\ "green" \in Colors
    BY DEF Phases, GreenSided, GreenPhases, Colors
  <2> QED
    BY <1>1, <1>3, <2>1, StepMoves
<1>5. svc' = svc /\ sts'["green"] = sts["green"]
  BY <1>3 DEF Shows, Does, IsPatch
<1>6. /\ ReadPhase(node) # "CuttingOver" /\ ReadPhase(node') # "CuttingOver"
      /\ ReadPhase(node') \notin BluePhases
  BY <1>1, <1>4 DEF GreenSided, GreenPhases, BluePhases
<1>7. Evidence'
  BY <1>1, <1>3, <1>6, WriteEvidence DEF SwInv, IsPatch
<1>8. Selected'
  <2>1. ReadPhase(node') \in GreenPhases => ReadPhase(node) \in GreenPhases
    BY <1>4 DEF GreenPhases
  <2> QED
    BY <1>4, <1>5, <1>6, <2>1 DEF SwInv, Selected
<1>9. todo \in Seq(ForBlue) /\ todo \in Seq(ForRollback)
  BY <1>1 DEF SwInv, BackKeeps, Switched, Poised
<1>10. todo' \in Seq(ForBlue) /\ todo' \in Seq(ForRollback)
  BY <1>1, <1>9, TailIn
<1>11. BackKeeps'
  BY <1>10 DEF BackKeeps
<1> QED
  BY <1>1, <1>7, <1>8, <1>11, BackAlone

\* Green is told to stand by, then its StatefulSet loses the token.
LEMMA StopSelects ==
    ASSUME IdInv, IdInv', SwInv, StopStage, NEW w, Does(w), Shows(w) PROVE SwInv'
<1>1. /\ BackPass /\ BackPass' /\ pc = "rollback" /\ ReadPhase(node) = "RollingBack"
      /\ todo # <<>> /\ w = todo[1] /\ todo' = Tail(todo) /\ Inv /\ Inv'
  BY DEF StopStage, Does, IdInv, BackPass
<1>2. Stands(w) \/ Strips(w)
  BY <1>1 DEF StopStage
<1>3. /\ ~IsPatch(w) /\ w.op # "cleanup?"
      /\ w.op = "sts" => w.color = "green" /\ w.sts.tok = NoToken
  BY <1>2 DEF Stands, Strips, IsPatch
<1>4. ReadPhase(node') = "RollingBack"
  BY <1>1, <1>3 DEF Does
<1>5. Evidence'
  BY <1>1, <1>3, WriteEvidence DEF SwInv
<1>6. Selected'
  BY <1>4 DEF Selected, BluePhases, GreenPhases
<1>7. todo \in Seq(ForBlue) /\ todo \in Seq(ForRollback)
  BY <1>1 DEF SwInv, BackKeeps, Switched, Poised
<1>8. todo' \in Seq(ForBlue) /\ todo' \in Seq(ForRollback)
  BY <1>1, <1>7, TailIn
<1>9. BackKeeps'
  BY <1>8 DEF BackKeeps
<1> QED
  BY <1>1, <1>5, <1>6, <1>9, BackAlone

\* A write while blue is brought back.
LEMMA ReturnSelects ==
    ASSUME IdInv, IdInv', SwInv, ReturnStage, NEW w, Does(w), Shows(w) PROVE SwInv'
<1>1. /\ BackPass /\ BackPass' /\ pc' = pc
      /\ ReadPhase(node) \in {"RollingBack", "BlueActive"}
      /\ ReadPhase(node') \in {"RollingBack", "BlueActive"}
      /\ todo # <<>> /\ w = todo[1] /\ todo' = Tail(todo) /\ Inv /\ Inv' /\ NodeInv
      /\ todo \in Seq(ReturnWrites) /\ todo \in Seq(SeedingWrites)
  <2>1. ph' = ph /\ step' = step /\ step # "StopGreen" /\ BackPass
    BY DEF ReturnStage, Does
  <2>2. BackPass' /\ step' # "StopGreen"
    BY <2>1 DEF BackPass
  <2>3. ReturnStage' \/ StopStage'
    BY <2>2 DEF IdInv, Stage, IdleStage, BlueStage, CutStage, EnterStage, DownStage, EnableStage,
       HoldStage, SwitchStage, GreenStage, BackStage, LeaveStage, Rolled, CutPass, BackPass,
       BluePhases, GreenPhases, GreenSided, CutoverSteps, RollbackSteps
  <2> QED
    BY <2>1, <2>2, <2>3 DEF ReturnStage, StopStage, Does, IdInv, Inv, TypeInv
<1>2. w \in ReturnWrites
  BY <1>1, TailIn
<1>3. /\ todo \in Seq(ForBlue)
      /\ \/ todo \in Seq(ForRollback)
         \/ Switched("blue")
         \/ Poised("blue") /\ "blue" \in seen
  BY <1>1 DEF SwInv, BackKeeps
<1>4. w \in ForBlue /\ todo' \in Seq(ForBlue)
  BY <1>1, <1>3, TailIn
<1>5. /\ w.op = "svc" \/ w.op = "sts" \/ IsPatch(w)
      /\ w.op = "sts" => w.color = "blue" /\ w.sts.replicas = 1
      /\ w.op = "svc" => w.color = "blue"
  BY <1>2, <1>4 DEF ReturnWrites, ForBlue
<1>6. /\ ReadPhase(node) # "CuttingOver" /\ ReadPhase(node') # "CuttingOver"
      /\ ReadPhase(node') \notin GreenPhases
  BY <1>1 DEF GreenPhases
<1>7. Evidence'
  BY <1>1, <1>5, <1>6, WriteEvidence DEF SwInv
<1>8. CASE todo \in Seq(ForRollback)
  <2>1. w \in ForRollback /\ todo' \in Seq(ForRollback)
    BY <1>1, <1>8, TailIn
  <2>2. w.op # "svc" /\ (IsPatch(w) => Moves(w.patch, {"RollingBack"}, "green"))
    BY <2>1 DEF ForRollback
  <2>3. ReadPhase(node') \in {"RollingBack"} \cup {ReadPhase(node)}
    <3>1. {"RollingBack"} \in SUBSET Phases /\ {"RollingBack"} \subseteq GreenSided /\ "green" \in Colors
      BY DEF Phases, GreenSided, GreenPhases, Colors
    <3> QED
      BY <1>1, <2>2, <3>1, StepMoves
  <2>4. svc' = svc
    BY <2>2 DEF Shows
  <2>5. Selected'
    BY <1>1, <1>6, <2>3, <2>4 DEF SwInv, Selected, BluePhases
  <2>6. BackKeeps'
    BY <1>4, <2>1 DEF BackKeeps
  <2> QED
    BY <1>1, <1>7, <2>5, <2>6, BackAlone
<1>9. CASE Switched("blue") \/ Poised("blue")
  <2>1. svc' = "blue" /\ todo' \in Seq(PatchWrites) /\ pc = "end"
    <3>1. CASE Switched("blue")
      <4>1. svc = "blue" /\ todo \in Seq(PatchWrites) /\ pc = "end"
        BY <3>1 DEF Switched
      <4>2. w \in PatchWrites /\ todo' \in Seq(PatchWrites)
        BY <1>1, <4>1, TailIn
      <4> QED
        BY <4>1, <4>2 DEF Shows, PatchWrites, IsPatch
    <3>2. CASE Poised("blue")
      <4>1. w.op = "svc" /\ w.color = "blue" /\ From(2, PatchWrites) /\ pc = "end"
        BY <1>1, <3>2 DEF Poised
      <4>2. todo' \in Seq(PatchWrites)
        BY <1>1, <4>1, TailFrom DEF From
      <4> QED
        BY <4>1, <4>2 DEF Shows
    <3> QED
      BY <1>9, <3>1, <3>2
  <2>2. Selected'
    BY <1>6, <2>1 DEF Selected
  <2>3. BackKeeps'
    BY <1>1, <1>4, <2>1 DEF BackKeeps, Switched
  <2> QED
    BY <1>1, <1>7, <2>2, <2>3, BackAlone
<1> QED
  BY <1>3, <1>8, <1>9

\* Every write.
LEMMA WriteSwitch == ASSUME IdInv, IdInv', SwInv, Write PROVE SwInv'
<1>1. CASE RefuseSts
  BY <1>1, EndSwitch
<1>2. CASE ~RefuseSts
  <2>1. PICK w : Does(w) /\ Shows(w)
    BY <1>2, WriteShows DEF Write, IdInv
  <2>2. ~IdleStage /\ ~CutStage /\ ~BackStage
    BY <2>1 DEF Does, IdleStage, CutStage, BackStage
  <2> QED
    BY <2>1, <2>2, BlueSelects, EnterSelects, DownSelects, EnableSelects, HoldSelects, SwitchSelects,
       GreenSelects, LeaveSelects, StopSelects, ReturnSelects DEF IdInv, Stage
<1> QED
  BY <1>1, <1>2

-----------------------------------------------------------------------------
(* Steps beside the pass.                                                  *)

\* The pass and what it selects are left alone, and so is the evidence.
Endures ==
    /\ UNCHANGED <<sts, svc, pc, view, ph, step, token, todo, read>>
    /\ \A f \in Told : node'[f] = node[f]
    /\ seen \subseteq seen' /\ Evidence'
    /\ pod'["green"].tok \in {pod["green"].tok, sts["green"].tok, NoToken}

\* Then the pass goes on as it was.
LEMMA EnduringSwitch == ASSUME IdInv, SwInv, Endures PROVE SwInv'
<1>1. /\ UNCHANGED <<sts, svc, pc, view, ph, step, token, todo, read>>
      /\ ReadPhase(node') = ReadPhase(node) /\ node'.token = node.token /\ (Settled' <=> Settled)
  BY DEF Endures, Told, ReadPhase, Settled
<1>2. Evidence' /\ Selected'
  BY <1>1 DEF Endures, SwInv, Selected
<1>3. BlueKeeps' /\ GreenKeeps' /\ DownKeeps'
  BY <1>1 DEF SwInv, BlueKeeps, GreenKeeps, DownKeeps, BlueKind, GreenKind, CutKind
<1>4. CutKeeps'
  BY <1>1 DEF SwInv, CutKeeps, CutKind
<1>5. \A c \in Colors : (Switched(c) => Switched(c)') /\ (Poised(c) => Poised(c)')
  BY <1>1 DEF Switched, Poised, From
<1>6. HoldKeeps'
  <2> SUFFICES ASSUME CutKind, step = "WaitGreenHealthy" PROVE HoldKeeps'
    BY <1>1 DEF HoldKeeps, CutKind
  <2>1. token # NoToken
    BY DEF IdInv, Stage, IdleStage, BlueStage, CutStage, EnterStage, DownStage, EnableStage, HoldStage,
       SwitchStage, GreenStage, BackStage, LeaveStage, StopStage, ReturnStage, Rolled, BackPass,
       CutKind, GreenSided, GreenPhases
  <2>2. sts["green"].tok = token \/ pod'["green"].tok # token
    BY <2>1 DEF SwInv, HoldKeeps, Endures
  <2>3. pc = "end" => \/ todo \in Seq(HoldWrites)
                      \/ Switched("green")
                      \/ Poised("green") /\ token \in seen /\ Settled
    BY DEF SwInv, HoldKeeps
  <2>4. token \in seen => token \in seen'
    BY DEF Endures
  <2>5. (Switched("green") => Switched("green")') /\ (Poised("green") => Poised("green")')
    BY <1>5 DEF Colors
  <2> QED
    BY <1>1, <2>2, <2>3, <2>4, <2>5 DEF HoldKeeps
<1>7. BackKeeps'
  <2>1. (Switched("blue") => Switched("blue")') /\ (Poised("blue") => Poised("blue")')
    BY <1>5 DEF Colors
  <2>2. "blue" \in seen => "blue" \in seen'
    BY DEF Endures
  <2>3. (BackPass' <=> BackPass) /\ todo' = todo
    BY <1>1 DEF BackPass
  <2> QED
    BY <2>1, <2>2, <2>3 DEF SwInv, BackKeeps
<1> QED
  BY <1>2, <1>3, <1>4, <1>6, <1>7 DEF SwInv

\* The evidence of what is left as it was.
LEMMA EvidenceKept ==
    ASSUME SwInv, UNCHANGED <<sts, pod, seen>>, \A f \in Told : node'[f] = node[f]
    PROVE  Evidence'
<1>1. ReadPhase(node') = ReadPhase(node)
  BY DEF Told, ReadPhase
<1> QED
  BY <1>1 DEF SwInv, Evidence, Synced, BlueDown, StsFullyDown

\* The user and the CSI driver.
LEMMA WorldEndures ==
    ASSUME Inv, SwInv, Faithful, WatchLags \/ SetVersion \/ RequestRetry \/ SnapshotReady
    PROVE  Endures
<1>1. ~WatchLags
  BY DEF WatchLags, Faithful
<1>2. UNCHANGED <<sts, svc, pod, seen>>
  BY <1>1 DEF SetVersion, RequestRetry, Edit, SnapshotReady, cluster, kubelet
<1>3. Persists
  BY WorldPersists
<1>4. UNCHANGED <<pc, view, ph, step, token, todo, read>> /\ \A f \in Told : node'[f] = node[f]
  BY <1>3 DEF Persists
<1> QED
  BY <1>2, <1>4, EvidenceKept DEF Endures

\* A green pod was there, or has just been seen to start; a healthy blue pod was healthy,
\* or has just been seen to become so.
LEMMA PodSeen ==
    ASSUME Inv, NEW c \in Colors, Settle(c) \/ PodFails(c) \/ PodEvicted(c)
    PROVE  /\ \/ pod'[c].tok \in {pod[c].tok, NoToken}
              \/ pod'[c].tok = sts[c].tok /\ (c = "green" => sts[c].tok \in seen')
           /\ c = "blue" /\ Synced(c)' => Synced(c) \/ "blue" \in seen'
           /\ \A d \in Colors \ {c} : pod'[d] = pod[d]
           /\ seen \subseteq seen'
<1>1. pod \in [Colors -> PodType] /\ pod[c] \in PodType
  BY DEF Inv, TypeInv, ClusterTyped
<1>2. CASE PodCreate(c)
  BY <1>1, <1>2 DEF PodCreate, PodStep, Synced
<1>3. CASE PodBecomesReady(c)
  BY <1>1, <1>3 DEF PodBecomesReady, PodStep, PodType, Synced
<1>4. CASE PodBecomesSynced(c)
  BY <1>1, <1>4 DEF PodBecomesSynced, PodStep, PodType, Synced
<1>5. CASE PodTerminate(c) \/ PodEvicted(c)
  BY <1>1, <1>5 DEF PodTerminate, PodEvicted, PodStep, PodType, Synced
<1>6. CASE PodGone(c)
  BY <1>1, <1>6 DEF PodGone, PodStep, NoPod, Synced
<1>7. CASE PodFails(c)
  <2>1. CASE PodStep(c, [pod[c] EXCEPT !.st = "up", !.pub = Publishes(c)])
    BY <1>1, <1>7, <2>1 DEF PodFails, PodStep, PodType, Synced
  <2>2. CASE PodStep(c, [pod[c] EXCEPT !.st = "ready"])
    BY <1>1, <1>7, <2>2 DEF PodFails, PodStep, PodType, Synced
  <2> QED
    BY <1>7, <2>1, <2>2 DEF PodFails
<1> QED
  BY <1>2, <1>3, <1>4, <1>5, <1>6, <1>7 DEF Settle

\* Kubernetes and the pods.
LEMMA PodEndures ==
    ASSUME IdInv, SwInv, NEW c \in Colors, Settle(c) \/ PodFails(c) \/ PodEvicted(c)
    PROVE  Endures
<1>1. /\ \/ pod'[c].tok \in {pod[c].tok, NoToken}
         \/ pod'[c].tok = sts[c].tok /\ (c = "green" => sts[c].tok \in seen')
      /\ c = "blue" /\ Synced(c)' => Synced(c) \/ "blue" \in seen'
      /\ \A d \in Colors \ {c} : pod'[d] = pod[d]
      /\ seen \subseteq seen'
  BY PodSeen DEF IdInv
<1>2. PICK p : PodStep(c, p)
  BY DEF Settle, PodCreate, PodBecomesReady, PodBecomesSynced, PodTerminate, PodGone, PodFails,
         PodEvicted
<1>3. svc' = svc /\ node' = node
  BY <1>2 DEF PodStep, cluster
<1>4. Persists
  BY PodPersists DEF IdInv
<1>5. UNCHANGED <<sts, pc, view, ph, step, token, todo, read>> /\ (BlueDown => BlueDown')
  BY <1>4 DEF Persists
<1>6. CASE c = "blue"
  <2>1. pod'["green"] = pod["green"]
    BY <1>1, <1>6 DEF Colors
  <2>2. Synced("blue")' => Synced("blue") \/ "blue" \in seen'
    BY <1>1, <1>6
  <2>3. Evidence'
    BY <1>1, <1>3, <1>5, <2>1, <2>2 DEF SwInv, Evidence, Synced
  <2> QED
    BY <1>1, <1>3, <1>5, <2>1, <2>3 DEF Endures
<1>7. CASE c = "green"
  <2>1. pod'["blue"] = pod["blue"]
    BY <1>1, <1>7 DEF Colors
  <2>2. \/ pod'["green"].tok \in {pod["green"].tok, NoToken}
        \/ pod'["green"].tok = sts["green"].tok /\ sts["green"].tok \in seen'
    BY <1>1, <1>7
  <2>3. Evidence'
    BY <1>1, <1>3, <1>5, <2>1, <2>2 DEF SwInv, Evidence, Synced
  <2> QED
    BY <1>1, <1>3, <1>5, <2>2, <2>3 DEF Endures
<1> QED
  BY <1>6, <1>7 DEF Colors

-----------------------------------------------------------------------------
(* The theorem.                                                            *)

\* The initial state.
LEMMA InitSwInv == Init => SwInv
<1> SUFFICES ASSUME Init PROVE SwInv
  OBVIOUS
<1>1. PICK v \in Versions : node = NewNode(v)
  BY DEF Init
<1>2. ReadPhase(node) = "BlueActive"
  BY <1>1 DEF NewNode, ReadPhase
<1>3. /\ pod["green"].st = "none" /\ pod["blue"].st = "none" /\ sts["blue"].replicas = 0
      /\ svc = "none" /\ ph = "none" /\ step = "none"
  BY DEF Init, NoPod, NoSts, Colors
<1>4. Evidence
  <2>1. sts["green"].tok = NoToken
    BY DEF Init, NoSts, Colors
  <2> QED
    BY <1>3, <2>1 DEF Evidence, Synced, BlueDown, StsFullyDown
<1>5. Selected
  BY <1>2, <1>3 DEF Selected, GreenPhases
<1>6. ~BlueKind /\ ~GreenKind /\ ~CutKind /\ ~BackPass
  BY <1>3 DEF BlueKind, GreenKind, CutKind, BackPass, BluePhases, GreenPhases, GreenSided
<1> QED
  BY <1>4, <1>5, <1>6 DEF SwInv, BlueKeeps, GreenKeeps, CutKeeps, DownKeeps, HoldKeeps, BackKeeps

\* Every step keeps the invariant.
LEMMA NextKeepsSwInv == Faithful /\ IdInv /\ IdInv' /\ SwInv /\ [Next]_vars => SwInv'
<1> SUFFICES ASSUME Faithful, IdInv, IdInv', SwInv, [Next]_vars PROVE SwInv'
  OBVIOUS
<1>1. CASE UNCHANGED vars
  <2>1. UNCHANGED <<node, sts, svc, pc, view, ph, step, token, todo, read, pod, seen>>
    BY <1>1 DEF vars, cluster, kubelet, locals
  <2>2. Endures
    BY <2>1, EvidenceKept DEF Endures
  <2> QED
    BY <2>2, EnduringSwitch
<1>2. CASE Decide
  BY <1>2, DecideSwitch
<1>3. CASE Write
  BY <1>3, WriteSwitch
<1>4. CASE LoseWrite
  BY <1>4 DEF LoseWrite, Faithful
<1>5. CASE Abort
  BY <1>5, EndSwitch
<1>6. CASE WatchLags \/ SetVersion \/ RequestRetry \/ SnapshotReady
  BY <1>6, WorldEndures, EnduringSwitch DEF IdInv
<1>7. CASE \E c \in Colors : Settle(c) \/ PodFails(c) \/ PodEvicted(c)
  BY <1>7, PodEndures, EnduringSwitch
<1> QED
  BY <1>1, <1>2, <1>3, <1>4, <1>5, <1>6, <1>7 DEF Next

\* While the passes are faithful, both invariants hold.
LEMMA SwInvHolds == Faithful /\ Spec => [](IdInv /\ SwInv)
<1> SUFFICES ASSUME Faithful PROVE Spec => [](IdInv /\ SwInv)
  OBVIOUS
<1>1. Init => IdInv /\ SwInv
  BY InitIdInv, InitSwInv
<1>2. IdInv /\ SwInv /\ [Next]_vars => (IdInv /\ SwInv)'
  BY NextKeepsIdInv, NextKeepsSwInv
<1> QED
  BY <1>1, <1>2, PTL DEF Spec

\* Only the apply of the Service moves it.
LEMMA ServiceWritten ==
    ASSUME Inv, [Next]_vars, svc' # svc
    PROVE  WriteSvc
<1>1. ~Decide
  BY DEF Decide, Begin, End, DeferUpgrade, StayDeferred, MaintainGreen, KeepFailed, MaintainBlue,
     StartRollout, Resume, CreateSnapshot, SnapshotRefused, AwaitSnapshot, CreateGreen, SeedGreen,
     TimeOut, AwaitGreen, EnterCutover, ReadBlueDown, ReadGreenHealth, ScaleBlueToZero, EnableGreenPublishingAndRestart,
     SwitchServiceToGreen, CutoverWait, GreenHealthy, StartRollback, ScaleGreenToZero, ScaleBlueToOne,
     SwitchServiceToBlue, RollbackWait, unmoved, cluster
<1>2. ~(WriteSts \/ RefuseSts \/ WriteCm \/ WritePvc \/ WriteNode \/ WriteCleanup) /\ ~LoseWrite /\ ~Abort
  BY DEF WriteSts, RefuseSts, WriteCm, WritePvc, WriteNode, WriteCleanup, LoseWrite, Abort, unmoved,
     cluster
<1>3. ~(WatchLags \/ SetVersion \/ RequestRetry \/ SnapshotReady)
  BY DEF WatchLags, SetVersion, RequestRetry, Edit, SnapshotReady, cluster
<1>4. ~\E c \in Colors : Settle(c) \/ PodFails(c) \/ PodEvicted(c)
  BY DEF Settle, PodCreate, PodBecomesReady, PodBecomesSynced, PodTerminate, PodGone, PodFails,
     PodEvicted, PodStep, cluster
<1>5. ~UNCHANGED vars
  BY DEF vars, cluster
<1> QED
  BY <1>1, <1>2, <1>3, <1>4, <1>5 DEF Next, Write

\* Which pass applies the Service, with what evidence.
LEMMA ServiceMoves ==
    ASSUME IdInv, SwInv, NEW w, Does(w), w.op = "svc", w.color # svc
    PROVE  /\ svc = "blue" /\ w.color = "green" =>
                /\ sts["green"].tok # NoToken /\ sts["green"].tok \in seen
                /\ sts["blue"].replicas = 0 /\ pod["blue"].st = "none"
           /\ svc = "green" /\ w.color = "blue" => "blue" \in seen
<1>1. /\ todo # <<>> /\ w = todo[1] /\ w \in Writes /\ ~IsPatch(w) /\ Inv
      /\ todo \notin Seq(PatchWrites)
  <2>1. todo # <<>> /\ w = todo[1] /\ w \in Writes /\ ~IsPatch(w) /\ Inv
    BY DEF Does, IsPatch, IdInv
  <2>2. ASSUME todo \in Seq(PatchWrites) PROVE FALSE
    <3>1. w \in PatchWrites
      BY <2>1, <2>2, TailIn
    <3> QED
      BY <2>1, <3>1 DEF PatchWrites
  <2> QED
    BY <2>1, <2>2
<1>2. CASE BlueStage
  <2>1. todo \in Seq(ForBlue) /\ svc # "green"
    BY <1>2 DEF BlueStage, BlueKind, SwInv, BlueKeeps, Selected
  <2>2. w \in ForBlue
    BY <1>1, <2>1, TailIn
  <2> QED
    BY <2>1, <2>2 DEF ForBlue
<1>3. CASE EnterStage
  <2>1. w \in EnterWrites
    BY <1>1, <1>3, StatusLast DEF EnterStage
  <2> QED
    BY <1>1, <2>1 DEF EnterWrites
<1>4. CASE DownStage
  <2>1. /\ CutKind /\ step # "WaitGreenHealthy"
    BY <1>4 DEF DownStage, CutPass, CutKind
  <2>2. todo \in Seq(ForCutover(step)) /\ svc # "green"
    BY <1>1, <2>1 DEF SwInv, CutKeeps, DownKeeps
  <2>3. w \in ForCutover(step)
    BY <1>1, <2>2, TailIn
  <2> QED
    BY <2>1, <2>2, <2>3 DEF ForCutover
<1>5. CASE EnableStage
  BY <1>1, <1>5 DEF EnableStage, Publishes1, Restarts, Records
<1>6. CASE HoldStage
  <2>1. w \in HoldWrites
    BY <1>1, <1>6, TailIn DEF HoldStage
  <2> QED
    BY <1>1, <2>1 DEF HoldWrites
<1>7. CASE SwitchStage
  <2>1. /\ CutKind /\ step = "WaitGreenHealthy" /\ pc = "end" /\ token # NoToken
        /\ sts["green"].tok = token /\ BlueDown
    BY <1>7 DEF SwitchStage, Rolled, Restarted, CutPass, CutKind
  <2>2. ASSUME todo \in Seq(HoldWrites) PROVE FALSE
    <3>1. w \in HoldWrites
      BY <1>1, <2>2, TailIn
    <3> QED
      BY <1>1, <3>1 DEF HoldWrites
  <2>3. Poised("green") /\ token \in seen
    BY <1>1, <2>1, <2>2 DEF SwInv, HoldKeeps, Switched
  <2> QED
    BY <1>1, <2>1, <2>3 DEF Poised, BlueDown, StsFullyDown
<1>8. CASE GreenStage
  <2>1. todo \in Seq(ForGreen(view.token)) /\ svc = "green"
    BY <1>8 DEF GreenStage, GreenKind, SwInv, GreenKeeps, Selected
  <2>2. w \in ForGreen(view.token)
    BY <1>1, <2>1, TailIn
  <2> QED
    BY <2>1, <2>2 DEF ForGreen
<1>9. CASE LeaveStage
  <2>1. w \in LeaveWrites
    BY <1>1, <1>9, StatusLast DEF LeaveStage
  <2> QED
    BY <1>1, <2>1 DEF LeaveWrites
<1>10. CASE StopStage
  BY <1>1, <1>10 DEF StopStage, Stands, Strips
<1>11. CASE ReturnStage
  <2>1. /\ todo \in Seq(ForBlue)
        /\ \/ todo \in Seq(ForRollback)
           \/ Switched("blue")
           \/ Poised("blue") /\ "blue" \in seen
    BY <1>11 DEF ReturnStage, SwInv, BackKeeps
  <2>2. w \in ForBlue
    BY <1>1, <2>1, TailIn
  <2>3. ASSUME todo \in Seq(ForRollback) PROVE FALSE
    <3>1. w \in ForRollback
      BY <1>1, <2>3, TailIn
    <3> QED
      BY <3>1 DEF ForRollback
  <2>4. "blue" \in seen
    BY <1>1, <2>1, <2>3 DEF Switched
  <2> QED
    BY <2>2, <2>4 DEF ForBlue
<1>12. ~IdleStage /\ ~CutStage /\ ~BackStage
  BY <1>1 DEF IdleStage, CutStage, BackStage
<1> QED
  BY <1>2, <1>3, <1>4, <1>5, <1>6, <1>7, <1>8, <1>9, <1>10, <1>11, <1>12 DEF IdInv, Stage

\* run_cutover_steps and run_rollback_steps: while a pass works on the node as it is and no
\* patch is lost, the Service moves to green only once blue is down and a green pod of the
\* current publish rollout has started, and back only once blue has been healthy, however the
\* pods move between the reads and wherever passes are aborted or pods fail.
THEOREM SwitchedInRollout == Faithful /\ Spec => SwitchFollowsRollout
<1> SUFFICES ASSUME Faithful PROVE Spec => SwitchFollowsRollout
  OBVIOUS
<1> DEFINE Justified == /\ svc = "blue" /\ svc' = "green" =>
                             /\ sts["green"].tok # NoToken /\ sts["green"].tok \in seen
                             /\ sts["blue"].replicas = 0 /\ pod["blue"].st = "none"
                        /\ svc = "green" /\ svc' = "blue" => "blue" \in seen
<1>1. IdInv /\ SwInv /\ [Next]_vars => [Justified]_vars
  <2> SUFFICES ASSUME IdInv, SwInv, [Next]_vars PROVE Justified
    OBVIOUS
  <2>1. CASE svc' = svc
    BY <2>1
  <2>2. CASE svc' # svc
    <3>1. WriteSvc /\ Inv
      BY <2>2, ServiceWritten DEF IdInv
    <3>2. PICK w : Does(w) /\ Shows(w)
      BY <3>1, WriteShows
    <3>3. w.op = "svc" /\ svc' = w.color
      BY <2>2, <3>2 DEF Shows
    <3> QED
      BY <2>2, <3>2, <3>3, ServiceMoves
  <2> QED
    BY <2>1, <2>2
<1>2. Spec => [](IdInv /\ SwInv)
  BY SwInvHolds
<1> QED
  BY <1>1, <1>2, PTL DEF Spec, SwitchFollowsRollout
=============================================================================
