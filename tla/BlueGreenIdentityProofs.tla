----------------------- MODULE BlueGreenIdentityProofs -----------------------
(***************************************************************************)
(* Proof that a cutover serializes the validator's identity, for any       *)
(* versions, tokens and snapshots and any number of faults and edits,      *)
(* while a pass works on the node as it is and no patch is lost.  (A stale *)
(* node or a lost patch is excluded by hypothesis: see the README.)        *)
(*                                                                         *)
(* The cluster is in one of few situations (Safe, BlueDown, Handed,        *)
(* Retreat); NodeInv says which the node's recorded phase stands for, so   *)
(* that a pass may stop anywhere, and Stage what a running pass relies on  *)
(* and has still to write.                                                 *)
(***************************************************************************)
EXTENDS BlueGreenCoreProofs

\* A pass is handed the node as it is, and what it writes is written.
Faithful == Hazards \cap {"staleCache", "lostPatch"} = {}

BluePhases == {"BlueActive", "PreparingGreen", "WaitingForGreen", "Failed"}
Preparation == {"PreparingGreen", "WaitingForGreen"}
GreenPhases == {"GreenActive", "UpgradeDeferred"}
GreenSided == GreenPhases \cup {"RollingBack"}

-----------------------------------------------------------------------------
(* The cluster.                                                            *)

BlueDown == StsFullyDown("blue")

\* The green pod, if there is one that stays, belongs to some publish rollout.
Tokened == pod["green"].st = "none" \/ pod["green"].term \/ pod["green"].tok # NoToken

\* Green does not publish, or does and is being taken down.
Quiet == Publishing("green") => Tokened
Safe == cm # "publishing" /\ sts["green"].tok = NoToken /\ Quiet

\* Green has the identity.
Handed == BlueDown /\ sts["green"].tok # NoToken /\ Tokened

\* Green is being given up, and publishes only as a pod of a publish rollout.
Retreat == Quiet /\ (cm = "publishing" => sts["green"].tok # NoToken /\ Tokened)

-----------------------------------------------------------------------------
(* The node.                                                               *)

\* No rollback has got as far as starting blue, and no cutover has begun.
Fresh(n) == n.rb \in {"none", "StopGreen"}
Unbegun(n) == Fresh(n) /\ n.cut \in {"none", "ScaleBlueDown"}

\* The active color goes with the phase, in the status and, until there is one, in the
\* annotations.
Consistent(n) ==
    /\ n.sPhase = "none" <=> n.sColor = "none"
    /\ n.sPhase \in GreenSided <=> n.sColor = "green"
    /\ n.sPhase = "none" => (n.phase \in GreenSided <=> n.color = "green")

\* Green runs with the token the node records, and blue does not run.
Restarted == BlueDown /\ node.token # NoToken /\ sts["green"].tok = node.token

NodeInv ==
    /\ Safe \/ BlueDown
    /\ Consistent(node)
    /\ ReadPhase(node) \in BluePhases => Safe
    /\ ReadPhase(node) \in Preparation => Unbegun(node)
    /\ ReadPhase(node) = "CuttingOver" =>
          Fresh(node) /\ (node.cut = "WaitGreenHealthy" => Restarted)
    /\ ReadPhase(node) \in GreenPhases => Handed /\ Fresh(node) /\ node.token # NoToken
    /\ ReadPhase(node) = "RollingBack" => Retreat /\ (~Fresh(node) => Safe)

-----------------------------------------------------------------------------
(* The running pass.                                                       *)

\* A patch that writes no other phase than one of P, with its color, and no token.
Moves(p, P, c) ==
    /\ "sPhase" \in DOMAIN p <=> "sColor" \in DOMAIN p
    /\ "sPhase" \in DOMAIN p => p.sPhase \in P /\ p.sColor = c
    /\ "phase" \in DOMAIN p <=> "color" \in DOMAIN p
    /\ "phase" \in DOMAIN p => p.phase \in P /\ p.color = c
    /\ "token" \notin DOMAIN p

IsPatch(w) == w.op \in {"node", "node?"}
From(k, S) == \A i \in k..Len(todo) : todo[i] \in S

\* The fields a decision relies on are those of the node.
Current ==
    \A f \in {"sPhase", "sColor", "phase", "color", "cut", "rb", "token"} : view[f] = node[f]

\* Blue is kept, and green at most a standby.
BlueWrites(P) ==
    {w \in Writes :
        /\ w.op = "cm" => w.mode = "standby"
        /\ w.op = "sts" /\ w.color = "green" => w.sts.tok = NoToken
        /\ IsPatch(w) => /\ Moves(w.patch, P, "blue")
                         /\ {"cut", "rb"} \cap DOMAIN w.patch = {}}

StartWrites ==
    {w \in Writes : /\ IsPatch(w)
                    /\ {"sPhase", "sColor", "color", "token"} \cap DOMAIN w.patch = {}
                    /\ {"phase", "cut", "rb"} \subseteq DOMAIN w.patch
                    /\ w.patch.phase = "PreparingGreen"
                    /\ w.patch.cut = "none" /\ w.patch.rb = "none"}

BlueTargets == IF ph \in Preparation THEN BluePhases ELSE {"BlueActive"}

BlueStage ==
    /\ ph \in BluePhases /\ step = "none"
    /\ pc \in {"decide", "prepare", "wait", "end"}
    /\ pc = "prepare" => ph = "PreparingGreen"
    /\ pc = "wait" => ph = "WaitingForGreen"
    /\ Safe /\ ReadPhase(node) \in BluePhases /\ ReadActiveColor(view) # "green"
    /\ ph = "WaitingForGreen" => Unbegun(view)
    /\ \/ todo \in Seq(BlueWrites(BlueTargets)) /\ (ph \in Preparation => Unbegun(node))
       \/ ph = "PreparingGreen" /\ todo # <<>> /\ todo[1] \in StartWrites /\ From(2, BlueWrites(BluePhases))

CutStage ==
    /\ ph = "CuttingOver" /\ step = "none" /\ pc = "decide" /\ todo = <<>>
    /\ ReadPhase(node) = "CuttingOver" /\ Current /\ ReadActiveColor(view) # "green"

EnterWrites ==
    {w \in Writes : /\ IsPatch(w) /\ Moves(w.patch, {"CuttingOver"}, "blue")
                    /\ "rb" \notin DOMAIN w.patch
                    /\ "cut" \in DOMAIN w.patch => w.patch.cut = "ScaleBlueDown"}
StatusWrites(P) ==
    {w \in Writes : IsPatch(w) /\ DOMAIN w.patch = {"sPhase", "sColor"} /\ w.patch.sPhase \in P}

\* The last of at most two writes is that of the status.
EndsInStatus(S, P) ==
    \/ Len(todo) = 2 /\ todo[1] \in S /\ todo[2] \in S \cap StatusWrites(P)
    \/ Len(todo) = 1 /\ todo[1] \in S \cap StatusWrites(P)

\* A pass in the steps of a cutover.
CutPass == ph \in {"WaitingForGreen", "CuttingOver"} /\ step \in CutoverSteps /\ Fresh(node)

EnterStage ==
    /\ CutPass /\ step = "ScaleBlueDown" /\ pc = "cutover"
    /\ Unbegun(node) /\ ReadPhase(node) \in BluePhases \cup {"CuttingOver"} /\ Safe
    /\ EndsInStatus(EnterWrites, {"CuttingOver"})

\* Blue is taken down.
DownWrites ==
    {w \in Writes :
        /\ w.op \notin {"cleanup?", "cleanCm?"}
        /\ w.op = "cm" => w.mode = "standby"
        /\ w.op = "sts" => w.color = "blue" /\ w.sts.replicas = 0
        /\ IsPatch(w) => /\ Moves(w.patch, {"CuttingOver"}, "blue")
                         /\ "rb" \notin DOMAIN w.patch
                         /\ "cut" \in DOMAIN w.patch => w.patch.cut # "WaitGreenHealthy"}

DownStage ==
    /\ CutPass /\ step # "WaitGreenHealthy" /\ pc \in {"cutover", "cutoverHealth", "cutoverStep", "end"}
    /\ ReadPhase(node) = "CuttingOver" /\ node.cut # "WaitGreenHealthy"
    /\ pc \in {"cutoverHealth", "cutoverStep"} => todo = <<>> /\ (read.blueDown => BlueDown)
    /\ todo \in Seq(DownWrites)

\* Green is told to publish and restarted with a new token.
HoldWrites ==
    {w \in Writes : /\ IsPatch(w) /\ Moves(w.patch, {"CuttingOver"}, "blue")
                    /\ "rb" \notin DOMAIN w.patch}
Publishes1(w) == w.op = "cm" /\ w.mode = "publishing"
Restarts(w) == w.op = "sts" /\ w.color = "green" /\ w.sts.tok = token
Records(w) == IsPatch(w) /\ DOMAIN w.patch = {"token"} /\ w.patch.token = token

EnableStage ==
    /\ CutPass /\ step = "WaitGreenHealthy" /\ pc = "cutover" /\ token # NoToken
    /\ BlueDown /\ ReadPhase(node) = "CuttingOver" /\ node.cut # "WaitGreenHealthy"
    /\ \/ /\ Len(todo) >= 3 /\ Publishes1(todo[1]) /\ Restarts(todo[2]) /\ Records(todo[3])
          /\ From(4, HoldWrites)
       \/ /\ Len(todo) >= 2 /\ Restarts(todo[1]) /\ Records(todo[2])
          /\ From(3, HoldWrites)
       \/ /\ Len(todo) >= 1 /\ sts["green"].tok = token /\ Records(todo[1])
          /\ From(2, HoldWrites)

\* Green is awaited in its new role.
Rolled == CutPass /\ step = "WaitGreenHealthy" /\ token # NoToken /\ Restarted /\ node.token = token
HoldStage ==
    /\ Rolled /\ pc \in {"cutover", "cutoverHealth", "cutoverStep", "end"}
    /\ ReadPhase(node) = "CuttingOver"
    /\ pc \in {"cutoverHealth", "cutoverStep"} => todo = <<>>
    /\ todo \in Seq(HoldWrites)

SwitchWrites ==
    {w \in Writes : /\ w.op = "svc" \/ IsPatch(w)
                    /\ IsPatch(w) => /\ Moves(w.patch, {"GreenActive"}, "green")
                                     /\ "rb" \notin DOMAIN w.patch}
SwitchStage ==
    /\ Rolled /\ pc = "end" /\ Handed
    /\ ReadPhase(node) \in {"CuttingOver", "GreenActive"}
    /\ todo \in Seq(SwitchWrites)

\* Green is kept.
GreenWrites ==
    {w \in Writes :
        /\ w.op \notin {"cleanup?", "cleanCm?"}
        /\ w.op = "cm" => w.mode = "publishing"
        /\ w.op = "sts" => IF w.color = "green" THEN w.sts.tok # NoToken ELSE w.sts.replicas = 0
        /\ IsPatch(w) => Moves(w.patch, GreenPhases, "green") /\ "rb" \notin DOMAIN w.patch}
GreenStage ==
    /\ ph \in GreenPhases /\ step = "none" /\ pc \in {"decide", "health", "end"}
    /\ ReadPhase(node) \in GreenPhases
    /\ view.token # NoToken /\ Fresh(view)
    /\ todo \in Seq(GreenWrites)

BackStage ==
    /\ ph = "RollingBack" /\ step = "none" /\ pc = "decide" /\ todo = <<>>
    /\ ReadPhase(node) = "RollingBack" /\ Current

\* A pass in the steps of a rollback.
BackPass == ph \in GreenSided /\ step \in RollbackSteps

\* Green is given up.
LeaveWrites ==
    {w \in Writes : /\ IsPatch(w) /\ Moves(w.patch, {"RollingBack"}, "green")
                    /\ "rb" \in DOMAIN w.patch => w.patch.rb = "StopGreen"}
LeaveStage ==
    /\ BackPass /\ step = "StopGreen" /\ pc = "rollback" /\ Fresh(node)
    /\ \/ ReadPhase(node) = "RollingBack" /\ todo = <<>>
       \/ ReadPhase(node) \in GreenSided /\ EndsInStatus(LeaveWrites, {"RollingBack"})

\* Blue is brought back, and green no longer has the identity.
ReturnWrites ==
    {w \in Writes :
        /\ w.op = "svc" \/ w.op = "sts" \/ IsPatch(w)
        /\ w.op = "sts" => w.color = "blue"
        /\ IsPatch(w) => /\ \/ Moves(w.patch, {"RollingBack"}, "green")
                            \/ Moves(w.patch, {"BlueActive"}, "blue")}
Stands(w) == w.op = "cm" /\ w.mode = "standby"
Strips(w) == w.op = "sts" /\ w.color = "green" /\ w.sts.tok = NoToken

StopStage ==
    /\ BackPass /\ step = "ScaleBlueUp" /\ pc = "rollback"
    /\ ReadPhase(node) = "RollingBack"
    /\ \/ Len(todo) >= 2 /\ Stands(todo[1]) /\ Strips(todo[2]) /\ From(3, ReturnWrites)
       \/ Len(todo) >= 1 /\ cm # "publishing" /\ Strips(todo[1]) /\ From(2, ReturnWrites)

ReturnStage ==
    /\ BackPass /\ step # "StopGreen" /\ pc \in {"rollback", "end"}
    /\ ReadPhase(node) \in {"RollingBack", "BlueActive"} /\ Safe
    /\ todo \in Seq(ReturnWrites)

IdleStage == pc = "idle" /\ todo = <<>> /\ step = "none"

Stage ==
    \/ IdleStage
    \/ BlueStage
    \/ CutStage \/ EnterStage \/ DownStage \/ EnableStage \/ HoldStage \/ SwitchStage
    \/ GreenStage
    \/ BackStage \/ LeaveStage \/ StopStage \/ ReturnStage

IdInv == Inv /\ cache = Idle /\ NodeInv /\ Stage

-----------------------------------------------------------------------------
(* Patches of the node.                                                    *)

\* What the invariant reads of a node.
Told == {"sPhase", "sColor", "phase", "color", "cut", "rb", "token"}

\* A merge patch, field by field.
LEMMA MergeFields ==
    ASSUME NEW n \in NodeType, NEW p \in Patches, NEW m, m = Merge(n, p)
    PROVE  /\ m \in NodeType
           /\ m.sPhase = IF "sPhase" \in DOMAIN p THEN p.sPhase ELSE n.sPhase
           /\ m.sColor = IF "sColor" \in DOMAIN p THEN p.sColor ELSE n.sColor
           /\ m.phase = IF "phase" \in DOMAIN p THEN p.phase ELSE n.phase
           /\ m.color = IF "color" \in DOMAIN p THEN p.color ELSE n.color
           /\ m.cut = IF "cut" \in DOMAIN p THEN p.cut ELSE n.cut
           /\ m.rb = IF "rb" \in DOMAIN p THEN p.rb ELSE n.rb
           /\ m.token = IF "token" \in DOMAIN p THEN p.token ELSE n.token
BY MergeNode DEF Fields

\* A patch that moves the phase moves the color with it.
LEMMA Moved ==
    ASSUME NEW n \in NodeType, NEW p \in Patches, NEW m, m = Merge(n, p), Consistent(n),
           NEW P \in SUBSET Phases, NEW c \in Colors, Moves(p, P, c),
           c = "green" => P \subseteq GreenSided,
           c = "blue" => P \cap GreenSided = {}
    PROVE  /\ m \in NodeType /\ Consistent(m) /\ m.token = n.token
           /\ ReadPhase(m) \in P \cup {ReadPhase(n)}
           /\ "sPhase" \in DOMAIN p => ReadPhase(m) \in P
           /\ m.cut = IF "cut" \in DOMAIN p THEN p.cut ELSE n.cut
           /\ m.rb = IF "rb" \in DOMAIN p THEN p.rb ELSE n.rb
<1>1. /\ m \in NodeType
      /\ m.sPhase = IF "sPhase" \in DOMAIN p THEN p.sPhase ELSE n.sPhase
      /\ m.sColor = IF "sColor" \in DOMAIN p THEN p.sColor ELSE n.sColor
      /\ m.phase = IF "phase" \in DOMAIN p THEN p.phase ELSE n.phase
      /\ m.color = IF "color" \in DOMAIN p THEN p.color ELSE n.color
      /\ m.cut = IF "cut" \in DOMAIN p THEN p.cut ELSE n.cut
      /\ m.rb = IF "rb" \in DOMAIN p THEN p.rb ELSE n.rb
      /\ m.token = IF "token" \in DOMAIN p THEN p.token ELSE n.token
  BY MergeFields
<1>2. "none" \notin P
  BY DEF Phases
<1>3. Consistent(m)
  <2>1. CASE c = "green"
    BY <1>1, <1>2, <2>1 DEF Moves, Consistent
  <2>2. CASE c = "blue"
    BY <1>1, <1>2, <2>2 DEF Moves, Consistent
  <2> QED
    BY <2>1, <2>2 DEF Colors
<1>4. m.token = n.token
  BY <1>1 DEF Moves
<1>5. ReadPhase(m) \in P \cup {ReadPhase(n)} /\ ("sPhase" \in DOMAIN p => ReadPhase(m) \in P)
  BY <1>1, <1>2 DEF Moves, ReadPhase
<1> QED
  BY <1>1, <1>3, <1>4, <1>5

-----------------------------------------------------------------------------
(* Steps that leave the node's phase, the StatefulSets and the pass alone. *)

\* The situations of the cluster persist, and what was told of the node stands.
Persists ==
    /\ UNCHANGED <<cache, sts, cm, pc, view, ph, step, token, read, todo>>
    /\ \A f \in Told : node'[f] = node[f]
    /\ Safe => Safe'
    /\ BlueDown => BlueDown'
    /\ Handed => Handed'
    /\ Retreat => Retreat'

\* Then the node still stands for what it stood for.
LEMMA PersistingNode ==
    ASSUME NodeInv, Persists
    PROVE  NodeInv' /\ ReadPhase(node') = ReadPhase(node)
<1>1. /\ ReadPhase(node') = ReadPhase(node)
      /\ Consistent(node') <=> Consistent(node)
      /\ Fresh(node') <=> Fresh(node)
      /\ Unbegun(node') <=> Unbegun(node)
      /\ node'.cut = node.cut /\ node'.token = node.token
      /\ Restarted => Restarted'
  BY DEF Persists, Told, ReadPhase, Consistent, Fresh, Unbegun, Restarted
<1> QED
  BY <1>1 DEF NodeInv, Persists

\* And the pass where it was.
LEMMA PersistingStage ==
    ASSUME NodeInv, Persists, Stage
    PROVE  Stage'
<1>1. /\ ReadPhase(node') = ReadPhase(node)
      /\ Fresh(node') <=> Fresh(node)
      /\ Unbegun(node') <=> Unbegun(node)
      /\ node'.cut = node.cut /\ node'.token = node.token
      /\ Restarted => Restarted'
      /\ Current => Current'
  BY DEF Persists, Told, ReadPhase, Fresh, Unbegun, Restarted, Current
<1>2. /\ UNCHANGED <<sts, cm, pc, view, ph, step, token, read, todo>>
      /\ Safe => Safe'
      /\ BlueDown => BlueDown'
      /\ Handed => Handed'
      /\ Retreat => Retreat'
  BY DEF Persists
<1>3. CASE IdleStage
  BY <1>2, <1>3 DEF IdleStage, Stage
<1>4. CASE BlueStage
  BY <1>1, <1>2, <1>4 DEF BlueStage, BlueTargets, From, Stage
<1>5. CASE CutStage
  BY <1>1, <1>2, <1>5 DEF CutStage, Stage
<1>6. CASE EnterStage
  BY <1>1, <1>2, <1>6 DEF EnterStage, CutPass, EndsInStatus, Stage
<1>7. CASE DownStage
  BY <1>1, <1>2, <1>7 DEF DownStage, CutPass, Stage
<1>8. CASE EnableStage
  BY <1>1, <1>2, <1>8 DEF EnableStage, CutPass, From, Restarts, Records, Stage
<1>9. CASE HoldStage
  BY <1>1, <1>2, <1>9 DEF HoldStage, Rolled, CutPass, Stage
<1>10. CASE SwitchStage
  BY <1>1, <1>2, <1>10 DEF SwitchStage, Rolled, CutPass, Stage
<1>11. CASE GreenStage
  BY <1>1, <1>2, <1>11 DEF GreenStage, Stage
<1>12. CASE BackStage
  BY <1>1, <1>2, <1>12 DEF BackStage, Stage
<1>13. CASE LeaveStage
  BY <1>1, <1>2, <1>13 DEF LeaveStage, BackPass, EndsInStatus, Stage
<1>14. CASE StopStage
  BY <1>1, <1>2, <1>14 DEF StopStage, BackPass, From, Stage
<1>15. CASE ReturnStage
  BY <1>1, <1>2, <1>15 DEF ReturnStage, BackPass, Stage
<1> QED
  BY <1>3, <1>4, <1>5, <1>6, <1>7, <1>8, <1>9, <1>10, <1>11, <1>12, <1>13, <1>14, <1>15 DEF Stage

\* A pod comes, goes or changes its state.
LEMMA PodPersists ==
    ASSUME Inv, NEW c \in Colors, Settle(c) \/ PodFails(c) \/ PodEvicted(c)
    PROVE  Persists
<1>1. PICK p : PodStep(c, p)
  BY DEF Settle, PodCreate, PodBecomesReady, PodBecomesSynced, PodTerminate, PodGone, PodFails,
         PodEvicted
<1>2. /\ UNCHANGED <<cache, sts, cm, pc, view, ph, step, token, read, todo>>
      /\ node' = node
  BY <1>1 DEF PodStep, cluster, running, locals
<1>3. /\ pod \in [Colors -> PodType] /\ pod["green"] \in PodType /\ pod["blue"] \in PodType
      /\ "green" \in Colors /\ "blue" \in Colors
  BY DEF Inv, TypeInv, ClusterTyped, Colors
<1>4. CASE c = "blue"
  <2>1. pod'["green"] = pod["green"]
    BY <1>1, <1>3, <1>4 DEF PodStep
  <2>2. BlueDown => BlueDown'
    <3> SUFFICES ASSUME BlueDown PROVE BlueDown'
      OBVIOUS
    <3>1. sts["blue"].replicas = 0 /\ pod["blue"].st = "none"
      BY DEF BlueDown, StsFullyDown
    <3>2. PodGone(c)
      BY <1>4, <3>1 DEF Settle, PodCreate, PodBecomesReady, PodBecomesSynced, PodTerminate,
                        PodFails, PodEvicted
    <3>3. pod'["blue"].st = "none"
      BY <1>3, <1>4, <3>2 DEF PodGone, PodStep, NoPod
    <3> QED
      BY <1>2, <3>1, <3>3 DEF BlueDown, StsFullyDown
  <2> QED
    BY <1>2, <2>1, <2>2 DEF Persists, Told, Safe, Handed, Retreat, Quiet, Tokened, Publishing
<1>5. CASE c = "green"
  <2>1. BlueDown => BlueDown'
    BY <1>1, <1>2, <1>3, <1>5 DEF PodStep, BlueDown, StsFullyDown
  <2>2. \/ /\ pod'["green"].tok = sts["green"].tok /\ ~pod'["green"].term
           /\ pod'["green"].pub = (cm = "publishing")
        \/ pod'["green"].st = "none" \/ pod'["green"].term
        \/ /\ pod'["green"].tok = pod["green"].tok /\ pod'["green"].term = pod["green"].term
           /\ pod["green"].st # "none"
           /\ pod'["green"].pub \in {pod["green"].pub, cm = "publishing"}
    <3>1. CASE PodCreate(c)
      BY <1>3, <1>5, <3>1 DEF PodCreate, PodStep, Publishes
    <3>2. CASE PodBecomesReady(c) \/ PodBecomesSynced(c)
      BY <1>3, <1>5, <3>2 DEF PodBecomesReady, PodBecomesSynced, PodStep, PodType
    <3>3. CASE PodTerminate(c) \/ PodEvicted(c)
      BY <1>3, <1>5, <3>3 DEF PodTerminate, PodEvicted, PodStep, PodType
    <3>4. CASE PodGone(c)
      BY <1>3, <1>5, <3>4 DEF PodGone, PodStep, NoPod
    <3>5. CASE PodFails(c)
      <4>1. pod["green"].st # "none" /\ pod["green"].pub \in BOOLEAN
        BY <1>3, <1>5, <3>5 DEF PodFails, PodType
      <4>2. CASE PodStep(c, [pod[c] EXCEPT !.st = "up", !.pub = Publishes(c)])
        <5>1. pod'["green"] = [pod["green"] EXCEPT !.st = "up", !.pub = Publishes(c)]
          BY <1>3, <1>5, <4>2 DEF PodStep
        <5>2. Publishes(c) = (cm = "publishing")
          BY <1>5 DEF Publishes
        <5> QED
          BY <1>3, <4>1, <5>1, <5>2 DEF PodType
      <4>3. CASE PodStep(c, [pod[c] EXCEPT !.st = "ready"])
        <5>1. pod'["green"] = [pod["green"] EXCEPT !.st = "ready"]
          BY <1>3, <1>5, <4>3 DEF PodStep
        <5> QED
          BY <1>3, <4>1, <5>1 DEF PodType
      <4> QED
        BY <3>5, <4>2, <4>3 DEF PodFails
    <3> QED
      BY <3>1, <3>2, <3>3, <3>4, <3>5 DEF Settle
  <2>3. Handed => Handed'
    BY <1>2, <2>1, <2>2 DEF Handed, Tokened
  <2>4. Safe => Safe'
    BY <1>2, <2>2 DEF Safe, Quiet, Tokened, Publishing
  <2>5. Retreat => Retreat'
    BY <1>2, <2>2 DEF Retreat, Quiet, Tokened, Publishing
  <2> QED
    BY <1>2, <2>1, <2>3, <2>4, <2>5 DEF Persists
<1> QED
  BY <1>4, <1>5 DEF Colors

\* The user edits the node, or a snapshot finishes; the watch is not behind.
LEMMA WorldPersists ==
    ASSUME Inv, Faithful, WatchLags \/ SetVersion \/ RequestRetry \/ SnapshotReady
    PROVE  Persists
<1>1. ~WatchLags
  BY DEF WatchLags, Faithful
<1>2. UNCHANGED <<cache, sts, cm, pod, pc, view, ph, step, token, read, todo>>
  BY <1>1 DEF SetVersion, RequestRetry, Edit, SnapshotReady, cluster, kubelet, running, locals
<1>3. \A f \in Told : node'[f] = node[f]
  BY <1>1 DEF SetVersion, RequestRetry, Edit, SnapshotReady, Inv, TypeInv, NodeType, Told
<1> QED
  BY <1>2, <1>3 DEF Persists, Safe, BlueDown, Handed, Retreat, Quiet, Tokened, Publishing, StsFullyDown

-----------------------------------------------------------------------------
(* The writes of the decisions.                                            *)

\* Of the steps, p writes no more than opt.
Carries(p, opt) ==
    /\ DOMAIN p \cap {"cut", "rb"} \subseteq DOMAIN opt
    /\ \A f \in DOMAIN p \cap {"cut", "rb"} : p[f] = opt[f]

\* The annotations of patch_node_progress move the node to a phase.
LEMMA AnnotationsMove ==
    ASSUME NEW a, NEW c, NEW opt, Optional(opt), NEW P, a \in P, NEW p, Annotates(p, a, c, opt)
    PROVE  Moves(p, P, c) /\ Carries(p, opt)
<1>1. DOMAIN opt \subseteq {"cut", "rb"}
  <2>1. CASE opt = <<>>
    BY <2>1
  <2> QED
    BY <2>1 DEF Optional
<1> QED
  BY <1>1 DEF Annotates, Moves, Carries

\* S has every patch to a phase of P and color c with opt.
Admits(S, P, c, opt) ==
    \A p \in Patches, op \in {"node", "node?"} :
       Moves(p, P, c) /\ Carries(p, opt) => [op |-> op, patch |-> p] \in S

\* A patch is a write.
LEMMA Patched ==
    ASSUME NEW p \in Patches
    PROVE  /\ [op |-> "node", patch |-> p] \in Writes /\ [op |-> "node?", patch |-> p] \in Writes
BY DEF Writes

\* So patch_node_progress makes two writes of S, the second that of the status.
LEMMA ProgressIn ==
    ASSUME NEW a \in Phases, NEW c \in Colors, NEW s \in Snaps \cup {NoSnap},
           NEW opt, Optional(opt), NEW P, a \in P, NEW S, Admits(S, P, c, opt)
    PROVE  LET w == Progress(a, c, s, opt) IN
           w \in Seq(S) /\ Len(w) = 2 /\ w[1] \in S /\ w[2] \in S \cap StatusWrites({a})
<1> DEFINE q == [sPhase |-> a, sColor |-> c]
<1>1. PICK p \in Patches : /\ Progress(a, c, s, opt) = PatchNode(p) \o PatchNodeIgnoringErrors(q)
                           /\ Annotates(p, a, c, opt)
  BY ProgressPatch
<1>2. /\ q \in Patches /\ Moves(q, P, c)
      /\ DOMAIN q = {"sPhase", "sColor"} /\ DOMAIN q \cap {"cut", "rb"} = {} /\ q["sPhase"] = a
  BY PhasePatch DEF Moves
<1> HIDE DEF q
<1> DEFINE w1 == [op |-> "node", patch |-> p]
           w2 == [op |-> "node?", patch |-> q]
<1>3. w1 \in S
  <2>1. Moves(p, P, c) /\ Carries(p, opt)
    BY <1>1, AnnotationsMove
  <2> QED
    BY <2>1 DEF Admits
<1>4. w2 \in S
  <2>1. Carries(q, opt)
    BY <1>2 DEF Carries
  <2> QED
    BY <1>2, <2>1 DEF Admits
<1>5. w2 \in StatusWrites({a})
  BY <1>2, Patched DEF StatusWrites, IsPatch
<1>6. Progress(a, c, s, opt) = <<w1>> \o <<w2>>
  BY <1>1 DEF PatchNode, PatchNodeIgnoringErrors
<1> HIDE DEF w1, w2
<1> QED
  BY <1>3, <1>4, <1>5, <1>6

\* The optional arguments the code uses.
LEMMA Options ==
    /\ Optional(Nothing) /\ DOMAIN Nothing = {}
    /\ \A t \in CutoverSteps : Optional([cut |-> t]) /\ DOMAIN [cut |-> t] = {"cut"}
    /\ \A t \in RollbackSteps : Optional([rb |-> t]) /\ DOMAIN [rb |-> t] = {"rb"}
BY FieldPatch DEF Optional, Nothing

\* patch_node_progress while blue is active.
LEMMA BlueProgress ==
    ASSUME NEW a \in BluePhases, NEW s \in Snaps \cup {NoSnap}, NEW P, a \in P
    PROVE  Progress(a, "blue", s, Nothing) \in Seq(BlueWrites(P))
<1>1. a \in Phases /\ "blue" \in Colors
  BY DEF BluePhases, Phases, Colors
<1>2. Admits(BlueWrites(P), P, "blue", Nothing)
  BY Patched, Options DEF BlueWrites, IsPatch, Admits, Carries
<1> QED
  BY <1>1, <1>2, ProgressIn, Options

\* In a cutover.
LEMMA CutProgress ==
    ASSUME NEW t \in CutoverSteps, NEW s \in Snaps \cup {NoSnap}
    PROVE  LET w == Progress("CuttingOver", "blue", s, [cut |-> t]) IN
           /\ w \in Seq(HoldWrites) /\ Len(w) = 2
           /\ t # "WaitGreenHealthy" => w \in Seq(DownWrites)
           /\ t = "ScaleBlueDown" => /\ w[1] \in EnterWrites
                                     /\ w[2] \in EnterWrites \cap StatusWrites({"CuttingOver"})
<1>1. "CuttingOver" \in Phases /\ "blue" \in Colors
  BY DEF Phases, Colors
<1>2. Optional([cut |-> t]) /\ DOMAIN [cut |-> t] = {"cut"} /\ [cut |-> t]["cut"] = t
  BY Options
<1>3. /\ Admits(HoldWrites, {"CuttingOver"}, "blue", [cut |-> t])
      /\ t # "WaitGreenHealthy" => Admits(DownWrites, {"CuttingOver"}, "blue", [cut |-> t])
      /\ t = "ScaleBlueDown" => Admits(EnterWrites, {"CuttingOver"}, "blue", [cut |-> t])
  BY <1>2, Patched DEF HoldWrites, DownWrites, EnterWrites, IsPatch, Admits, Carries
<1>4. ASSUME NEW S, Admits(S, {"CuttingOver"}, "blue", [cut |-> t])
      PROVE  LET w == Progress("CuttingOver", "blue", s, [cut |-> t]) IN
             w \in Seq(S) /\ Len(w) = 2 /\ w[1] \in S /\ w[2] \in S \cap StatusWrites({"CuttingOver"})
  BY <1>1, <1>2, <1>4, ProgressIn
<1>5. LET w == Progress("CuttingOver", "blue", s, [cut |-> t]) IN w \in Seq(HoldWrites) /\ Len(w) = 2
  BY <1>3, <1>4
<1>6. CASE t # "WaitGreenHealthy"
  <2>1. LET w == Progress("CuttingOver", "blue", s, [cut |-> t]) IN w \in Seq(DownWrites)
    BY <1>3, <1>4, <1>6
  <2>2. CASE t = "ScaleBlueDown"
    <3>1. LET w == Progress("CuttingOver", "blue", s, [cut |-> t]) IN
          w[1] \in EnterWrites /\ w[2] \in EnterWrites \cap StatusWrites({"CuttingOver"})
      BY <1>3, <1>4, <2>2
    <3> QED
      BY <1>5, <2>1, <3>1
  <2> QED
    BY <1>5, <2>1, <2>2
<1> QED
  BY <1>5, <1>6

\* When green has the Service.
LEMMA GreenProgress ==
    ASSUME NEW s \in Snaps \cup {NoSnap}
    PROVE  /\ Progress("GreenActive", "green", s, [cut |-> "Complete"]) \in Seq(SwitchWrites)
           /\ Progress("GreenActive", "green", s, [cut |-> "Complete"]) \in Seq(GreenWrites)
           /\ Progress("UpgradeDeferred", "green", s, Nothing) \in Seq(GreenWrites)
<1>1. /\ "GreenActive" \in Phases /\ "UpgradeDeferred" \in Phases /\ "green" \in Colors
      /\ "GreenActive" \in GreenPhases /\ "UpgradeDeferred" \in GreenPhases
      /\ "Complete" \in CutoverSteps
  BY DEF Phases, Colors, GreenPhases, CutoverSteps
<1>2. Optional([cut |-> "Complete"]) /\ DOMAIN [cut |-> "Complete"] = {"cut"}
  BY <1>1, Options
<1>3. Admits(SwitchWrites, {"GreenActive"}, "green", [cut |-> "Complete"])
  BY <1>2, Patched DEF SwitchWrites, IsPatch, Admits, Carries
<1>4. Admits(GreenWrites, GreenPhases, "green", [cut |-> "Complete"])
  <2> SUFFICES ASSUME NEW p \in Patches, NEW op \in {"node", "node?"},
                      Moves(p, GreenPhases, "green"), Carries(p, [cut |-> "Complete"])
               PROVE  [op |-> op, patch |-> p] \in GreenWrites
    BY DEF Admits
  <2>1. "rb" \notin DOMAIN p
    BY <1>2 DEF Carries
  <2>2. [op |-> op, patch |-> p] \in Writes
    BY Patched
  <2> QED
    BY <2>1, <2>2 DEF GreenWrites, IsPatch
<1>5. Admits(GreenWrites, GreenPhases, "green", Nothing)
  BY Options, Patched DEF GreenWrites, IsPatch, Admits, Carries
<1>6. Progress("GreenActive", "green", s, [cut |-> "Complete"]) \in Seq(SwitchWrites)
  BY <1>1, <1>2, <1>3, ProgressIn
<1>7. Progress("GreenActive", "green", s, [cut |-> "Complete"]) \in Seq(GreenWrites)
  BY <1>1, <1>2, <1>4, ProgressIn
<1>8. Progress("UpgradeDeferred", "green", s, Nothing) \in Seq(GreenWrites)
  BY <1>1, <1>5, Options, ProgressIn
<1> QED
  BY <1>6, <1>7, <1>8

\* In a rollback.
LEMMA BackProgress ==
    ASSUME NEW t \in RollbackSteps, NEW s \in Snaps \cup {NoSnap}
    PROVE  /\ Progress("RollingBack", "green", s, [rb |-> t]) \in Seq(ReturnWrites)
           /\ Progress("BlueActive", "blue", s, [rb |-> t]) \in Seq(ReturnWrites)
           /\ t = "StopGreen" =>
                LET w == Progress("RollingBack", "green", s, [rb |-> t]) IN
                Len(w) = 2 /\ w[1] \in LeaveWrites /\ w[2] \in LeaveWrites \cap StatusWrites({"RollingBack"})
<1>1. /\ "RollingBack" \in Phases /\ "BlueActive" \in Phases /\ "green" \in Colors /\ "blue" \in Colors
  BY DEF Phases, Colors
<1>2. Optional([rb |-> t]) /\ DOMAIN [rb |-> t] = {"rb"} /\ [rb |-> t]["rb"] = t
  BY Options
<1>3. /\ Admits(ReturnWrites, {"RollingBack"}, "green", [rb |-> t])
      /\ Admits(ReturnWrites, {"BlueActive"}, "blue", [rb |-> t])
      /\ t = "StopGreen" => Admits(LeaveWrites, {"RollingBack"}, "green", [rb |-> t])
  BY <1>2, Patched DEF ReturnWrites, LeaveWrites, IsPatch, Admits, Carries
<1>4. Progress("RollingBack", "green", s, [rb |-> t]) \in Seq(ReturnWrites)
  BY <1>1, <1>2, <1>3, ProgressIn
<1>5. Progress("BlueActive", "blue", s, [rb |-> t]) \in Seq(ReturnWrites)
  BY <1>1, <1>2, <1>3, ProgressIn
<1>6. ASSUME t = "StopGreen"
      PROVE  LET w == Progress("RollingBack", "green", s, [rb |-> t]) IN
             Len(w) = 2 /\ w[1] \in LeaveWrites /\ w[2] \in LeaveWrites \cap StatusWrites({"RollingBack"})
  <2>1. Admits(LeaveWrites, {"RollingBack"}, "green", [rb |-> t])
    BY <1>3, <1>6
  <2> QED
    BY <1>1, <1>2, <2>1, ProgressIn
<1> QED
  BY <1>4, <1>5, <1>6

\* S has every apply of a StatefulSet with these values.
AdmitsSts(S, c, k, t) ==
    \A w \in Writes : w.op = "sts" /\ w.color = c /\ w.sts.replicas = k /\ w.sts.tok = t => w \in S

\* So it has this one.
LEMMA StsIn ==
    ASSUME NEW c \in Colors, NEW r \in {"active", "standby"}, NEW k \in {0, 1},
           NEW v \in Versions \cup {NoVersion}, NEW t \in Tokens \cup {NoToken},
           NEW S, AdmitsSts(S, c, k, t)
    PROVE  ApplySts(c, r, k, v, t) \in Seq(S)
<1> DEFINE w == [op |-> "sts", color |-> c,
                 sts |-> [ver |-> v, tok |-> t, role |-> r, replicas |-> k]]
<1>1. w \in Writes /\ w.op = "sts" /\ w.color = c /\ w.sts.replicas = k /\ w.sts.tok = t
  BY DEF Writes, TemplateType
<1>2. ApplySts(c, r, k, v, t) = <<w>>
  BY DEF ApplySts
<1> HIDE DEF w
<1>3. w \in S
  BY <1>1 DEF AdmitsSts
<1> QED
  BY <1>2, <1>3

\* The applies of the StatefulSets, the Service and the ConfigMap.
LEMMA Applied ==
    ASSUME NEW v \in Versions \cup {NoVersion}, NEW P
    PROVE  /\ ApplySts("blue", "active", 1, v, NoToken) \in Seq(BlueWrites(P))
           /\ ApplySts("green", "standby", 1, v, NoToken) \in Seq(BlueWrites(P))
           /\ ApplySvc("blue") \in Seq(BlueWrites(P))
           /\ ApplyCm("standby") \in Seq(BlueWrites(P))
           /\ \A src \in Snaps \cup {"blank"} : CreatePvc(src) \in Seq(BlueWrites(P))
           /\ CleanupGreenResources \in Seq(BlueWrites(P))
           /\ ApplySts("blue", "standby", 0, v, NoToken) \in Seq(DownWrites)
           /\ ApplySvc("blue") \in Seq(DownWrites)
           /\ ApplyCm("standby") \in Seq(DownWrites)
           /\ ApplySvc("green") \in Seq(SwitchWrites)
           /\ ApplyCm("publishing") \in Seq(GreenWrites)
           /\ \A t \in Tokens : ApplySts("green", "active", 1, v, t) \in Seq(GreenWrites)
           /\ ApplySvc("green") \in Seq(GreenWrites)
           /\ ApplySts("blue", "standby", 0, v, NoToken) \in Seq(GreenWrites)
           /\ ApplySts("blue", "active", 1, v, NoToken) \in Seq(ReturnWrites)
           /\ ApplySvc("blue") \in Seq(ReturnWrites)
<1>1. /\ AdmitsSts(BlueWrites(P), "blue", 1, NoToken) /\ AdmitsSts(BlueWrites(P), "green", 1, NoToken)
      /\ AdmitsSts(DownWrites, "blue", 0, NoToken) /\ AdmitsSts(GreenWrites, "blue", 0, NoToken)
      /\ AdmitsSts(ReturnWrites, "blue", 1, NoToken)
      /\ \A t \in Tokens : AdmitsSts(GreenWrites, "green", 1, t)
  BY BlueGreenAssumption
  DEF AdmitsSts, BlueWrites, DownWrites, GreenWrites, ReturnWrites, IsPatch
<1>2. \A c \in Colors : [op |-> "svc", color |-> c] \in Writes
  BY DEF Writes
<1>3. \A m \in {"standby", "publishing"} : [op |-> "cm", mode |-> m] \in Writes
  BY DEF Writes
<1>4. /\ \A src \in Snaps \cup {"blank"} : [op |-> "pvc", src |-> src] \in Writes
      /\ [op |-> "cleanup?"] \in Writes /\ [op |-> "cleanCm?"] \in Writes
  BY DEF Writes
<1>5. "blue" \in Colors /\ "green" \in Colors /\ "blue" # "green"
  BY DEF Colors
<1>6. /\ ApplySts("blue", "active", 1, v, NoToken) \in Seq(BlueWrites(P))
      /\ ApplySts("green", "standby", 1, v, NoToken) \in Seq(BlueWrites(P))
  BY <1>1, <1>5, StsIn
<1>7. /\ ApplySvc("blue") \in Seq(BlueWrites(P)) /\ ApplySvc("blue") \in Seq(DownWrites)
      /\ ApplySvc("green") \in Seq(SwitchWrites)
      /\ ApplySvc("green") \in Seq(GreenWrites) /\ ApplySvc("blue") \in Seq(ReturnWrites)
  BY <1>2, <1>5 DEF ApplySvc, BlueWrites, DownWrites, SwitchWrites, GreenWrites, ReturnWrites, IsPatch
<1>8. /\ ApplyCm("standby") \in Seq(BlueWrites(P)) /\ ApplyCm("standby") \in Seq(DownWrites)
      /\ ApplyCm("publishing") \in Seq(GreenWrites)
  BY <1>3 DEF ApplyCm, BlueWrites, DownWrites, GreenWrites, IsPatch
<1>9. /\ \A src \in Snaps \cup {"blank"} : CreatePvc(src) \in Seq(BlueWrites(P))
      /\ CleanupGreenResources \in Seq(BlueWrites(P))
  BY <1>4 DEF CreatePvc, CleanupGreenResources, BlueWrites, IsPatch
<1>10. /\ ApplySts("blue", "standby", 0, v, NoToken) \in Seq(DownWrites)
       /\ ApplySts("blue", "standby", 0, v, NoToken) \in Seq(GreenWrites)
       /\ ApplySts("blue", "active", 1, v, NoToken) \in Seq(ReturnWrites)
  BY <1>1, <1>5, StsIn
<1>11. \A t \in Tokens : ApplySts("green", "active", 1, v, t) \in Seq(GreenWrites)
  BY <1>1, <1>5, StsIn
<1> QED
  BY <1>6, <1>7, <1>8, <1>9, <1>10, <1>11

-----------------------------------------------------------------------------
(* The decisions: where they are taken, and where they lead.               *)

\* The cluster is as it was.
LEMMA Still ==
    ASSUME NodeInv, UNCHANGED <<node, sts, cm, pod>>
    PROVE  /\ NodeInv'
           /\ (Safe' <=> Safe) /\ (BlueDown' <=> BlueDown)
           /\ (Handed' <=> Handed) /\ (Restarted' <=> Restarted)
BY DEF NodeInv, Safe, BlueDown, Handed, Retreat, Restarted, Quiet, Tokened, Publishing, StsFullyDown

LEMMA AtStage ==
    ASSUME Stage
    PROVE  /\ At("decide") => BlueStage \/ CutStage \/ GreenStage \/ BackStage
           /\ At("prepare") => BlueStage /\ ph = "PreparingGreen" /\ Unbegun(node)
           /\ At("wait") => BlueStage /\ ph = "WaitingForGreen" /\ Unbegun(node) /\ Unbegun(view)
           /\ At("cutover") => DownStage \/ HoldStage
           /\ At("cutoverHealth") \/ At("cutoverStep") => DownStage \/ HoldStage
           /\ At("health") => GreenStage
           /\ At("rollback") => LeaveStage \/ ReturnStage
<1>1. At("decide") => BlueStage \/ CutStage \/ GreenStage \/ BackStage
  BY DEF Stage, At, IdleStage, EnterStage, DownStage, EnableStage, HoldStage, SwitchStage,
         LeaveStage, StopStage, ReturnStage
<1>2. ASSUME At("prepare") \/ At("wait") PROVE BlueStage
  BY <1>2 DEF Stage, At, IdleStage, CutStage, EnterStage, DownStage, EnableStage, HoldStage,
         SwitchStage, GreenStage, BackStage, LeaveStage, StopStage, ReturnStage
<1>3. At("prepare") => BlueStage /\ ph = "PreparingGreen" /\ Unbegun(node)
  BY <1>2 DEF At, BlueStage, Preparation
<1>4. At("wait") => BlueStage /\ ph = "WaitingForGreen" /\ Unbegun(node) /\ Unbegun(view)
  BY <1>2 DEF At, BlueStage, Preparation
<1>5. At("cutover") => DownStage \/ HoldStage
  <2> SUFFICES ASSUME At("cutover") PROVE DownStage \/ HoldStage
    OBVIOUS
  <2>1. Len(todo) = 0
    BY DEF At
  <2>2. ~EnterStage /\ ~EnableStage
    BY <2>1 DEF EnterStage, EndsInStatus, EnableStage
  <2> QED
    BY <2>2 DEF Stage, At, IdleStage, BlueStage, CutStage, SwitchStage, GreenStage, BackStage,
                LeaveStage, StopStage, ReturnStage
<1>6. At("cutoverHealth") \/ At("cutoverStep") => DownStage \/ HoldStage
  BY DEF Stage, At, IdleStage, BlueStage, CutStage, EnterStage, EnableStage, SwitchStage,
         GreenStage, BackStage, LeaveStage, StopStage, ReturnStage
<1>7. At("health") => GreenStage
  BY DEF Stage, At, IdleStage, BlueStage, CutStage, EnterStage, DownStage, EnableStage, HoldStage,
         SwitchStage, BackStage, LeaveStage, StopStage, ReturnStage
<1>8. At("rollback") => LeaveStage \/ ReturnStage
  <2> SUFFICES ASSUME At("rollback") PROVE LeaveStage \/ ReturnStage
    OBVIOUS
  <2>1. Len(todo) = 0
    BY DEF At
  <2>2. ~StopStage
    BY <2>1 DEF StopStage
  <2> QED
    BY <2>2 DEF Stage, At, IdleStage, BlueStage, CutStage, EnterStage, DownStage, EnableStage,
         HoldStage, SwitchStage, GreenStage, BackStage
<1> QED
  BY <1>1, <1>3, <1>4, <1>5, <1>6, <1>7, <1>8

\* A pass begins on the node as it is.
LEMMA BeginStage == ASSUME IdInv, Begin PROVE Stage'
<1>1. /\ view' = node /\ node' = node /\ UNCHANGED <<sts, cm, pod, step>>
      /\ pc = "idle" /\ pc' = "decide"
  BY DEF Begin, Goto, IdInv, cluster, kubelet
<1>2. step' = "none"
  BY <1>1 DEF IdInv, Stage, IdleStage, BlueStage, CutStage, EnterStage, DownStage, EnableStage,
     HoldStage, SwitchStage, GreenStage, BackStage, LeaveStage, StopStage, ReturnStage
<1>3. /\ NodeInv /\ NodeInv' /\ (Safe' <=> Safe)
      /\ node \in NodeType
  BY <1>1, Still DEF IdInv, Inv, TypeInv
<1> DEFINE retry == ReadPhase(node) = "Failed" /\ RetryRequested(node)
<1>4. /\ ph' = IF retry THEN "BlueActive" ELSE ReadPhase(node)
      /\ todo' = IF retry THEN PatchNode([retry |-> "none"])
                               \o Progress("BlueActive", "blue", NoSnap, Nothing)
                          ELSE <<>>
  BY <1>1 DEF Begin, Goto
<1>5. ReadPhase(node) \in GreenSided <=> ReadActiveColor(node) = "green"
  BY <1>3 DEF NodeInv, Consistent, ReadPhase, ReadActiveColor, GreenSided, GreenPhases
<1>6. CASE ReadPhase(node) \in BluePhases
  <2>1. ph' \in BluePhases /\ ReadActiveColor(view') # "green" /\ Safe'
    BY <1>1, <1>3, <1>4, <1>5, <1>6 DEF BluePhases, GreenSided, GreenPhases, NodeInv
  <2>2. ph' \in Preparation => Unbegun(node') /\ Unbegun(view')
    BY <1>1, <1>3, <1>4 DEF Preparation, NodeInv
  <2>3. todo' \in Seq(BlueWrites(BlueTargets'))
    <3>1. CASE retry
      <4>1. BlueTargets' = {"BlueActive"}
        BY <1>4, <3>1 DEF BlueTargets, Preparation
      <4>2. Progress("BlueActive", "blue", NoSnap, Nothing) \in Seq(BlueWrites({"BlueActive"}))
        BY BlueProgress DEF BluePhases
      <4>3. PatchNode([retry |-> "none"]) \in Seq(BlueWrites({"BlueActive"}))
        <5>1. /\ [op |-> "node", patch |-> [retry |-> "none"]] \in Writes
              /\ DOMAIN [retry |-> "none"] = {"retry"}
          BY FieldPatch, Patched
        <5> QED
          BY <5>1 DEF PatchNode, BlueWrites, IsPatch, Moves
      <4> QED
        BY <1>4, <3>1, <4>1, <4>2, <4>3, Concat
    <3>2. CASE ~retry
      BY <1>4, <3>2
    <3> QED
      BY <3>1, <3>2
  <2>4. BlueStage'
    BY <1>1, <1>2, <1>6, <2>1, <2>2, <2>3 DEF BlueStage, Preparation
  <2> QED
    BY <2>4 DEF Stage
<1>7. CASE ReadPhase(node) = "CuttingOver"
  <2>1. CutStage'
    BY <1>1, <1>2, <1>4, <1>5, <1>7 DEF CutStage, Current, GreenSided, GreenPhases
  <2> QED
    BY <2>1 DEF Stage
<1>8. CASE ReadPhase(node) \in GreenPhases
  <2>1. todo' = <<>> /\ ph' \in GreenPhases /\ node.token # NoToken /\ Fresh(node)
    BY <1>3, <1>4, <1>8 DEF GreenPhases, NodeInv
  <2>2. GreenStage'
    BY <1>1, <1>2, <1>8, <2>1 DEF GreenStage
  <2> QED
    BY <2>2 DEF Stage
<1>9. CASE ReadPhase(node) = "RollingBack"
  <2>1. BackStage'
    BY <1>1, <1>2, <1>4, <1>9 DEF BackStage, Current
  <2> QED
    BY <2>1 DEF Stage
<1>10. ReadPhase(node) \in BluePhases \cup GreenPhases \cup {"CuttingOver", "RollingBack"}
  BY <1>3 DEF ReadPhase, NodeType, Phases, BluePhases, GreenPhases
<1> QED
  BY <1>6, <1>7, <1>8, <1>9, <1>10

\* A pass with blue active goes on with blue active.
LEMMA BlueOn ==
    ASSUME IdInv, BlueStage, UNCHANGED <<node, sts, cm, pod, step>>,
           ph' \in BluePhases, pc' \in {"decide", "prepare", "wait", "end"},
           pc' = "prepare" => ph' = "PreparingGreen",
           pc' = "wait" => ph' = "WaitingForGreen",
           ReadActiveColor(view') # "green",
           ph' = "WaitingForGreen" => Unbegun(view'),
           \/ todo' \in Seq(BlueWrites(BlueTargets')) /\ (ph' \in Preparation => Unbegun(node))
           \/ /\ ph' = "PreparingGreen" /\ todo' # <<>> /\ todo'[1] \in StartWrites
              /\ \A i \in 2..Len(todo') : todo'[i] \in BlueWrites(BluePhases)
    PROVE  Stage'
<1>1. Safe' /\ ReadPhase(node') \in BluePhases /\ node' = node /\ step' = "none"
  BY Still DEF IdInv, BlueStage
<1>2. BlueStage'
  BY <1>1 DEF BlueStage, From
<1> QED
  BY <1>2 DEF Stage

\* Blue is kept.
LEMMA KeepBlueIn ==
    ASSUME Inv, NEW P
    PROVE  /\ KeepBluePublishing \in Seq(BlueWrites(P))
           /\ ApplySts("blue", "active", 1, view.ver, NoToken) \o ApplySvc("blue") \in Seq(BlueWrites(P))
<1>1. /\ view.ver \in Versions \cup {NoVersion} /\ view.blueVer \in Versions \cup {NoVersion}
      /\ DeployedBlue \in Versions \cup {NoVersion}
  BY KeepTyped, ViewTyped DEF NodeType
<1>2. \A v \in Versions \cup {NoVersion} :
         ApplySts("blue", "active", 1, v, NoToken) \o ApplySvc("blue") \in Seq(BlueWrites(P))
  BY Applied, Concat
<1> QED
  BY <1>1, <1>2 DEF KeepBluePublishing

\* The decisions of a pass while blue is active.
LEMMA BlueStageOn ==
    ASSUME IdInv, KeepFailed \/ MaintainBlue \/ StartRollout
    PROVE  Stage'
<1>1. At("decide") /\ ~GreenSide /\ ph \in {"Failed", "BlueActive"}
  BY DEF KeepFailed, MaintainBlue, StartRollout
<1>2. BlueStage /\ todo = <<>> /\ pc = "decide"
  BY <1>1, AtStage DEF IdInv, CutStage, GreenStage, BackStage, GreenPhases, At
<1>3. ReadActiveColor(view) # "green" /\ Inv
  BY <1>2 DEF BlueStage, IdInv
<1>4. UNCHANGED <<node, sts, cm, pod, step, view>>
  BY DEF KeepFailed, MaintainBlue, StartRollout, locals, unmoved, cluster, kubelet
<1>5. CASE KeepFailed
  <2>1. ph' = ph /\ pc' = "end" /\ todo' \in Seq(BlueWrites(BlueTargets'))
    BY <1>5, <1>3, KeepBlueIn DEF KeepFailed, Finish, Goto, locals
  <2>2. ph' \notin Preparation /\ ph' \in BluePhases /\ ph' # "WaitingForGreen"
    BY <1>1, <2>1 DEF Preparation, BluePhases
  <2> QED
    BY <1>2, <1>3, <1>4, <2>1, <2>2, BlueOn
<1>6. CASE MaintainBlue
  <2>1. ph' = "BlueActive" /\ pc' = "end"
    BY <1>6 DEF MaintainBlue, Finish, Goto, locals
  <2>2. ph' \notin Preparation /\ ph' \in BluePhases /\ ph' # "WaitingForGreen"
        /\ BlueTargets' = {"BlueActive"}
    BY <2>1 DEF Preparation, BluePhases, BlueTargets
  <2>3. Progress("BlueActive", "blue", NoSnap, Nothing) \in Seq(BlueWrites({"BlueActive"}))
    BY BlueProgress DEF BluePhases
  <2>4. todo' \in Seq(BlueWrites({"BlueActive"}))
    BY <1>3, <1>6, <2>3, KeepBlueIn, Concat DEF MaintainBlue, Finish, Goto
  <2> QED
    BY <1>2, <1>3, <1>4, <2>1, <2>2, <2>4, BlueOn
<1>7. CASE StartRollout
  <2> DEFINE p == [started |-> "set", blueVer |-> DeployedBlue,
                   phase |-> "PreparingGreen", cut |-> "none", rb |-> "none"]
             w == [op |-> "node?", patch |-> p]
  <2>1. ph' = "PreparingGreen" /\ pc' = "prepare" /\ todo' = <<w>> \o KeepBluePublishing
    BY <1>7 DEF StartRollout, Goto, PatchNodeIgnoringErrors
  <2>2. w \in StartWrites
    <3>1. p \in Patches
      BY <1>3, KeepTyped, StartPatch
    <3>2. /\ DOMAIN p = {"started", "blueVer", "phase", "cut", "rb"}
          /\ p.phase = "PreparingGreen" /\ p.cut = "none" /\ p.rb = "none"
      OBVIOUS
    <3> HIDE DEF p
    <3> QED
      BY <3>1, <3>2, Patched DEF StartWrites, IsPatch
  <2>3. KeepBluePublishing \in Seq(BlueWrites(BluePhases))
    BY <1>3, KeepBlueIn
  <2> HIDE DEF w
  <2>4. /\ todo' # <<>> /\ todo'[1] \in StartWrites
        /\ \A i \in 2..Len(todo') : todo'[i] \in BlueWrites(BluePhases)
    BY <2>1, <2>2, <2>3
  <2>5. ph' \in BluePhases /\ ph' # "WaitingForGreen"
    BY <2>1 DEF BluePhases
  <2> QED
    BY <1>2, <1>3, <1>4, <2>1, <2>4, <2>5, BlueOn
<1> QED
  BY <1>5, <1>6, <1>7

\* The decisions of a pass that prepares green.
LEMMA PrepareStageOn ==
    ASSUME IdInv, CreateSnapshot \/ AwaitSnapshot \/ CreateGreen
    PROVE  Stage'
<1>1. At("prepare")
  BY DEF CreateSnapshot, AwaitSnapshot, CreateGreen
<1>2. BlueStage /\ ph = "PreparingGreen" /\ Unbegun(node) /\ Inv
  BY <1>1, AtStage DEF IdInv
<1>3. /\ ph' = "PreparingGreen" /\ ph' \in BluePhases /\ BlueTargets' = BluePhases
      /\ UNCHANGED <<node, sts, cm, pod, step>>
  BY <1>2 DEF CreateSnapshot, AwaitSnapshot, CreateGreen, SeedGreen, locals, unmoved, cluster,
              kubelet, BluePhases, BlueTargets, Preparation
<1>4. ReadActiveColor(view') # "green"
  BY <1>2, ViewTyped DEF CreateSnapshot, AwaitSnapshot, CreateGreen, SeedGreen, locals, BlueStage,
              ReadActiveColor, NodeType
<1>5. pc' \in {"prepare", "end"} /\ todo' \in Seq(BlueWrites(BluePhases))
  <2>1. CASE CreateSnapshot
    BY <1>1, <2>1 DEF CreateSnapshot, At
  <2>2. CASE AwaitSnapshot
    BY <1>2, <2>2, BlueProgress, ViewTyped DEF AwaitSnapshot, Finish, Goto, BluePhases
  <2>3. CASE CreateGreen
    <3> DEFINE src == IF RequireSnapshot THEN view.snap ELSE "blank"
               known == IF RequireSnapshot THEN view.snap ELSE NoSnap
    <3>1. /\ src \in Snaps \cup {"blank"} /\ known \in Snaps \cup {NoSnap}
          /\ view.ver \in Versions \cup {NoVersion}
      BY <1>2, <2>3, ViewTyped DEF CreateGreen, Inv, TypeInv, ClusterTyped
    <3>2. Progress("WaitingForGreen", "blue", known, Nothing) \in Seq(BlueWrites(BluePhases))
      BY <3>1, BlueProgress DEF BluePhases
    <3>3. /\ CreatePvc(src) \in Seq(BlueWrites(BluePhases))
          /\ ApplyCm("standby") \in Seq(BlueWrites(BluePhases))
          /\ ApplySts("green", "standby", 1, view.ver, NoToken) \in Seq(BlueWrites(BluePhases))
      BY <3>1, Applied
    <3> QED
      BY <2>3, <3>2, <3>3, Concat DEF CreateGreen, SeedGreen, Finish, Goto
  <2> QED
    BY <2>1, <2>2, <2>3
<1> QED
  BY <1>2, <1>3, <1>4, <1>5, BlueOn

\* The decisions of a pass that waits for green.
LEMMA WaitStageOn ==
    ASSUME IdInv, TimeOut \/ AwaitGreen \/ EnterCutover
    PROVE  Stage'
<1>1. At("wait")
  BY DEF TimeOut, AwaitGreen, EnterCutover
<1>2. /\ BlueStage /\ ph = "WaitingForGreen" /\ Unbegun(node) /\ Unbegun(view) /\ Inv
      /\ ReadActiveColor(view) # "green"
  BY <1>1, AtStage DEF IdInv, BlueStage
<1>3. UNCHANGED <<node, sts, cm, pod, ph, view>>
  BY DEF TimeOut, AwaitGreen, EnterCutover, locals, unmoved, cluster, kubelet
<1>4. view.snap \in Snaps \cup {NoSnap}
  BY <1>2, ViewTyped
<1>5. CASE TimeOut \/ AwaitGreen
  <2>1. step' = step /\ pc' = "end" /\ BlueTargets' = BluePhases /\ ph \in BluePhases
    BY <1>2, <1>3, <1>5 DEF TimeOut, AwaitGreen, Finish, Goto, locals, BlueTargets, Preparation,
                            BluePhases
  <2>2. /\ Progress("Failed", "blue", view.snap, Nothing) \in Seq(BlueWrites(BluePhases))
        /\ Progress("WaitingForGreen", "blue", view.snap, Nothing) \in Seq(BlueWrites(BluePhases))
    BY <1>4, BlueProgress DEF BluePhases
  <2>3. CleanupGreenResources \in Seq(BlueWrites(BluePhases))
    BY <1>2, Applied, ViewTyped
  <2>4. todo' \in Seq(BlueWrites(BluePhases))
    BY <1>5, <2>2, <2>3, Concat DEF TimeOut, AwaitGreen, Finish, Goto
  <2> QED
    BY <1>2, <1>3, <2>1, <2>4, BlueOn
<1>6. CASE EnterCutover
  <2> DEFINE w == Progress("CuttingOver", "blue", view.snap, [cut |-> "ScaleBlueDown"])
  <2>1. step' = "ScaleBlueDown" /\ pc' = "cutover" /\ todo' = w
    BY <1>2, <1>6 DEF EnterCutover, Goto, ReadCutoverStep, Unbegun
  <2>2. Len(w) = 2 /\ w[1] \in EnterWrites /\ w[2] \in EnterWrites \cap StatusWrites({"CuttingOver"})
    BY <1>4, CutProgress DEF CutoverSteps
  <2> HIDE DEF w
  <2>3. Safe' /\ ReadPhase(node') \in BluePhases
    BY <1>2, <1>3, Still DEF IdInv, BlueStage
  <2>4. CutPass'
    BY <1>2, <1>3, <2>1 DEF CutPass, CutoverSteps, Unbegun
  <2>5. EnterStage'
    BY <1>2, <1>3, <2>1, <2>2, <2>3, <2>4 DEF EnterStage, EndsInStatus
  <2> QED
    BY <2>5 DEF Stage
<1> QED
  BY <1>5, <1>6

\* A pass goes on where the node says the rollout is.
LEMMA ResumeStage == ASSUME IdInv, Resume PROVE Stage'
<1>1. At("decide") /\ ~GreenSide /\ Inv /\ NodeInv
  BY DEF Resume, IdInv
<1>2. BlueStage \/ CutStage \/ GreenStage \/ BackStage
  BY <1>1, AtStage DEF IdInv
<1>3. UNCHANGED <<node, sts, cm, pod, ph, view, read>>
  BY DEF Resume, unmoved, cluster, kubelet
<1>4. CASE ph \in Preparation
  <2>1. BlueStage /\ todo = <<>>
    BY <1>1, <1>2, <1>4 DEF Preparation, CutStage, GreenStage, BackStage, GreenPhases, At
  <2>2. Unbegun(node) /\ ReadActiveColor(view) # "green" /\ (ph = "WaitingForGreen" => Unbegun(view))
    BY <1>4, <2>1 DEF BlueStage
  <2>3. /\ ph \in BluePhases /\ BlueTargets' = BluePhases
    BY <1>3, <1>4 DEF Preparation, BluePhases, BlueTargets
  <2>4. /\ step' = step
        /\ \/ ph = "PreparingGreen" /\ pc' = "prepare"
           \/ ph = "WaitingForGreen" /\ pc' = "wait"
    BY <1>4 DEF Resume, Goto, Preparation
  <2>5. todo' \in Seq(BlueWrites(BluePhases))
    BY <1>1, <1>4, KeepBlueIn DEF Resume, Goto, Preparation
  <2> QED
    BY <1>3, <2>1, <2>2, <2>3, <2>4, <2>5, BlueOn
<1>5. CASE ph = "CuttingOver"
  <2>1. CutStage
    BY <1>2, <1>5 DEF BlueStage, GreenStage, BackStage, GreenPhases, BluePhases
  <2>2. step' = ReadCutoverStep(view) /\ token' = view.token /\ pc' = "cutover" /\ todo' = <<>>
    BY <1>5 DEF Resume, Goto
  <2>3. /\ ReadPhase(node) = "CuttingOver" /\ view.cut = node.cut /\ view.token = node.token
        /\ Fresh(node) /\ (node.cut = "WaitGreenHealthy" => Restarted)
    BY <1>1, <2>1 DEF CutStage, Current, NodeInv
  <2>4. CutPass'
    BY <1>1, <1>3, <1>5, <2>2, <2>3, ViewTyped DEF CutPass
  <2>5. CASE node.cut = "WaitGreenHealthy"
    <3>1. Restarted' /\ node' = node
      BY <1>1, <1>3, <2>3, <2>5, Still
    <3>2. HoldStage'
      BY <1>3, <2>2, <2>3, <2>4, <2>5, <3>1 DEF HoldStage, Rolled, Restarted, ReadCutoverStep
    <3> QED
      BY <3>2 DEF Stage
  <2>6. CASE node.cut # "WaitGreenHealthy"
    <3>1. DownStage'
      BY <1>3, <2>2, <2>3, <2>4, <2>6 DEF DownStage, ReadCutoverStep
    <3> QED
      BY <3>1 DEF Stage
  <2> QED
    BY <2>5, <2>6
<1>6. CASE ph = "RollingBack"
  <2>1. BackStage
    BY <1>2, <1>6 DEF BlueStage, GreenStage, CutStage, GreenPhases, BluePhases
  <2>2. step' = ReadRollbackStep(view) /\ pc' = "rollback" /\ todo' = <<>>
    BY <1>6 DEF Resume, Goto
  <2>3. /\ ReadPhase(node) = "RollingBack" /\ view.rb = node.rb /\ (~Fresh(node) => Safe)
    BY <1>1, <2>1 DEF BackStage, Current, NodeInv
  <2>4. BackPass'
    BY <1>1, <1>3, <1>6, <2>2, ViewTyped DEF BackPass, GreenSided
  <2>5. CASE Fresh(node)
    <3>1. LeaveStage'
      BY <1>3, <2>2, <2>3, <2>4, <2>5 DEF LeaveStage, ReadRollbackStep, Fresh
    <3> QED
      BY <3>1 DEF Stage
  <2>6. CASE ~Fresh(node)
    <3>1. Safe'
      BY <1>1, <1>3, <2>3, <2>6, Still
    <3>2. ReturnStage'
      BY <1>3, <2>2, <2>3, <2>4, <2>6, <3>1 DEF ReturnStage, ReadRollbackStep, Fresh
    <3> QED
      BY <3>2 DEF Stage
  <2> QED
    BY <2>5, <2>6
<1> QED
  BY <1>4, <1>5, <1>6 DEF Resume, Preparation

\* The reads of a cutover step.
LEMMA ReadStage == ASSUME IdInv, ReadBlueDown \/ ReadGreenHealth PROVE Stage'
<1>1. /\ At("cutover") \/ At("cutoverHealth")
      /\ NodeInv /\ UNCHANGED <<node, sts, cm, pod, ph, view, step, token, todo>>
  BY DEF ReadBlueDown, ReadGreenHealth, IdInv, unmoved, cluster, kubelet
<1>2. /\ pc' \in {"cutoverHealth", "cutoverStep"} /\ todo' = <<>> /\ node' = node
      /\ DownStage /\ read'.blueDown => BlueDown'
      /\ Restarted' <=> Restarted
  <2>1. CASE ReadBlueDown
    <3>1. read'.blueDown = BlueFullyDown
      BY <2>1 DEF ReadBlueDown
    <3> QED
      BY <1>1, <2>1, <3>1, Still DEF ReadBlueDown, At, BlueFullyDown, BlueDown
  <2>2. CASE ReadGreenHealth
    <3>1. read'.blueDown = read.blueDown /\ At("cutoverHealth")
      BY <2>2 DEF ReadGreenHealth, IdInv, Inv, TypeInv, PassTyped
    <3>2. DownStage /\ read.blueDown => BlueDown
      BY <3>1 DEF DownStage, At
    <3>3. /\ BlueDown' <=> BlueDown
          /\ Restarted' <=> Restarted
      BY <1>1, Still
    <3>4. pc' = "cutoverStep" /\ todo' = <<>> /\ node' = node
      BY <1>1, <2>2 DEF ReadGreenHealth, At
    <3> QED
      BY <3>1, <3>2, <3>3, <3>4
  <2> QED
    BY <2>1, <2>2
<1>3. CASE DownStage
  <2>1. DownStage'
    BY <1>1, <1>2, <1>3 DEF DownStage, CutPass
  <2> QED
    BY <2>1 DEF Stage
<1>4. CASE HoldStage
  <2>1. HoldStage'
    BY <1>1, <1>2, <1>4 DEF HoldStage, Rolled, CutPass
  <2> QED
    BY <2>1 DEF Stage
<1> QED
  BY <1>1, <1>3, <1>4, AtStage DEF IdInv

\* Which step leads to which command.
LEMMA CutoverCommands ==
    ASSUME step \in CutoverSteps, read \in [blueDown : BOOLEAN, health : BOOLEAN]
    PROVE  /\ ClampedStep \in CutoverSteps
           /\ ClampedStep = "WaitGreenHealthy" => step = "WaitGreenHealthy"
           /\ CutoverCommand(ClampedStep) = "ScaleBlueToZero" => step = "ScaleBlueDown"
           /\ CutoverCommand(ClampedStep) = "EnableGreenPublishingAndRestart" =>
                 step = "WaitBlueDown" /\ read.blueDown
           /\ CutoverCommand(ClampedStep) = "SwitchServiceToGreenAndFinish" =>
                 /\ step = "WaitGreenHealthy" /\ read.blueDown /\ read.health
                 /\ GreenPublishRolloutObserved(token)
<1>1. ClampedStep \in CutoverSteps /\ ClampedStep = IF ~read.blueDown /\ step \in {"EnableGreenPublish", "WaitGreenHealthy", "SwitchService"}
    THEN "WaitBlueDown" ELSE step
  BY DEF ClampedStep, EnforceCutoverSafety, CutoverSteps
<1>2. CASE read.blueDown
  <2>1. ClampedStep = step
    BY <1>1, <1>2
  <2>2. CASE step = "ScaleBlueDown"
    BY <1>1, <2>1, <2>2 DEF CutoverCommand, PlanCutoverAdvance
  <2>3. CASE step = "WaitBlueDown"
    BY <1>1, <1>2, <2>1, <2>3 DEF CutoverCommand, PlanCutoverAdvance
  <2>4. CASE step = "WaitGreenHealthy"
    BY <1>1, <1>2, <2>1, <2>4 DEF CutoverCommand, PlanCutoverAdvance
  <2>5. CASE step \notin {"ScaleBlueDown", "WaitBlueDown", "WaitGreenHealthy"}
    BY <1>1, <2>1, <2>5 DEF CutoverCommand, PlanCutoverAdvance
  <2> QED
    BY <2>2, <2>3, <2>4, <2>5
<1>3. CASE ~read.blueDown
  <2>1. CASE step = "ScaleBlueDown"
    BY <1>1, <1>3, <2>1 DEF CutoverCommand, PlanCutoverAdvance
  <2>2. CASE step # "ScaleBlueDown"
    BY <1>1, <1>3, <2>2 DEF CutoverCommand, PlanCutoverAdvance, CutoverSteps
  <2> QED
    BY <2>1, <2>2
<1> QED
  BY <1>2, <1>3

\* Three writes before the others.
LEMMA ThreeFirst ==
    ASSUME NEW T, NEW a \in T, NEW b \in T, NEW c \in T, NEW s \in Seq(T)
    PROVE  /\ Len(<<a>> \o <<b>> \o <<c>> \o s) = 3 + Len(s)
           /\ (<<a>> \o <<b>> \o <<c>> \o s)[1] = a
           /\ (<<a>> \o <<b>> \o <<c>> \o s)[2] = b
           /\ (<<a>> \o <<b>> \o <<c>> \o s)[3] = c
           /\ \A i \in 4..(3 + Len(s)) : (<<a>> \o <<b>> \o <<c>> \o s)[i] = s[i - 3]
<1>1. Len(<<a>> \o <<b>> \o <<c>> \o s) = 3 + Len(s)
  OBVIOUS
<1>2. /\ (<<a>> \o <<b>> \o <<c>> \o s)[1] = a
      /\ (<<a>> \o <<b>> \o <<c>> \o s)[2] = b
      /\ (<<a>> \o <<b>> \o <<c>> \o s)[3] = c
  OBVIOUS
<1>3. ASSUME NEW i \in 4..(3 + Len(s))
      PROVE  (<<a>> \o <<b>> \o <<c>> \o s)[i] = s[i - 3]
  OBVIOUS
<1> QED
  BY <1>1, <1>2, <1>3

\* The steps of a cutover.
LEMMA CutoverStageOn ==
    ASSUME IdInv, \/ ScaleBlueToZero \/ EnableGreenPublishingAndRestart
                  \/ SwitchServiceToGreen \/ CutoverWait
    PROVE  Stage'
<1>1. /\ At("cutoverStep") /\ Inv /\ NodeInv
      /\ UNCHANGED <<node, sts, cm, pod, ph, view, read>>
  BY DEF IdInv, ScaleBlueToZero, EnableGreenPublishingAndRestart, SwitchServiceToGreen, CutoverWait,
         locals, unmoved, cluster, kubelet
<1>2. DownStage \/ HoldStage
  BY <1>1, AtStage DEF IdInv
<1>3. /\ CutPass /\ step \in CutoverSteps /\ read \in [blueDown : BOOLEAN, health : BOOLEAN]
      /\ ReadPhase(node) = "CuttingOver"
  BY <1>1, <1>2 DEF DownStage, HoldStage, Rolled, CutPass, Inv, TypeInv, PassTyped
<1>4. /\ node' = node /\ (BlueDown' <=> BlueDown) /\ (Handed' <=> Handed) /\ (Restarted' <=> Restarted)
  BY <1>1, Still
<1>5. /\ view.snap \in Snaps \cup {NoSnap} /\ view.ver \in Versions \cup {NoVersion}
      /\ BlueVersion(view) \in Versions \cup {NoVersion}
  BY <1>1, ViewTyped, KeepTyped
<1>6. CASE ScaleBlueToZero
  <2>1. step = "ScaleBlueDown"
    BY <1>3, <1>6, CutoverCommands DEF ScaleBlueToZero
  <2>2. step' = "WaitBlueDown" /\ pc' = "cutover"
    BY <1>6 DEF ScaleBlueToZero, Goto
  <2>3. DownStage
    BY <1>2, <2>1 DEF HoldStage, Rolled
  <2>4. todo' \in Seq(DownWrites)
    <3>1. Progress("CuttingOver", "blue", view.snap, [cut |-> "WaitBlueDown"]) \in Seq(DownWrites)
      BY <1>5, CutProgress DEF CutoverSteps
    <3>2. /\ ApplySts("blue", "standby", 0, BlueVersion(view), NoToken) \in Seq(DownWrites)
          /\ ApplySvc("blue") \in Seq(DownWrites) /\ ApplyCm("standby") \in Seq(DownWrites)
      BY <1>5, Applied
    <3> QED
      BY <1>6, <3>1, <3>2, Concat DEF ScaleBlueToZero, Goto
  <2>5. DownStage'
    BY <1>1, <1>3, <1>4, <2>2, <2>3, <2>4 DEF DownStage, CutPass, CutoverSteps
  <2> QED
    BY <2>5 DEF Stage
<1>7. CASE EnableGreenPublishingAndRestart
  <2>1. step = "WaitBlueDown" /\ read.blueDown
    BY <1>3, <1>7, CutoverCommands DEF EnableGreenPublishingAndRestart
  <2>2. DownStage /\ BlueDown
    BY <1>1, <1>2, <2>1 DEF HoldStage, Rolled, DownStage, At
  <2>3. token' \in Tokens /\ token' # NoToken /\ step' = "WaitGreenHealthy" /\ pc' = "cutover"
    BY <1>7, BlueGreenAssumption DEF EnableGreenPublishingAndRestart, Goto
  <2> DEFINE w1 == [op |-> "cm", mode |-> "publishing"]
             w2 == [op |-> "sts", color |-> "green",
                    sts |-> [ver |-> view.ver, tok |-> token', role |-> "active", replicas |-> 1]]
             w3 == [op |-> "node?", patch |-> [token |-> token']]
             ws == Progress("CuttingOver", "blue", view.snap, [cut |-> "WaitGreenHealthy"])
  <2>4. todo' = <<w1>> \o <<w2>> \o <<w3>> \o ws
    BY <1>7 DEF EnableGreenPublishingAndRestart, Goto, ApplyCm, ApplySts, PatchNodeIgnoringErrors
  <2>5. ws \in Seq(HoldWrites) /\ Len(ws) = 2
    BY <1>5, CutProgress DEF CutoverSteps
  <2>6. /\ Publishes1(w1)
        /\ w2.op = "sts" /\ w2.color = "green" /\ w2.sts.tok = token'
        /\ IsPatch(w3) /\ DOMAIN w3.patch = {"token"} /\ w3.patch.token = token'
    BY DEF Publishes1, IsPatch
  <2> HIDE DEF w1, w2, w3, ws
  <2>7. /\ Len(todo') >= 3 /\ todo'[1] = w1 /\ todo'[2] = w2 /\ todo'[3] = w3
        /\ \A i \in 4..Len(todo') : todo'[i] \in HoldWrites
    <3> DEFINE T == HoldWrites \cup {w1, w2, w3}
    <3>1. HoldWrites \subseteq T /\ w1 \in T /\ w2 \in T /\ w3 \in T
      OBVIOUS
    <3> HIDE DEF T
    <3>2. ws \in Seq(T)
      BY <2>5, <3>1, SeqMonotone
    <3>3. /\ Len(<<w1>> \o <<w2>> \o <<w3>> \o ws) = 3 + Len(ws)
          /\ (<<w1>> \o <<w2>> \o <<w3>> \o ws)[1] = w1
          /\ (<<w1>> \o <<w2>> \o <<w3>> \o ws)[2] = w2
          /\ (<<w1>> \o <<w2>> \o <<w3>> \o ws)[3] = w3
          /\ \A i \in 4..(3 + Len(ws)) : (<<w1>> \o <<w2>> \o <<w3>> \o ws)[i] = ws[i - 3]
      BY <3>1, <3>2, ThreeFirst
    <3>4. Len(todo') = 5 /\ 4..Len(todo') = {4, 5} /\ 3 + Len(ws) = 5
      BY <2>4, <2>5, <3>3
    <3>5. todo'[1] = w1 /\ todo'[2] = w2 /\ todo'[3] = w3
      BY <2>4, <3>3
    <3>6. todo'[4] = ws[1] /\ todo'[5] = ws[2]
      BY <2>4, <3>3, <3>4
    <3>7. ws[1] \in HoldWrites /\ ws[2] \in HoldWrites
      BY <2>5
    <3> QED
      BY <3>4, <3>5, <3>6, <3>7
  <2>8. CutPass' /\ ReadPhase(node') = "CuttingOver" /\ node'.cut # "WaitGreenHealthy" /\ BlueDown'
    BY <1>1, <1>3, <1>4, <2>2, <2>3 DEF CutPass, CutoverSteps, DownStage
  <2>9. EnableStage'
    BY <2>3, <2>6, <2>7, <2>8 DEF EnableStage, Restarts, Records, From
  <2> QED
    BY <2>9 DEF Stage
<1>8. CASE SwitchServiceToGreen
  <2>1. step = "WaitGreenHealthy" /\ GreenPublishRolloutObserved(token)
    BY <1>3, <1>8, CutoverCommands DEF SwitchServiceToGreen
  <2>2. HoldStage
    BY <1>2, <2>1 DEF DownStage
  <2>3. Handed
    BY <2>1, <2>2 DEF HoldStage, Rolled, Restarted, Handed, Tokened, GreenPublishRolloutObserved
  <2>4. pc' = "end" /\ UNCHANGED <<step, token>>
    BY <1>8 DEF SwitchServiceToGreen, Finish, Goto, locals
  <2>5. todo' \in Seq(SwitchWrites)
    <3>1. ApplySvc("green") \in Seq(SwitchWrites)
      BY <1>5, Applied
    <3>2. PatchNodeIgnoringErrors([cut |-> "Complete"]) \in Seq(SwitchWrites)
      <4>1. /\ [op |-> "node?", patch |-> [cut |-> "Complete"]] \in Writes
            /\ DOMAIN [cut |-> "Complete"] = {"cut"}
        BY FieldPatch, Patched DEF CutoverSteps
      <4> QED
        BY <4>1 DEF PatchNodeIgnoringErrors, SwitchWrites, IsPatch, Moves
    <3>3. Progress("GreenActive", "green", view.snap, [cut |-> "Complete"]) \in Seq(SwitchWrites)
      BY <1>5, GreenProgress
    <3> QED
      BY <1>8, <3>1, <3>2, <3>3, Concat DEF SwitchServiceToGreen, Finish, Goto
  <2>6. SwitchStage'
    BY <1>1, <1>3, <1>4, <2>2, <2>3, <2>4, <2>5 DEF SwitchStage, HoldStage, Rolled, CutPass
  <2> QED
    BY <2>6 DEF Stage
<1>9. CASE CutoverWait
  <2>1. pc' = "end" /\ UNCHANGED <<step, token>>
    BY <1>9 DEF CutoverWait, Finish, Goto, locals
  <2>2. /\ todo' \in Seq(HoldWrites)
        /\ ClampedStep # "WaitGreenHealthy" => todo' \in Seq(DownWrites)
    BY <1>3, <1>5, <1>9, CutProgress, CutoverCommands DEF CutoverWait, Finish, Goto
  <2>3. CASE DownStage
    <3>1. ClampedStep # "WaitGreenHealthy"
      BY <1>3, <2>3, CutoverCommands DEF DownStage
    <3>2. DownStage'
      BY <1>1, <1>3, <1>4, <2>1, <2>2, <2>3, <3>1 DEF DownStage, CutPass
    <3> QED
      BY <3>2 DEF Stage
  <2>4. CASE HoldStage
    <3>1. HoldStage'
      BY <1>1, <1>3, <1>4, <2>1, <2>2, <2>4 DEF HoldStage, Rolled, CutPass
    <3> QED
      BY <3>1 DEF Stage
  <2> QED
    BY <1>2, <2>3, <2>4
<1> QED
  BY <1>6, <1>7, <1>8, <1>9

\* Green is kept, or given up.
LEMMA GreenStageOn ==
    ASSUME IdInv, DeferUpgrade \/ StayDeferred \/ MaintainGreen \/ GreenHealthy \/ StartRollback
    PROVE  Stage'
<1>1. /\ Inv /\ NodeInv /\ UNCHANGED <<node, sts, cm, pod, ph, view, read>>
      /\ pc \in {"decide", "health"} /\ todo = <<>>
  BY DEF IdInv, DeferUpgrade, StayDeferred, MaintainGreen, GreenHealthy, StartRollback,
         locals, unmoved, cluster, kubelet, At
<1>2. GreenStage
  <2>1. CASE At("decide")
    <3>1. GreenSide
      BY <2>1 DEF DeferUpgrade, StayDeferred, MaintainGreen, GreenHealthy, StartRollback, At
    <3>2. ~BlueStage /\ ~CutStage /\ ~BackStage
      BY <3>1 DEF GreenSide, BlueStage, CutStage, BackStage, BluePhases
    <3> QED
      BY <2>1, <3>2, AtStage DEF IdInv
  <2>2. CASE At("health")
    BY <2>2, AtStage DEF IdInv
  <2> QED
    BY <1>1, <2>1, <2>2 DEF At
<1>3. /\ view.snap \in Snaps \cup {NoSnap} /\ view.ver \in Versions \cup {NoVersion}
      /\ view.token \in Tokens
      /\ BlueVersion(view) \in Versions \cup {NoVersion}
  BY <1>1, <1>2, ViewTyped, KeepTyped DEF GreenStage
<1>4. KeepGreen \in Seq(GreenWrites)
  <2>1. /\ ApplyCm("publishing") \in Seq(GreenWrites)
        /\ ApplySts("green", "active", 1, view.ver, view.token) \in Seq(GreenWrites)
        /\ ApplySvc("green") \in Seq(GreenWrites)
        /\ ApplySts("blue", "standby", 0, BlueVersion(view), NoToken) \in Seq(GreenWrites)
    BY <1>3, Applied
  <2> QED
    BY <2>1, Concat DEF KeepGreen
<1>5. CASE DeferUpgrade \/ StayDeferred \/ MaintainGreen \/ GreenHealthy
  <2>1. step' = step /\ pc' \in {"health", "end"}
    BY <1>5 DEF DeferUpgrade, StayDeferred, MaintainGreen, GreenHealthy, Finish, Goto, locals
  <2>2. /\ Progress("GreenActive", "green", view.snap, [cut |-> "Complete"]) \in Seq(GreenWrites)
        /\ Progress("UpgradeDeferred", "green", view.snap, Nothing) \in Seq(GreenWrites)
        /\ <<>> \in Seq(GreenWrites)
    BY <1>3, GreenProgress
  <2>3. todo' \in Seq(GreenWrites)
    BY <1>4, <1>5, <2>2, Concat
    DEF DeferUpgrade, StayDeferred, MaintainGreen, GreenHealthy, Finish, Goto
  <2>4. GreenStage'
    BY <1>1, <1>2, <2>1, <2>3 DEF GreenStage
  <2> QED
    BY <2>4 DEF Stage
<1>6. CASE StartRollback
  <2> DEFINE w == Progress("RollingBack", "green", view.snap, [rb |-> "StopGreen"])
  <2>1. step' = "StopGreen" /\ pc' = "rollback" /\ todo' = w
    BY <1>2, <1>6 DEF StartRollback, Goto, ReadRollbackStep, GreenStage, Fresh
  <2>2. /\ Len(w) = 2 /\ w[1] \in LeaveWrites /\ w[2] \in LeaveWrites \cap StatusWrites({"RollingBack"})
    BY <1>3, BackProgress DEF RollbackSteps
  <2> HIDE DEF w
  <2>3. /\ ReadPhase(node') \in GreenSided /\ Fresh(node') /\ BackPass'
    BY <1>1, <1>2, <2>1 DEF GreenStage, NodeInv, GreenSided, BackPass, RollbackSteps
  <2>4. LeaveStage'
    BY <2>1, <2>2, <2>3 DEF LeaveStage, EndsInStatus
  <2> QED
    BY <2>4 DEF Stage
<1> QED
  BY <1>5, <1>6

\* The steps of a rollback.
LEMMA RollbackStageOn ==
    ASSUME IdInv, ScaleGreenToZero \/ ScaleBlueToOne \/ SwitchServiceToBlue \/ RollbackWait
    PROVE  Stage'
<1>1. /\ At("rollback") /\ Inv /\ NodeInv /\ UNCHANGED <<node, sts, cm, pod, ph, view, read>>
  BY DEF IdInv, ScaleGreenToZero, ScaleBlueToOne, SwitchServiceToBlue, RollbackWait,
         locals, unmoved, cluster, kubelet
<1>2. LeaveStage \/ ReturnStage
  BY <1>1, AtStage DEF IdInv
<1>3. /\ view.snap \in Snaps \cup {NoSnap} /\ view.ver \in Versions \cup {NoVersion}
      /\ BlueVersion(view) \in Versions \cup {NoVersion} /\ step \in RollbackSteps
  BY <1>1, <1>2, ViewTyped, KeepTyped DEF LeaveStage, ReturnStage, BackPass
<1>4. /\ RollbackCommand = "ScaleGreenToZero" <=> step = "StopGreen"
  BY <1>3 DEF RollbackCommand, PlanRollbackAdvance
<1>5. CASE ScaleGreenToZero
  <2> DEFINE w1 == [op |-> "cm", mode |-> "standby"]
             w2 == [op |-> "sts", color |-> "green",
                    sts |-> [ver |-> view.ver, tok |-> NoToken, role |-> "standby", replicas |-> 0]]
             ws == Progress("RollingBack", "green", view.snap, [rb |-> "ScaleBlueUp"])
  <2>1. step' = "ScaleBlueUp" /\ pc' = "rollback" /\ todo' = <<w1>> \o <<w2>> \o ws
    BY <1>5 DEF ScaleGreenToZero, Goto, ApplyCm, ApplySts
  <2>2. Stands(w1) /\ Strips(w2)
    BY DEF Stands, Strips
  <2>3. ws \in Seq(ReturnWrites)
    BY <1>3, BackProgress DEF RollbackSteps
  <2> HIDE DEF w1, w2, ws
  <2>4. /\ Len(todo') >= 2 /\ todo'[1] = w1 /\ todo'[2] = w2
        /\ \A i \in 3..Len(todo') : todo'[i] \in ReturnWrites
    BY <2>1, <2>3
  <2>5. LeaveStage /\ todo = <<>>
    BY <1>1, <1>2, <1>4, <1>5 DEF ScaleGreenToZero, ReturnStage, At
  <2>6. ReadPhase(node') = "RollingBack" /\ BackPass'
    BY <1>1, <2>1, <2>5 DEF LeaveStage, EndsInStatus, BackPass, RollbackSteps
  <2>7. StopStage'
    BY <2>1, <2>2, <2>4, <2>6 DEF StopStage, From
  <2> QED
    BY <2>7 DEF Stage
<1>6. CASE ScaleBlueToOne \/ SwitchServiceToBlue \/ RollbackWait
  <2>1. step # "StopGreen"
    BY <1>4, <1>6 DEF ScaleBlueToOne, SwitchServiceToBlue, RollbackWait
  <2>2. ReturnStage
    BY <1>2, <2>1 DEF LeaveStage
  <2>3. step' \in RollbackSteps \ {"StopGreen"} /\ pc' \in {"rollback", "end"}
    BY <1>3, <1>6, <2>1 DEF ScaleBlueToOne, SwitchServiceToBlue, RollbackWait, Finish, Goto, locals,
                            RollbackSteps
  <2>4. todo' \in Seq(ReturnWrites)
    <3>1. /\ ApplySts("blue", "active", 1, BlueVersion(view), NoToken) \in Seq(ReturnWrites)
          /\ ApplySvc("blue") \in Seq(ReturnWrites)
      BY <1>3, Applied
    <3>2. /\ Progress("RollingBack", "green", view.snap, [rb |-> "WaitBlueHealthy"]) \in Seq(ReturnWrites)
          /\ Progress("BlueActive", "blue", view.snap, [rb |-> "Complete"]) \in Seq(ReturnWrites)
          /\ Progress("RollingBack", "green", view.snap, [rb |-> step]) \in Seq(ReturnWrites)
      BY <1>3, BackProgress DEF RollbackSteps
    <3> QED
      BY <1>6, <3>1, <3>2, Concat DEF ScaleBlueToOne, SwitchServiceToBlue, RollbackWait, Finish, Goto
  <2>5. Safe' /\ ReadPhase(node') \in {"RollingBack", "BlueActive"} /\ BackPass'
    BY <1>1, <2>2, <2>3, Still DEF ReturnStage, BackPass
  <2>6. ReturnStage'
    BY <2>3, <2>4, <2>5 DEF ReturnStage
  <2> QED
    BY <2>6 DEF Stage
<1> QED
  BY <1>5, <1>6

-----------------------------------------------------------------------------
(* The writes.                                                             *)

\* The pass is over.
LEMMA EndStage ==
    ASSUME IdInv, End \/ SnapshotRefused \/ RefuseSts \/ Abort
    PROVE  NodeInv' /\ Stage'
<1>1. pc' = "idle" /\ step' = "none" /\ todo' = <<>> /\ UNCHANGED <<node, sts, cm, pod>>
  BY DEF End, SnapshotRefused, RefuseSts, Abort, Reset, At, unmoved, cluster, kubelet
<1>2. NodeInv'
  BY <1>1, Still DEF IdInv
<1> QED
  BY <1>1, <1>2 DEF Stage, IdleStage

\* The next write is w, and is made.
Does(w) ==
    /\ todo # <<>> /\ w = todo[1] /\ w \in Writes /\ todo' = Tail(todo)
    /\ UNCHANGED <<cache, pod, pc, view, ph, step, token, read>>
    /\ cm' = IF w.op = "cm" THEN w.mode ELSE IF w.op = "cleanCm?" THEN "none" ELSE cm
    /\ sts'["blue"] = IF w.op = "sts" /\ w.color = "blue" THEN w.sts ELSE sts["blue"]
    /\ sts'["green"] = IF w.op = "sts" /\ w.color = "green" THEN w.sts
                       ELSE IF w.op = "cleanup?" THEN NoSts ELSE sts["green"]
    /\ IF IsPatch(w) THEN w.patch \in Patches /\ node' = Merge(node, w.patch) ELSE node' = node

\* Each of the write actions does this.
LEMMA WriteDoes ==
    ASSUME Inv, WriteSts \/ WriteCm \/ WriteSvc \/ WritePvc \/ WriteNode \/ WriteCleanup
    PROVE  \E w : Does(w)
<1> DEFINE w == Head(todo)
<1>1. todo # <<>> /\ w = todo[1] /\ w \in Writes
  BY NextTyped DEF WriteSts, WriteCm, WriteSvc, WritePvc, WriteNode, WriteCleanup, NextWrite,
                   SeedingWrites
<1>2. /\ todo' = Tail(todo) /\ UNCHANGED <<cache, pod, pc, view, ph, step, token, read>>
  BY DEF WriteSts, WriteCm, WriteSvc, WritePvc, WriteNode, WriteCleanup, Written, kubelet, locals
<1>3. sts \in [Colors -> TemplateType] /\ "blue" \in Colors /\ "green" \in Colors
  BY DEF Inv, TypeInv, ClusterTyped, Colors
<1> HIDE DEF w
<1>4. CASE WriteSts
  <2>1. /\ w.op = "sts" /\ sts' = [sts EXCEPT ![w.color] = w.sts] /\ UNCHANGED <<node, cm>>
        /\ w.color \in Colors
    BY <1>1, <1>4, WriteFields DEF WriteSts, NextWrite, w
  <2>2. /\ sts'["blue"] = IF w.color = "blue" THEN w.sts ELSE sts["blue"]
        /\ sts'["green"] = IF w.color = "green" THEN w.sts ELSE sts["green"]
    BY <1>3, <2>1
  <2>3. Does(w)
    BY <1>1, <1>2, <2>1, <2>2 DEF Does, IsPatch
  <2> QED
    BY <2>3
<1>5. CASE WriteCm \/ WriteSvc \/ WritePvc
  <2>1. /\ w.op \in {"cm", "svc", "pvc"} /\ UNCHANGED <<node, sts>>
        /\ cm' = IF w.op = "cm" THEN w.mode ELSE cm
    BY <1>5 DEF WriteCm, WriteSvc, WritePvc, NextWrite, w
  <2>2. Does(w)
    BY <1>1, <1>2, <2>1 DEF Does, IsPatch
  <2> QED
    BY <2>2
<1>6. CASE WriteNode
  <2>1. /\ w.op \in {"node", "node?"} /\ UNCHANGED <<sts, cm>> /\ node' = Merge(node, w.patch)
        /\ w.patch \in Patches
    BY <1>1, <1>6, WriteFields DEF WriteNode, NextWrite, cluster, w
  <2>2. Does(w)
    BY <1>1, <1>2, <2>1 DEF Does, IsPatch
  <2> QED
    BY <2>2
<1>7. CASE WriteCleanup /\ NextWrite("cleanup?")
  <2>1. /\ w.op = "cleanup?" /\ sts' = [sts EXCEPT !["green"] = NoSts] /\ cm' = cm /\ node' = node
    BY <1>7 DEF WriteCleanup, NextWrite, w
  <2>2. sts'["blue"] = sts["blue"] /\ sts'["green"] = NoSts
    BY <1>3, <2>1
  <2>3. Does(w)
    BY <1>1, <1>2, <2>1, <2>2 DEF Does, IsPatch
  <2> QED
    BY <2>3
<1>8. CASE WriteCleanup /\ NextWrite("cleanCm?")
  <2>1. w.op = "cleanCm?" /\ sts' = sts /\ cm' = "none" /\ node' = node
    BY <1>8 DEF WriteCleanup, NextWrite, w
  <2>2. Does(w)
    BY <1>1, <1>2, <2>1 DEF Does, IsPatch
  <2> QED
    BY <2>2
<1> QED
  BY <1>4, <1>5, <1>6, <1>7, <1>8 DEF WriteCleanup

\* What is left to write after the next.
LEMMA TailIn ==
    ASSUME NEW S, NEW t \in Seq(S), t # <<>>
    PROVE  t[1] \in S /\ Tail(t) \in Seq(S)
OBVIOUS

\* It moves up by one.
LEMMA TailAt ==
    ASSUME NEW T, NEW t \in Seq(T), t # <<>>
    PROVE  /\ Len(t) \in Nat /\ Len(t) >= 1 /\ Len(Tail(t)) = Len(t) - 1
           /\ \A i \in 1..(Len(t) - 1) : Tail(t)[i] = t[i + 1]
OBVIOUS

\* A sequence of members of S.
LEMMA AllIn ==
    ASSUME NEW T, NEW S, NEW t \in Seq(T), \A i \in 1..Len(t) : t[i] \in S
    PROVE  t \in Seq(S)
<1>1. t \in [1..Len(t) -> S] /\ Len(t) \in Nat
  OBVIOUS
<1> QED
  BY <1>1

\* What is left is in S if all but the next is.
LEMMA TailFrom ==
    ASSUME NEW T, NEW S, NEW t \in Seq(T), t # <<>>, \A i \in 2..Len(t) : t[i] \in S
    PROVE  Tail(t) \in Seq(S)
<1>1. /\ Len(t) \in Nat /\ Len(t) >= 1 /\ Len(Tail(t)) = Len(t) - 1
      /\ \A i \in 1..(Len(t) - 1) : Tail(t)[i] = t[i + 1]
  BY TailAt
<1>2. \A i \in 1..Len(Tail(t)) : Tail(t)[i] \in S
  BY <1>1
<1>3. Tail(t) \in Seq(T)
  BY TailIn
<1> QED
  BY <1>2, <1>3, AllIn

\* A step moves the node as the patch, if it is one, says.
LEMMA StepMoves ==
    ASSUME Inv, NodeInv, NEW w, Does(w), NEW P \in SUBSET Phases, NEW c \in Colors,
           IsPatch(w) => Moves(w.patch, P, c),
           c = "green" => P \subseteq GreenSided,
           c = "blue" => P \cap GreenSided = {}
    PROVE  /\ Consistent(node') /\ node'.token = node.token
           /\ ReadPhase(node') \in P \cup {ReadPhase(node)}
           /\ IsPatch(w) /\ "sPhase" \in DOMAIN w.patch => ReadPhase(node') \in P
           /\ node'.cut = IF IsPatch(w) /\ "cut" \in DOMAIN w.patch THEN w.patch.cut ELSE node.cut
           /\ node'.rb = IF IsPatch(w) /\ "rb" \in DOMAIN w.patch THEN w.patch.rb ELSE node.rb
<1>1. Consistent(node) /\ node \in NodeType
  BY DEF NodeInv, Inv, TypeInv
<1>2. CASE IsPatch(w)
  <2>1. w.patch \in Patches /\ node' = Merge(node, w.patch) /\ Moves(w.patch, P, c)
    BY <1>2 DEF Does
  <2> QED
    BY <1>1, <1>2, <2>1, Moved
<1>3. CASE ~IsPatch(w)
  BY <1>1, <1>3 DEF Does
<1> QED
  BY <1>2, <1>3

\* A step leaves the pods alone, and changes the situation as it changes the templates.
LEMMA StepSituation ==
    ASSUME NEW w, Does(w)
    PROVE  /\ (Tokened' <=> Tokened) /\ (Quiet' <=> Quiet)
           /\ Safe' <=> (cm' # "publishing" /\ sts'["green"].tok = NoToken /\ Quiet)
           /\ BlueDown /\ sts'["blue"].replicas = 0 => BlueDown'
           /\ Handed' <=> (BlueDown' /\ sts'["green"].tok # NoToken /\ Tokened)
           /\ Restarted' <=> (BlueDown' /\ node'.token # NoToken /\ sts'["green"].tok = node'.token)
           /\ Retreat' <=> (Quiet /\ (cm' = "publishing" => sts'["green"].tok # NoToken /\ Tokened))
           /\ BlueDown => sts["blue"].replicas = 0
BY DEF Does, Tokened, Quiet, Safe, BlueDown, StsFullyDown, Handed, Restarted, Retreat, Publishing

\* A write while blue is kept.
LEMMA BlueWrite == ASSUME Inv, NodeInv, BlueStage, NEW w, Does(w) PROVE NodeInv' /\ Stage'
<1>1. /\ todo # <<>> /\ w = todo[1] /\ todo' = Tail(todo) /\ todo \in Seq(SeedingWrites)
      /\ UNCHANGED <<pc, view, ph, step>> /\ ph \in BluePhases /\ Safe
      /\ ReadPhase(node) \in BluePhases /\ ReadActiveColor(view) # "green"
  BY DEF Does, Inv, TypeInv, BlueStage
<1>2. BlueTargets' = BlueTargets /\ BlueTargets \in SUBSET BluePhases
  BY <1>1 DEF BlueTargets, BluePhases, Preparation
<1>3. CASE todo \in Seq(BlueWrites(BlueTargets)) /\ (ph \in Preparation => Unbegun(node))
  <2>1. w \in BlueWrites(BlueTargets) /\ todo' \in Seq(BlueWrites(BlueTargets))
    BY <1>1, <1>3, TailIn
  <2>2. /\ w.op = "cm" => w.mode = "standby"
        /\ w.op = "sts" /\ w.color = "green" => w.sts.tok = NoToken
        /\ IsPatch(w) => Moves(w.patch, BlueTargets, "blue")
        /\ IsPatch(w) => "cut" \notin DOMAIN w.patch /\ "rb" \notin DOMAIN w.patch
    BY <2>1 DEF BlueWrites
  <2>3. /\ BlueTargets \in SUBSET Phases /\ BlueTargets \cap GreenSided = {} /\ "blue" \in Colors
    BY <1>2 DEF BluePhases, Phases, GreenSided, GreenPhases, Colors
  <2>4. /\ Consistent(node') /\ ReadPhase(node') \in BlueTargets \cup {ReadPhase(node)}
        /\ node'.cut = node.cut /\ node'.rb = node.rb
    BY <2>2, <2>3, StepMoves
  <2>5. Safe'
    BY <1>1, <2>2, StepSituation DEF Does, Safe, NoSts
  <2>6. ReadPhase(node') \in BluePhases
    BY <1>1, <1>2, <2>4
  <2>7. (Unbegun(node) => Unbegun(node')) /\ (ReadPhase(node') \in Preparation => Unbegun(node'))
    BY <1>3, <2>4 DEF Unbegun, Fresh, NodeInv, BlueTargets, Preparation
  <2>8. NodeInv'
    BY <2>4, <2>5, <2>6, <2>7 DEF NodeInv, BluePhases, GreenPhases
  <2>9. BlueStage'
    BY <1>1, <1>2, <1>3, <2>1, <2>5, <2>6, <2>7 DEF BlueStage
  <2> QED
    BY <2>8, <2>9 DEF Stage
<1>4. CASE /\ ph = "PreparingGreen" /\ todo[1] \in StartWrites /\ From(2, BlueWrites(BluePhases))
  <2>1. /\ IsPatch(w) /\ w.patch \in Patches /\ node' = Merge(node, w.patch)
        /\ {"sPhase", "sColor", "color", "token"} \cap DOMAIN w.patch = {}
        /\ {"phase", "cut", "rb"} \subseteq DOMAIN w.patch
        /\ w.patch.phase = "PreparingGreen" /\ w.patch.cut = "none" /\ w.patch.rb = "none"
    BY <1>1, <1>4 DEF StartWrites, Does
  <2>2. /\ node'.sPhase = node.sPhase /\ node'.sColor = node.sColor /\ node'.color = node.color
        /\ node'.phase = "PreparingGreen" /\ node'.cut = "none" /\ node'.rb = "none"
    BY <2>1, MergeFields DEF Inv, TypeInv
  <2>3. ReadPhase(node') \in BluePhases
    BY <1>1, <2>2 DEF ReadPhase, BluePhases
  <2>4. Consistent(node')
    BY <1>1, <2>2 DEF NodeInv, Consistent, ReadPhase, BluePhases, GreenSided, GreenPhases
  <2>5. Safe' /\ Unbegun(node')
    BY <1>1, <2>1, <2>2, StepSituation DEF Does, Safe, Unbegun, Fresh, IsPatch
  <2>6. NodeInv'
    BY <2>3, <2>4, <2>5 DEF NodeInv, BluePhases, GreenPhases
  <2>7. todo' \in Seq(BlueWrites(BluePhases))
    BY <1>1, <1>4, TailFrom DEF From
  <2>8. BlueTargets = BluePhases
    BY <1>4 DEF BlueTargets, Preparation
  <2>9. BlueStage'
    BY <1>1, <1>2, <1>4, <2>3, <2>5, <2>7, <2>8 DEF BlueStage
  <2> QED
    BY <2>6, <2>9 DEF Stage
<1> QED
  BY <1>3, <1>4 DEF BlueStage


\* One of at most two writes is made, the last of which is that of the status.
LEMMA StatusLast ==
    ASSUME Inv, NEW w, Does(w), NEW S, NEW P, EndsInStatus(S, P)
    PROVE  /\ w \in S
           /\ \/ Len(todo') = 1 /\ todo'[1] \in S \cap StatusWrites(P)
              \/ todo' = <<>> /\ IsPatch(w) /\ "sPhase" \in DOMAIN w.patch
<1>1. /\ todo # <<>> /\ w = todo[1] /\ todo' = Tail(todo) /\ todo \in Seq(SeedingWrites)
  BY DEF Does, Inv, TypeInv
<1>2. /\ Len(Tail(todo)) = Len(todo) - 1
      /\ \A i \in 1..(Len(todo) - 1) : Tail(todo)[i] = todo[i + 1]
      /\ Tail(todo) \in Seq(SeedingWrites)
  BY <1>1, TailAt, TailIn
<1>3. CASE Len(todo) = 2 /\ todo[1] \in S /\ todo[2] \in S \cap StatusWrites(P)
  BY <1>1, <1>2, <1>3
<1>4. CASE Len(todo) = 1 /\ todo[1] \in S \cap StatusWrites(P)
  <2>1. todo' = <<>>
    BY <1>1, <1>2, <1>4
  <2> QED
    BY <1>1, <1>4, <2>1 DEF StatusWrites
<1> QED
  BY <1>3, <1>4 DEF EndsInStatus

\* A write that takes the node into the cutover.
LEMMA EnterWrite == ASSUME Inv, NodeInv, EnterStage, NEW w, Does(w) PROVE NodeInv' /\ Stage'
<1>1. /\ CutPass /\ step = "ScaleBlueDown" /\ pc = "cutover" /\ Unbegun(node) /\ Safe
      /\ ReadPhase(node) \in BluePhases \cup {"CuttingOver"}
      /\ UNCHANGED <<pc, ph, step, view, token, read>>
  BY DEF EnterStage, Does
<1>2. /\ w \in EnterWrites
      /\ \/ Len(todo') = 1 /\ todo'[1] \in EnterWrites \cap StatusWrites({"CuttingOver"})
         \/ todo' = <<>> /\ IsPatch(w) /\ "sPhase" \in DOMAIN w.patch
  BY StatusLast DEF EnterStage
<1>3. /\ IsPatch(w) /\ Moves(w.patch, {"CuttingOver"}, "blue") /\ "rb" \notin DOMAIN w.patch
      /\ "cut" \in DOMAIN w.patch => w.patch.cut = "ScaleBlueDown"
  BY <1>2 DEF EnterWrites
<1>4. /\ Consistent(node') /\ ReadPhase(node') \in {"CuttingOver"} \cup {ReadPhase(node)}
      /\ "sPhase" \in DOMAIN w.patch => ReadPhase(node') \in {"CuttingOver"}
      /\ node'.cut \in {node.cut, "ScaleBlueDown"} /\ node'.rb = node.rb
  <2>1. {"CuttingOver"} \in SUBSET Phases /\ {"CuttingOver"} \cap GreenSided = {} /\ "blue" \in Colors
    BY DEF Phases, GreenSided, GreenPhases, Colors
  <2> QED
    BY <1>3, <2>1, StepMoves
<1>5. Unbegun(node') /\ Fresh(node') /\ node'.cut # "WaitGreenHealthy"
  BY <1>1, <1>4 DEF Unbegun, Fresh
<1>6. Safe'
  BY <1>1, <1>3, StepSituation DEF Does, Safe, IsPatch
<1>7. NodeInv'
  BY <1>1, <1>4, <1>5, <1>6 DEF NodeInv, BluePhases, GreenPhases
<1>8. CutPass'
  BY <1>1, <1>5 DEF CutPass
<1>9. CASE Len(todo') = 1 /\ todo'[1] \in EnterWrites \cap StatusWrites({"CuttingOver"})
  <2>1. EnterStage'
    BY <1>1, <1>4, <1>5, <1>6, <1>8, <1>9 DEF EnterStage, EndsInStatus
  <2> QED
    BY <1>7, <2>1 DEF Stage
<1>10. CASE todo' = <<>> /\ IsPatch(w) /\ "sPhase" \in DOMAIN w.patch
  <2>1. DownStage'
    BY <1>1, <1>4, <1>5, <1>8, <1>10 DEF DownStage
  <2> QED
    BY <1>7, <2>1 DEF Stage
<1> QED
  BY <1>2, <1>9, <1>10

\* A write of the cutover before green is told to publish.
LEMMA DownWrite == ASSUME Inv, NodeInv, DownStage, NEW w, Does(w) PROVE NodeInv' /\ Stage'
<1>1. /\ CutPass /\ step # "WaitGreenHealthy" /\ pc \in {"cutover", "cutoverHealth", "cutoverStep", "end"}
      /\ ReadPhase(node) = "CuttingOver" /\ node.cut # "WaitGreenHealthy"
      /\ UNCHANGED <<pc, ph, step, view, token, read>>
      /\ todo # <<>> /\ w = todo[1] /\ todo' = Tail(todo) /\ todo \in Seq(DownWrites)
  BY DEF DownStage, Does
<1>2. w \in DownWrites /\ todo' \in Seq(DownWrites)
  BY <1>1, TailIn
<1>3. /\ w.op \notin {"cleanup?", "cleanCm?"}
      /\ w.op = "cm" => w.mode = "standby"
      /\ w.op = "sts" => w.color = "blue" /\ w.sts.replicas = 0
      /\ IsPatch(w) => Moves(w.patch, {"CuttingOver"}, "blue")
      /\ IsPatch(w) => "rb" \notin DOMAIN w.patch
      /\ IsPatch(w) /\ "cut" \in DOMAIN w.patch => w.patch.cut # "WaitGreenHealthy"
  BY <1>2 DEF DownWrites
<1>4. /\ Consistent(node') /\ ReadPhase(node') \in {"CuttingOver"} \cup {ReadPhase(node)}
      /\ node'.cut # "WaitGreenHealthy" /\ node'.rb = node.rb
  <2>1. {"CuttingOver"} \in SUBSET Phases /\ {"CuttingOver"} \cap GreenSided = {} /\ "blue" \in Colors
    BY DEF Phases, GreenSided, GreenPhases, Colors
  <2>2. /\ Consistent(node') /\ ReadPhase(node') \in {"CuttingOver"} \cup {ReadPhase(node)}
        /\ node'.cut = IF IsPatch(w) /\ "cut" \in DOMAIN w.patch THEN w.patch.cut ELSE node.cut
        /\ node'.rb = IF IsPatch(w) /\ "rb" \in DOMAIN w.patch THEN w.patch.rb ELSE node.rb
    BY <1>3, <2>1, StepMoves
  <2> QED
    BY <1>1, <1>3, <2>2
<1>5. ReadPhase(node') = "CuttingOver" /\ Fresh(node')
  BY <1>1, <1>4 DEF CutPass, Fresh
<1>6. (Safe => Safe') /\ (BlueDown => BlueDown')
  BY <1>3, StepSituation DEF Does, Safe
<1>7. NodeInv'
  BY <1>4, <1>5, <1>6 DEF NodeInv, BluePhases, GreenPhases, Preparation
<1>8. CutPass'
  BY <1>1, <1>5 DEF CutPass
<1>9. pc \notin {"cutoverHealth", "cutoverStep"}
  BY <1>1 DEF DownStage
<1>10. DownStage'
  BY <1>1, <1>2, <1>4, <1>5, <1>8, <1>9 DEF DownStage
<1> QED
  BY <1>7, <1>10 DEF Stage

\* Green is told to publish, restarted, and the token of the restart recorded.
LEMMA EnableWrite == ASSUME Inv, NodeInv, EnableStage, NEW w, Does(w) PROVE NodeInv' /\ Stage'
<1>1. /\ CutPass /\ step = "WaitGreenHealthy" /\ pc = "cutover" /\ token # NoToken
      /\ BlueDown /\ ReadPhase(node) = "CuttingOver" /\ node.cut # "WaitGreenHealthy"
      /\ UNCHANGED <<pc, ph, step, view, token, read>>
      /\ todo # <<>> /\ w = todo[1] /\ todo' = Tail(todo) /\ todo \in Seq(SeedingWrites)
  BY DEF EnableStage, Does, Inv, TypeInv
<1>2. /\ Len(todo) \in Nat /\ Len(todo) >= 1 /\ Len(Tail(todo)) = Len(todo) - 1
      /\ \A i \in 1..(Len(todo) - 1) : Tail(todo)[i] = todo[i + 1]
  BY <1>1, TailAt
<1>3. Consistent(node) /\ Fresh(node) /\ node \in NodeType
  BY <1>1 DEF NodeInv, CutPass, Inv, TypeInv
<1>4. CASE Publishes1(w) \/ Restarts(w)
  <2>1. node' = node /\ BlueDown'
    BY <1>1, <1>4, StepSituation DEF Does, Publishes1, Restarts, IsPatch
  <2>2. Restarts(w) => sts'["green"].tok = token'
    BY <1>1 DEF Does, Restarts
  <2>3. NodeInv'
    BY <1>1, <1>3, <2>1 DEF NodeInv, BluePhases, GreenPhases, Preparation
  <2>4. CutPass'
    BY <1>1, <2>1 DEF CutPass
  <2>5. CASE /\ Len(todo) >= 3 /\ Restarts(todo[2]) /\ Records(todo[3]) /\ From(4, HoldWrites)
    <3>1. /\ Len(todo') >= 2 /\ todo'[1] = todo[2] /\ todo'[2] = todo[3]
          /\ \A i \in 3..Len(todo') : todo'[i] \in HoldWrites
      BY <1>1, <1>2, <2>5 DEF From
    <3>2. EnableStage'
      BY <1>1, <2>1, <2>4, <2>5, <3>1 DEF EnableStage, Restarts, Records, From
    <3> QED
      BY <2>3, <3>2 DEF Stage
  <2>6. CASE Len(todo) >= 2 /\ Restarts(w) /\ Records(todo[2]) /\ From(3, HoldWrites)
    <3>1. /\ Len(todo') >= 1 /\ todo'[1] = todo[2]
          /\ \A i \in 2..Len(todo') : todo'[i] \in HoldWrites
      BY <1>1, <1>2, <2>6 DEF From
    <3>2. EnableStage'
      BY <1>1, <2>1, <2>2, <2>4, <2>6, <3>1 DEF EnableStage, Records, From
    <3> QED
      BY <2>3, <3>2 DEF Stage
  <2> QED
    BY <1>1, <1>4, <2>5, <2>6 DEF EnableStage, Publishes1, Restarts, Records, IsPatch
<1>5. CASE Records(w)
  <2>1. /\ IsPatch(w) /\ w.patch \in Patches /\ node' = Merge(node, w.patch)
        /\ DOMAIN w.patch = {"token"} /\ w.patch.token = token
    BY <1>5 DEF Does, Records
  <2>2. /\ node'.sPhase = node.sPhase /\ node'.sColor = node.sColor /\ node'.phase = node.phase
        /\ node'.color = node.color /\ node'.cut = node.cut /\ node'.rb = node.rb
        /\ node'.token = token
    BY <1>3, <2>1, MergeFields
  <2>3. /\ ReadPhase(node') = "CuttingOver" /\ Consistent(node') /\ Fresh(node')
    BY <1>1, <1>3, <2>2 DEF ReadPhase, Consistent, Fresh
  <2>4. sts["green"].tok = token /\ From(2, HoldWrites)
    BY <1>1, <1>5 DEF EnableStage, Records, Publishes1, Restarts, IsPatch
  <2>5. Restarted' /\ BlueDown'
    BY <1>1, <2>1, <2>2, <2>4, StepSituation DEF Does, IsPatch
  <2>6. NodeInv'
    BY <1>1, <2>2, <2>3, <2>5 DEF NodeInv, BluePhases, GreenPhases, Preparation
  <2>7. todo' \in Seq(HoldWrites)
    BY <1>1, <2>4, TailFrom DEF From
  <2>8. Rolled'
    BY <1>1, <2>2, <2>3, <2>5 DEF Rolled, CutPass
  <2>9. HoldStage'
    BY <1>1, <2>3, <2>7, <2>8 DEF HoldStage
  <2> QED
    BY <2>6, <2>9 DEF Stage
<1> QED
  BY <1>1, <1>4, <1>5 DEF EnableStage

\* A write while green is awaited.
LEMMA HoldWrite == ASSUME Inv, NodeInv, HoldStage, NEW w, Does(w) PROVE NodeInv' /\ Stage'
<1>1. /\ CutPass /\ step = "WaitGreenHealthy" /\ token # NoToken /\ Restarted /\ node.token = token
      /\ ReadPhase(node) = "CuttingOver" /\ pc \in {"cutover", "cutoverHealth", "cutoverStep", "end"}
      /\ UNCHANGED <<pc, ph, step, view, token, read>>
      /\ todo # <<>> /\ w = todo[1] /\ todo' = Tail(todo) /\ todo \in Seq(HoldWrites)
  BY DEF HoldStage, Rolled, Does
<1>2. w \in HoldWrites /\ todo' \in Seq(HoldWrites)
  BY <1>1, TailIn
<1>3. IsPatch(w) /\ Moves(w.patch, {"CuttingOver"}, "blue") /\ "rb" \notin DOMAIN w.patch
  BY <1>2 DEF HoldWrites
<1>4. /\ Consistent(node') /\ ReadPhase(node') \in {"CuttingOver"} \cup {ReadPhase(node)}
      /\ node'.token = node.token /\ node'.rb = node.rb
  <2>1. {"CuttingOver"} \in SUBSET Phases /\ {"CuttingOver"} \cap GreenSided = {} /\ "blue" \in Colors
    BY DEF Phases, GreenSided, GreenPhases, Colors
  <2> QED
    BY <1>3, <2>1, StepMoves
<1>5. ReadPhase(node') = "CuttingOver" /\ Fresh(node')
  BY <1>1, <1>4 DEF CutPass, Fresh
<1>6. Restarted' /\ BlueDown'
  BY <1>1, <1>3, <1>4, StepSituation DEF Does, Restarted, IsPatch
<1>7. NodeInv'
  BY <1>4, <1>5, <1>6 DEF NodeInv, BluePhases, GreenPhases, Preparation
<1>8. Rolled'
  BY <1>1, <1>4, <1>5, <1>6 DEF Rolled, CutPass
<1>9. pc \notin {"cutoverHealth", "cutoverStep"}
  BY <1>1 DEF HoldStage
<1>10. HoldStage'
  BY <1>1, <1>2, <1>5, <1>8, <1>9 DEF HoldStage
<1> QED
  BY <1>7, <1>10 DEF Stage

\* A write that ends the cutover.
LEMMA SwitchWrite == ASSUME Inv, NodeInv, SwitchStage, NEW w, Does(w) PROVE NodeInv' /\ Stage'
<1>1. /\ CutPass /\ step = "WaitGreenHealthy" /\ token # NoToken /\ Restarted /\ node.token = token
      /\ ReadPhase(node) \in {"CuttingOver", "GreenActive"} /\ pc = "end" /\ Handed
      /\ UNCHANGED <<pc, ph, step, view, token, read>>
      /\ todo # <<>> /\ w = todo[1] /\ todo' = Tail(todo) /\ todo \in Seq(SwitchWrites)
  BY DEF SwitchStage, Rolled, Does
<1>2. w \in SwitchWrites /\ todo' \in Seq(SwitchWrites)
  BY <1>1, TailIn
<1>3. /\ w.op = "svc" \/ IsPatch(w)
      /\ IsPatch(w) => Moves(w.patch, {"GreenActive"}, "green")
      /\ IsPatch(w) => "rb" \notin DOMAIN w.patch
  BY <1>2 DEF SwitchWrites
<1>4. /\ Consistent(node') /\ ReadPhase(node') \in {"GreenActive"} \cup {ReadPhase(node)}
      /\ node'.token = node.token /\ node'.rb = node.rb
  <2>1. {"GreenActive"} \in SUBSET Phases /\ {"GreenActive"} \subseteq GreenSided /\ "green" \in Colors
    BY DEF Phases, GreenSided, GreenPhases, Colors
  <2> QED
    BY <1>3, <2>1, StepMoves
<1>5. ReadPhase(node') \in {"CuttingOver", "GreenActive"} /\ Fresh(node')
  BY <1>1, <1>4 DEF CutPass, Fresh
<1>6. sts'["green"] = sts["green"] /\ sts'["blue"] = sts["blue"]
  BY <1>3 DEF Does, IsPatch
<1>7. Restarted' /\ BlueDown' /\ Handed'
  BY <1>1, <1>4, <1>6, StepSituation DEF Restarted, Handed
<1>8. NodeInv'
  BY <1>1, <1>4, <1>5, <1>7 DEF NodeInv, BluePhases, GreenPhases, Preparation
<1>9. Rolled'
  BY <1>1, <1>4, <1>5, <1>7 DEF Rolled, CutPass
<1>10. SwitchStage'
  BY <1>1, <1>2, <1>5, <1>7, <1>9 DEF SwitchStage
<1> QED
  BY <1>8, <1>10 DEF Stage

\* A write while green is kept.
LEMMA GreenWrite == ASSUME Inv, NodeInv, GreenStage, NEW w, Does(w) PROVE NodeInv' /\ Stage'
<1>1. /\ ph \in GreenPhases /\ step = "none" /\ pc \in {"decide", "health", "end"}
      /\ ReadPhase(node) \in GreenPhases /\ view.token # NoToken /\ Fresh(view)
      /\ UNCHANGED <<pc, ph, step, view, token, read>>
      /\ todo # <<>> /\ w = todo[1] /\ todo' = Tail(todo) /\ todo \in Seq(GreenWrites)
  BY DEF GreenStage, Does
<1>2. w \in GreenWrites /\ todo' \in Seq(GreenWrites)
  BY <1>1, TailIn
<1>3. /\ w.op \notin {"cleanup?", "cleanCm?"}
      /\ w.op = "sts" => IF w.color = "green" THEN w.sts.tok # NoToken ELSE w.sts.replicas = 0
      /\ IsPatch(w) => Moves(w.patch, GreenPhases, "green")
      /\ IsPatch(w) => "rb" \notin DOMAIN w.patch
  BY <1>2 DEF GreenWrites
<1>4. /\ Consistent(node') /\ ReadPhase(node') \in GreenPhases \cup {ReadPhase(node)}
      /\ node'.token = node.token /\ node'.rb = node.rb
  <2>1. GreenPhases \in SUBSET Phases /\ GreenPhases \subseteq GreenSided /\ "green" \in Colors
    BY DEF Phases, GreenSided, GreenPhases, Colors
  <2> QED
    BY <1>3, <2>1, StepMoves
<1>5. Handed /\ Fresh(node) /\ node.token # NoToken
  BY <1>1 DEF NodeInv
<1>6. ReadPhase(node') \in GreenPhases /\ Fresh(node') /\ node'.token # NoToken
  BY <1>1, <1>4, <1>5 DEF Fresh
<1>7. sts'["green"].tok # NoToken /\ sts'["blue"].replicas = 0
  BY <1>3, <1>5, StepSituation DEF Does, Handed
<1>8. Handed' /\ BlueDown'
  BY <1>5, <1>7, StepSituation DEF Handed
<1>9. NodeInv'
  BY <1>4, <1>6, <1>8 DEF NodeInv, BluePhases, GreenPhases, Preparation
<1>10. GreenStage'
  BY <1>1, <1>2, <1>6 DEF GreenStage
<1> QED
  BY <1>9, <1>10 DEF Stage

\* A write that takes the node into the rollback.
LEMMA LeaveWrite == ASSUME Inv, NodeInv, LeaveStage, NEW w, Does(w) PROVE NodeInv' /\ Stage'
<1>1. /\ BackPass /\ step = "StopGreen" /\ pc = "rollback" /\ Fresh(node)
      /\ ReadPhase(node) \in GreenSided /\ EndsInStatus(LeaveWrites, {"RollingBack"})
      /\ UNCHANGED <<pc, ph, step, view, token, read>>
  BY DEF LeaveStage, Does
<1>2. /\ w \in LeaveWrites
      /\ \/ Len(todo') = 1 /\ todo'[1] \in LeaveWrites \cap StatusWrites({"RollingBack"})
         \/ todo' = <<>> /\ IsPatch(w) /\ "sPhase" \in DOMAIN w.patch
  BY <1>1, StatusLast
<1>3. /\ IsPatch(w) /\ Moves(w.patch, {"RollingBack"}, "green")
      /\ "rb" \in DOMAIN w.patch => w.patch.rb = "StopGreen"
  BY <1>2 DEF LeaveWrites
<1>4. /\ Consistent(node') /\ ReadPhase(node') \in {"RollingBack"} \cup {ReadPhase(node)}
      /\ "sPhase" \in DOMAIN w.patch => ReadPhase(node') \in {"RollingBack"}
      /\ node'.token = node.token /\ node'.rb \in {node.rb, "StopGreen"}
  <2>1. {"RollingBack"} \in SUBSET Phases /\ {"RollingBack"} \subseteq GreenSided /\ "green" \in Colors
    BY DEF Phases, GreenSided, GreenPhases, Colors
  <2> QED
    BY <1>3, <2>1, StepMoves
<1>5. Fresh(node') /\ ReadPhase(node') \in GreenSided
  BY <1>1, <1>4 DEF Fresh, GreenSided
<1>6. cm' = cm /\ sts'["green"] = sts["green"] /\ sts'["blue"] = sts["blue"]
  BY <1>3 DEF Does, IsPatch
<1>7. (Safe => Safe') /\ (BlueDown => BlueDown') /\ (Handed => Handed') /\ (Retreat => Retreat')
  BY <1>6, StepSituation DEF Safe, Handed, Retreat
<1>8. Handed => Retreat
  BY DEF Handed, Retreat, Quiet
<1>9. NodeInv'
  BY <1>1, <1>4, <1>5, <1>7, <1>8 DEF NodeInv, BluePhases, GreenPhases, GreenSided, Preparation
<1>10. BackPass'
  BY <1>1 DEF BackPass
<1>11. LeaveStage'
  BY <1>1, <1>2, <1>4, <1>5, <1>10 DEF LeaveStage, EndsInStatus
<1> QED
  BY <1>9, <1>11 DEF Stage

\* Green is told to stand by, then its StatefulSet loses the token.
LEMMA StopWrite == ASSUME Inv, NodeInv, StopStage, NEW w, Does(w) PROVE NodeInv' /\ Stage'
<1>1. /\ BackPass /\ step = "ScaleBlueUp" /\ pc = "rollback" /\ ReadPhase(node) = "RollingBack"
      /\ UNCHANGED <<pc, ph, step, view, token, read>>
      /\ todo # <<>> /\ w = todo[1] /\ todo' = Tail(todo) /\ todo \in Seq(SeedingWrites)
  BY DEF StopStage, Does, Inv, TypeInv
<1>2. /\ Len(todo) \in Nat /\ Len(todo) >= 1 /\ Len(Tail(todo)) = Len(todo) - 1
      /\ \A i \in 1..(Len(todo) - 1) : Tail(todo)[i] = todo[i + 1]
  BY <1>1, TailAt
<1>3. Consistent(node) /\ Retreat /\ (~Fresh(node) => Safe) /\ (Safe \/ BlueDown)
  BY <1>1 DEF NodeInv
<1>4. BackPass'
  BY <1>1 DEF BackPass
<1>5. CASE Stands(w)
  <2>1. node' = node /\ cm' = "standby" /\ sts'["green"] = sts["green"] /\ sts'["blue"] = sts["blue"]
    BY <1>5 DEF Does, Stands, IsPatch
  <2>2. (Safe => Safe') /\ (BlueDown => BlueDown') /\ Retreat'
    BY <1>3, <2>1, StepSituation DEF Safe, Retreat
  <2>3. NodeInv'
    BY <1>1, <1>3, <2>1, <2>2 DEF NodeInv, BluePhases, GreenPhases, Preparation
  <2>4. Len(todo) >= 2 /\ Strips(todo[2]) /\ From(3, ReturnWrites)
    BY <1>1, <1>5 DEF StopStage, Stands, Strips
  <2>5. /\ Len(todo') >= 1 /\ Strips(todo'[1])
        /\ \A i \in 2..Len(todo') : todo'[i] \in ReturnWrites
    BY <1>1, <1>2, <2>4 DEF From
  <2>6. StopStage'
    BY <1>1, <1>4, <2>1, <2>5 DEF StopStage, From
  <2> QED
    BY <2>3, <2>6 DEF Stage
<1>6. CASE Strips(w)
  <2>1. cm # "publishing" /\ From(2, ReturnWrites)
    BY <1>1, <1>6 DEF StopStage, Stands, Strips
  <2>2. node' = node /\ cm' = cm /\ sts'["green"].tok = NoToken
    BY <1>6 DEF Does, Strips, IsPatch
  <2>3. Safe'
    BY <1>3, <2>1, <2>2, StepSituation DEF Retreat
  <2>4. Retreat'
    BY <1>3, <2>1, <2>2, StepSituation DEF Retreat
  <2>5. NodeInv'
    BY <1>1, <1>3, <2>2, <2>3, <2>4 DEF NodeInv, BluePhases, GreenPhases, Preparation
  <2>6. todo' \in Seq(ReturnWrites)
    BY <1>1, <2>1, TailFrom DEF From
  <2>7. ReturnStage'
    BY <1>1, <1>4, <2>2, <2>3, <2>6 DEF ReturnStage
  <2> QED
    BY <2>5, <2>7 DEF Stage
<1> QED
  BY <1>1, <1>5, <1>6 DEF StopStage

\* A write while blue is brought back.
LEMMA ReturnWrite == ASSUME Inv, NodeInv, ReturnStage, NEW w, Does(w) PROVE NodeInv' /\ Stage'
<1>1. /\ BackPass /\ step # "StopGreen" /\ pc \in {"rollback", "end"} /\ Safe
      /\ ReadPhase(node) \in {"RollingBack", "BlueActive"}
      /\ UNCHANGED <<pc, ph, step, view, token, read>>
      /\ todo # <<>> /\ w = todo[1] /\ todo' = Tail(todo) /\ todo \in Seq(ReturnWrites)
  BY DEF ReturnStage, Does
<1>2. w \in ReturnWrites /\ todo' \in Seq(ReturnWrites)
  BY <1>1, TailIn
<1>3. /\ w.op = "svc" \/ w.op = "sts" \/ IsPatch(w)
      /\ w.op = "sts" => w.color = "blue"
      /\ IsPatch(w) => Moves(w.patch, {"RollingBack"}, "green") \/ Moves(w.patch, {"BlueActive"}, "blue")
  BY <1>2 DEF ReturnWrites
<1>4. Consistent(node') /\ ReadPhase(node') \in {"RollingBack", "BlueActive"}
  <2>1. /\ {"RollingBack"} \in SUBSET Phases /\ {"RollingBack"} \subseteq GreenSided
        /\ {"BlueActive"} \in SUBSET Phases /\ {"BlueActive"} \cap GreenSided = {}
        /\ "green" \in Colors /\ "blue" \in Colors
    BY DEF Phases, GreenSided, GreenPhases, Colors
  <2>2. CASE IsPatch(w) => Moves(w.patch, {"RollingBack"}, "green")
    <3>1. Consistent(node') /\ ReadPhase(node') \in {"RollingBack"} \cup {ReadPhase(node)}
      BY <2>1, <2>2, StepMoves
    <3> QED
      BY <1>1, <3>1
  <2>3. CASE IsPatch(w) => Moves(w.patch, {"BlueActive"}, "blue")
    <3>1. Consistent(node') /\ ReadPhase(node') \in {"BlueActive"} \cup {ReadPhase(node)}
      BY <2>1, <2>3, StepMoves
    <3> QED
      BY <1>1, <3>1
  <2> QED
    BY <1>3, <2>2, <2>3
<1>5. cm' = cm /\ sts'["green"] = sts["green"]
  BY <1>3 DEF Does, IsPatch
<1>6. Safe' /\ Retreat'
  BY <1>1, <1>5, StepSituation DEF Safe
<1>7. NodeInv'
  BY <1>4, <1>6 DEF NodeInv, BluePhases, GreenPhases, Preparation
<1>8. BackPass'
  BY <1>1 DEF BackPass
<1>9. ReturnStage'
  BY <1>1, <1>2, <1>4, <1>6, <1>8 DEF ReturnStage
<1> QED
  BY <1>7, <1>9 DEF Stage

-----------------------------------------------------------------------------
(* The theorems.                                                           *)

\* Every write.
LEMMA EachWrite ==
    ASSUME IdInv, Write
    PROVE  NodeInv' /\ Stage' /\ cache' = cache
<1>1. Inv /\ NodeInv /\ Stage
  BY DEF IdInv
<1>2. CASE RefuseSts
  BY <1>2, EndStage DEF RefuseSts, unmoved
<1>3. CASE ~RefuseSts
  <2>1. PICK w : Does(w)
    BY <1>1, <1>3, WriteDoes DEF Write
  <2>2. todo # <<>> /\ cache' = cache
    BY <2>1 DEF Does
  <2>3. ~IdleStage /\ ~CutStage /\ ~BackStage
    BY <2>2 DEF IdleStage, CutStage, BackStage
  <2>4. NodeInv' /\ Stage'
    BY <1>1, <2>1, <2>3, BlueWrite, EnterWrite, DownWrite, EnableWrite, HoldWrite, SwitchWrite,
       GreenWrite, LeaveWrite, StopWrite, ReturnWrite DEF Stage
  <2> QED
    BY <2>2, <2>4
<1> QED
  BY <1>2, <1>3

\* Every decision.
LEMMA EachDecision ==
    ASSUME IdInv, Decide
    PROVE  NodeInv' /\ Stage' /\ cache' = Idle
<1>1. NodeInv /\ cache = Idle
  BY DEF IdInv
<1>2. UNCHANGED <<node, sts, cm, pod>> /\ cache' = Idle
  BY <1>1 DEF Decide, Begin, End, DeferUpgrade, StayDeferred, MaintainGreen, KeepFailed, MaintainBlue,
     StartRollout, Resume, CreateSnapshot, SnapshotRefused, AwaitSnapshot, CreateGreen, SeedGreen,
     TimeOut, AwaitGreen, EnterCutover, ReadBlueDown, ReadGreenHealth, ScaleBlueToZero, EnableGreenPublishingAndRestart,
     SwitchServiceToGreen, CutoverWait, GreenHealthy, StartRollback, ScaleGreenToZero, ScaleBlueToOne,
     SwitchServiceToBlue, RollbackWait, unmoved, cluster, kubelet
<1>3. NodeInv'
  BY <1>1, <1>2, Still
<1>4. Stage'
  BY BeginStage, EndStage, GreenStageOn, BlueStageOn, ResumeStage, PrepareStageOn, WaitStageOn,
     ReadStage, CutoverStageOn, RollbackStageOn DEF Decide
<1> QED
  BY <1>2, <1>3, <1>4

\* The initial state.
LEMMA InitIdInv == Init => IdInv
<1> SUFFICES ASSUME Init PROVE IdInv
  OBVIOUS
<1>1. PICK v \in Versions : node = NewNode(v)
  BY DEF Init
<1>2. /\ node.sPhase = "none" /\ node.sColor = "none" /\ node.phase = "none" /\ node.color = "none"
      /\ ReadPhase(node) = "BlueActive"
  BY <1>1 DEF NewNode, ReadPhase
<1>3. Safe
  BY DEF Init, Safe, Quiet, Publishing, NoSts, NoPod, Colors
<1>4. Consistent(node)
  BY <1>2 DEF Consistent, GreenSided, GreenPhases
<1>5. NodeInv
  BY <1>2, <1>3, <1>4 DEF NodeInv, GreenPhases, Preparation
<1>6. Stage /\ cache = Idle
  BY DEF Init, Stage, IdleStage
<1> QED
  BY <1>5, <1>6, InitTyped DEF IdInv

\* Every step keeps the invariant.
LEMMA NextKeepsIdInv == Faithful /\ IdInv /\ [Next]_vars => IdInv'
<1> SUFFICES ASSUME Faithful, IdInv, [Next]_vars PROVE IdInv'
  OBVIOUS
<1>1. Inv' /\ Inv /\ NodeInv /\ Stage /\ cache = Idle
  BY NextKeepsTypes DEF IdInv
<1>2. ASSUME Persists PROVE IdInv'
  BY <1>1, <1>2, PersistingNode, PersistingStage DEF IdInv, Persists
<1>3. CASE UNCHANGED vars
  <2>1. Persists
    BY <1>3 DEF vars, cluster, kubelet, locals, Persists, Safe, BlueDown, Handed, Retreat, Quiet,
                Tokened, Publishing, StsFullyDown
  <2> QED
    BY <1>2, <2>1
<1>4. CASE Decide
  BY <1>1, <1>4, EachDecision DEF IdInv
<1>5. CASE Write
  BY <1>1, <1>5, EachWrite DEF IdInv
<1>6. CASE LoseWrite
  BY <1>6 DEF LoseWrite, Faithful
<1>7. CASE Abort
  BY <1>1, <1>7, EndStage DEF IdInv, Abort
<1>8. CASE WatchLags \/ SetVersion \/ RequestRetry \/ SnapshotReady
  BY <1>1, <1>2, <1>8, WorldPersists
<1>9. CASE \E c \in Colors : Settle(c) \/ PodFails(c) \/ PodEvicted(c)
  BY <1>1, <1>2, <1>9, PodPersists
<1> QED
  BY <1>3, <1>4, <1>5, <1>6, <1>7, <1>8, <1>9 DEF Next

\* While the passes are faithful, the invariant holds.
LEMMA IdInvHolds == Faithful /\ Spec => []IdInv
<1> SUFFICES ASSUME Faithful PROVE Spec => []IdInv
  OBVIOUS
<1>1. IdInv /\ [Next]_vars => IdInv'
  BY NextKeepsIdInv
<1> QED
  BY <1>1, InitIdInv, PTL DEF Spec

\* A green pod that publishes beside blue is being taken down.
LEMMA IdInvSerializes == IdInv => CutoverSerializesIdentity
<1> SUFFICES ASSUME IdInv, Publishing("blue"), Publishing("green") PROVE BeingStopped("green")
  BY DEF CutoverSerializesIdentity
<1>1. ~BlueDown
  BY DEF BlueDown, StsFullyDown, Publishing
<1>2. Safe
  BY <1>1 DEF IdInv, NodeInv
<1> QED
  BY <1>2 DEF Safe, Quiet, Tokened, BeingStopped, Unwanted, Publishing

\* Header of blue_green_core.rs, cutover serializes identity: while a pass works on the node
\* as it is and no patch is lost, both colors publish only while green is already being taken
\* down, wherever passes are aborted, pods fail or the user edits the node.
THEOREM IdentitySerialized == Faithful /\ Spec => []CutoverSerializesIdentity
BY IdInvHolds, IdInvSerializes, PTL

\* A green pod that starts to publish reads NODE_IS_VALIDATOR from a ConfigMap that says so.
LEMMA GreenStarts ==
    ASSUME Inv, [Next]_vars, ~Publishing("green"), Publishing("green")'
    PROVE  cm = "publishing"
<1>1. pod' # pod
  BY DEF Publishing
<1>2. PICK c \in Colors : Settle(c) \/ PodFails(c) \/ PodEvicted(c)
  <2>1. ~Decide
    BY <1>1 DEF Decide, Begin, End, DeferUpgrade, StayDeferred, MaintainGreen, KeepFailed, MaintainBlue,
       StartRollout, Resume, CreateSnapshot, SnapshotRefused, AwaitSnapshot, CreateGreen, SeedGreen,
       TimeOut, AwaitGreen, EnterCutover, ReadBlueDown, ReadGreenHealth, ScaleBlueToZero, EnableGreenPublishingAndRestart,
       SwitchServiceToGreen, CutoverWait, GreenHealthy, StartRollback, ScaleGreenToZero, ScaleBlueToOne,
       SwitchServiceToBlue, RollbackWait, unmoved, kubelet
  <2>2. ~Write /\ ~LoseWrite /\ ~Abort
    BY <1>1 DEF Write, WriteSts, RefuseSts, WriteCm, WriteSvc, WritePvc, WriteNode, WriteCleanup,
       LoseWrite, Abort, Written, unmoved, kubelet
  <2>3. ~(WatchLags \/ SetVersion \/ RequestRetry \/ SnapshotReady)
    BY <1>1 DEF WatchLags, SetVersion, RequestRetry, Edit, SnapshotReady, kubelet
  <2>4. ~UNCHANGED vars
    BY <1>1 DEF vars, kubelet
  <2> QED
    BY <2>1, <2>2, <2>3, <2>4 DEF Next
<1>3. PICK p : PodStep(c, p)
  BY <1>2 DEF Settle, PodCreate, PodBecomesReady, PodBecomesSynced, PodTerminate, PodGone, PodFails,
         PodEvicted
<1>4. /\ pod \in [Colors -> PodType] /\ "green" \in Colors /\ pod["green"] \in PodType
  BY DEF Inv, TypeInv, ClusterTyped, Colors
<1>5. c = "green"
  <2>1. c = "blue" => pod'["green"] = pod["green"]
    BY <1>3, <1>4 DEF PodStep
  <2> QED
    BY <2>1 DEF Publishing, Colors
<1>6. pod'["green"].st # "none" /\ pod'["green"].pub /\ ~(pod["green"].st # "none" /\ pod["green"].pub)
  BY DEF Publishing
<1>7. CASE PodCreate(c)
  BY <1>4, <1>5, <1>6, <1>7 DEF PodCreate, PodStep, Publishes
<1>8. CASE PodBecomesReady(c) \/ PodBecomesSynced(c)
  BY <1>4, <1>5, <1>6, <1>8 DEF PodBecomesReady, PodBecomesSynced, PodStep, PodType
<1>9. CASE PodTerminate(c) \/ PodEvicted(c)
  BY <1>4, <1>5, <1>6, <1>9 DEF PodTerminate, PodEvicted, PodStep, PodType
<1>10. CASE PodGone(c)
  BY <1>4, <1>5, <1>6, <1>10 DEF PodGone, PodStep, NoPod
<1>11. CASE PodFails(c)
  <2>1. CASE PodStep(c, [pod[c] EXCEPT !.st = "up", !.pub = Publishes(c)])
    <3>1. pod'["green"].pub = Publishes(c)
      BY <1>4, <1>5, <2>1 DEF PodStep, PodType
    <3> QED
      BY <1>5, <1>6, <3>1 DEF Publishes
  <2>2. CASE PodStep(c, [pod[c] EXCEPT !.st = "ready"])
    <3>1. pod'["green"] = [pod["green"] EXCEPT !.st = "ready"]
      BY <1>4, <1>5, <2>2 DEF PodStep
    <3>2. pod["green"].st # "none"
      BY <1>5, <1>11 DEF PodFails
    <3> QED
      BY <1>4, <1>6, <3>1, <3>2 DEF PodType
  <2> QED
    BY <1>11, <2>1, <2>2 DEF PodFails
<1> QED
  BY <1>2, <1>7, <1>8, <1>9, <1>10, <1>11 DEF Settle

\* Under the same hypothesis, a green pod starts to publish, also when its container restarts
\* and reads the ConfigMap again, only when no blue pod exists.
THEOREM PublishesAlone == Faithful /\ Spec => GreenPublishesAlone
<1>1. IdInv /\ [Next]_vars =>
         [~Publishing("green") /\ Publishing("green")' => pod["blue"].st = "none"]_vars
  <2> SUFFICES ASSUME IdInv, [Next]_vars, ~Publishing("green"), Publishing("green")'
               PROVE  pod["blue"].st = "none"
    OBVIOUS
  <2>1. cm = "publishing"
    BY GreenStarts DEF IdInv
  <2>2. BlueDown
    BY <2>1 DEF IdInv, NodeInv, Safe
  <2> QED
    BY <2>2 DEF BlueDown, StsFullyDown
<1> QED
  BY <1>1, IdInvHolds, PTL DEF Spec, GreenPublishesAlone
=============================================================================
