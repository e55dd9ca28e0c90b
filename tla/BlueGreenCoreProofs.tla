------------------------- MODULE BlueGreenCoreProofs -------------------------
(***************************************************************************)
(* Proofs about BlueGreenCore, for any versions, tokens and snapshots and  *)
(* whatever the environment may do to a pass: the type invariant, and that *)
(* green is seeded from a snapshot that had finished.                      *)
(***************************************************************************)
EXTENDS BlueGreenCore, TLAPS

Fields == {"ver", "sPhase", "sColor", "phase", "color", "cut", "rb", "blueVer", "snap",
           "token", "retry", "started"}

\* A patch gives some of the fields of a node a value they may have.
Patches == {[f \in D |-> n[f]] : D \in SUBSET Fields, n \in NodeType}

Writes ==
    [op : {"node", "node?"}, patch : Patches]
    \cup [op : {"sts"}, color : Colors, sts : TemplateType]
    \cup [op : {"cm"}, mode : {"standby", "publishing"}]
    \cup [op : {"svc"}, color : Colors]
    \cup [op : {"pvc"}, src : Snaps \cup {"blank"}]
    \cup [op : {"cleanup?", "cleanCm?"}]

PlainWrites == {w \in Writes : w.op # "pvc"}

\* The writes a pass may still have to make: green is seeded from a finished snapshot.
SeedingWrites == {w \in Writes : RequireSnapshot /\ w.op = "pvc" => w.src \in usable}

ClusterTyped ==
    /\ sts \in [Colors -> TemplateType]
    /\ cm \in {"none", "standby", "publishing"}
    /\ svc \in Colors \cup {"none"}
    /\ pvc \in Snaps \cup {"none", "blank"}
    /\ snaps \subseteq Snaps /\ usable \subseteq snaps
    /\ pod \in [Colors -> PodType]
    /\ faults \in 0..MaxFaults /\ edits \in 0..MaxEdits
    /\ seen \subseteq Tokens \cup {NoToken, "blue", "green"}

PassTyped ==
    /\ view \in NodeType
    /\ pc \in {"idle", "decide", "prepare", "wait", "cutover", "cutoverHealth", "cutoverStep",
               "health", "rollback", "end"}
    /\ ph \in Phases \cup {"none"}
    /\ step \in CutoverSteps \cup RollbackSteps \cup {"none"}
    /\ pc \in {"cutover", "cutoverHealth", "cutoverStep"} => step \in CutoverSteps
    /\ pc = "rollback" => step \in RollbackSteps
    /\ pc # "idle" => ph \in Phases
    /\ token \in Tokens \cup {NoToken}
    /\ read \in [blueDown : BOOLEAN, health : BOOLEAN]

\* What TypeOK says of todo depends on node; here a write is typed by itself.
TypeInv ==
    /\ node \in NodeType /\ cache \in NodeType
    /\ ClusterTyped
    /\ PassTyped
    /\ todo \in Seq(SeedingWrites)

Inv == TypeInv /\ GreenSeededFromUsableSnapshot

-----------------------------------------------------------------------------
(* Patches.                                                                *)

\* A node has these fields, and a patch some of them.
LEMMA NodeFields ==
    ASSUME NEW n \in NodeType
    PROVE  DOMAIN n = Fields
BY DEF NodeType, Fields

\* A merge patch of a node gives a node: the fields of the patch are replaced.
LEMMA MergeNode ==
    ASSUME NEW n \in NodeType, NEW p \in Patches
    PROVE  /\ Merge(n, p) \in NodeType
           /\ \A f \in Fields : Merge(n, p)[f] = IF f \in DOMAIN p THEN p[f] ELSE n[f]
<1>1. PICK D \in SUBSET Fields, m \in NodeType : p = [f \in D |-> m[f]]
  BY DEF Patches
<1>2. Merge(n, p) = [f \in Fields |-> IF f \in D THEN m[f] ELSE n[f]]
  BY <1>1, NodeFields DEF Merge
<1>3. Merge(n, p) \in NodeType
  BY <1>2 DEF Fields, NodeType
<1> QED
  BY <1>1, <1>2, <1>3

\* Two patches merge into one.
LEMMA MergePatch ==
    ASSUME NEW p \in Patches, NEW q \in Patches
    PROVE  /\ Merge(p, q) \in Patches
           /\ DOMAIN Merge(p, q) = DOMAIN p \cup DOMAIN q
           /\ \A f \in DOMAIN p \cup DOMAIN q : Merge(p, q)[f] = IF f \in DOMAIN q THEN q[f] ELSE p[f]
<1>1. PICK D \in SUBSET Fields, m \in NodeType : p = [f \in D |-> m[f]]
  BY DEF Patches
<1>2. PICK E \in SUBSET Fields, k \in NodeType : q = [f \in E |-> k[f]]
  BY DEF Patches
<1> DEFINE n == [f \in Fields |-> IF f \in E THEN k[f] ELSE m[f]]
<1>3. n \in NodeType
  BY DEF Fields, NodeType
<1>4. Merge(p, q) = [f \in D \cup E |-> n[f]]
  BY <1>1, <1>2 DEF Merge
<1>5. D \cup E \in SUBSET Fields
  OBVIOUS
<1>6. Merge(p, q) \in Patches
  BY <1>3, <1>4, <1>5 DEF Patches
<1> QED
  BY <1>1, <1>2, <1>4, <1>6

\* Nothing, and the patch for an unknown snapshot, leave a patch as it is.
LEMMA MergeNothing ==
    ASSUME NEW p \in Patches
    PROVE  Merge(p, <<>>) = p
<1>1. PICK D \in SUBSET Fields, m \in NodeType : p = [f \in D |-> m[f]]
  BY DEF Patches
<1>2. DOMAIN <<>> = {}
  OBVIOUS
<1>3. Merge(p, <<>>) = [f \in D |-> m[f]]
  BY <1>1, <1>2 DEF Merge
<1> QED
  BY <1>1, <1>3

\* A record of well-typed fields is a patch.
LEMMA PatchOf ==
    ASSUME NEW n \in NodeType, NEW D \in SUBSET Fields
    PROVE  [f \in D |-> n[f]] \in Patches
BY DEF Patches

\* The patches the code builds.
LEMMA PhasePatch ==
    ASSUME NEW a \in Phases, NEW c \in Colors
    PROVE  [phase |-> a, color |-> c] \in Patches /\ [sPhase |-> a, sColor |-> c] \in Patches
<1>1. PICK n \in NodeType : n.phase = a /\ n.color = c /\ n.sPhase = a /\ n.sColor = c
  <2> DEFINE m == [Idle EXCEPT !.phase = a, !.color = c, !.sPhase = a, !.sColor = c]
  <2>1. m \in NodeType /\ m.phase = a /\ m.color = c /\ m.sPhase = a /\ m.sColor = c
    BY DEF Idle, NewNode, NodeType
  <2> QED
    BY <2>1
<1>2. [phase |-> a, color |-> c] = [f \in {"phase", "color"} |-> n[f]]
  BY <1>1
<1>3. [sPhase |-> a, sColor |-> c] = [f \in {"sPhase", "sColor"} |-> n[f]]
  BY <1>1
<1>4. {"phase", "color"} \in SUBSET Fields /\ {"sPhase", "sColor"} \in SUBSET Fields
  BY DEF Fields
<1> QED
  BY <1>1, <1>2, <1>3, <1>4, PatchOf

\* The patches of one field.
LEMMA FieldPatch ==
    /\ \A s \in CutoverSteps : [cut |-> s] \in Patches
    /\ \A s \in RollbackSteps : [rb |-> s] \in Patches
    /\ \A s \in Snaps : [snap |-> s] \in Patches
    /\ \A t \in Tokens : [token |-> t] \in Patches
    /\ [retry |-> "none"] \in Patches
<1>1. ASSUME NEW s \in CutoverSteps PROVE [cut |-> s] \in Patches
  <2> DEFINE n == [Idle EXCEPT !.cut = s]
  <2>1. n \in NodeType /\ {"cut"} \in SUBSET Fields /\ [cut |-> s] = [f \in {"cut"} |-> n[f]]
    BY DEF Idle, NewNode, NodeType, Fields
  <2> QED
    BY <2>1, PatchOf
<1>2. ASSUME NEW s \in RollbackSteps PROVE [rb |-> s] \in Patches
  <2> DEFINE n == [Idle EXCEPT !.rb = s]
  <2>1. n \in NodeType /\ {"rb"} \in SUBSET Fields /\ [rb |-> s] = [f \in {"rb"} |-> n[f]]
    BY DEF Idle, NewNode, NodeType, Fields
  <2> QED
    BY <2>1, PatchOf
<1>3. ASSUME NEW s \in Snaps PROVE [snap |-> s] \in Patches
  <2> DEFINE n == [Idle EXCEPT !.snap = s]
  <2>1. n \in NodeType /\ {"snap"} \in SUBSET Fields /\ [snap |-> s] = [f \in {"snap"} |-> n[f]]
    BY DEF Idle, NewNode, NodeType, Fields
  <2> QED
    BY <2>1, PatchOf
<1>4. ASSUME NEW t \in Tokens PROVE [token |-> t] \in Patches
  <2> DEFINE n == [Idle EXCEPT !.token = t]
  <2>1. n \in NodeType /\ {"token"} \in SUBSET Fields /\ [token |-> t] = [f \in {"token"} |-> n[f]]
    BY DEF Idle, NewNode, NodeType, Fields
  <2> QED
    BY <2>1, PatchOf
<1>5. [retry |-> "none"] \in Patches
  <2>1. Idle \in NodeType /\ {"retry"} \in SUBSET Fields
        /\ [retry |-> "none"] = [f \in {"retry"} |-> Idle[f]]
    BY DEF Idle, NewNode, NodeType, Fields
  <2> QED
    BY <2>1, PatchOf
<1> QED
  BY <1>1, <1>2, <1>3, <1>4, <1>5

\* The patch that starts a rollout.
LEMMA StartPatch ==
    ASSUME NEW v \in Versions \cup {NoVersion}
    PROVE  [started |-> "set", blueVer |-> v, phase |-> "PreparingGreen", cut |-> "none",
            rb |-> "none"] \in Patches
<1> DEFINE D == {"started", "blueVer", "phase", "cut", "rb"}
<1>1. PICK n \in NodeType : /\ n.started = "set" /\ n.blueVer = v /\ n.phase = "PreparingGreen"
                           /\ n.cut = "none" /\ n.rb = "none"
  <2> DEFINE m == [Idle EXCEPT !.started = "set", !.blueVer = v, !.phase = "PreparingGreen"]
  <2>1. /\ m \in NodeType
        /\ m.started = "set" /\ m.blueVer = v /\ m.phase = "PreparingGreen"
        /\ m.cut = "none" /\ m.rb = "none"
    BY DEF Idle, NewNode, NodeType, Phases
  <2> QED
    BY <2>1
<1>2. [started |-> "set", blueVer |-> v, phase |-> "PreparingGreen", cut |-> "none",
       rb |-> "none"] = [f \in D |-> n[f]]
  BY <1>1
<1>3. D \in SUBSET Fields
  BY DEF Fields
<1> QED
  BY <1>1, <1>2, <1>3, PatchOf

-----------------------------------------------------------------------------
(* The writes a decision may leave in todo.                                *)

\* The arguments of patch_node_progress that are Some(_).
Optional(opt) == opt = <<>> \/ (opt \in Patches /\ DOMAIN opt \subseteq {"cut", "rb"})

\* p writes phase a and color c, opt, and else at most the snapshot name.
Annotates(p, a, c, opt) ==
    /\ {"phase", "color"} \cup DOMAIN opt \subseteq DOMAIN p
    /\ DOMAIN p \subseteq {"phase", "color", "snap"} \cup DOMAIN opt
    /\ p.phase = a /\ p.color = c
    /\ \A f \in DOMAIN opt : p[f] = opt[f]

\* The patch of patch_node_progress writes the phase, the color and the arguments that
\* are Some(_), and else at most the snapshot name.
LEMMA ProgressPatch ==
    ASSUME NEW a \in Phases, NEW c \in Colors, NEW s \in Snaps \cup {NoSnap}, NEW opt,
           Optional(opt)
    PROVE  \E p \in Patches :
              /\ Progress(a, c, s, opt) =
                    PatchNode(p) \o PatchNodeIgnoringErrors([sPhase |-> a, sColor |-> c])
              /\ Annotates(p, a, c, opt)
<1> DEFINE p0 == [phase |-> a, color |-> c]
           p1 == Merge(p0, opt)
           p2 == Merge(p1, IF s = NoSnap THEN <<>> ELSE [snap |-> s])
<1>1. /\ p0 \in Patches /\ DOMAIN p0 = {"phase", "color"}
      /\ p0["phase"] = a /\ p0["color"] = c
  BY PhasePatch
<1>2. /\ p1 \in Patches /\ DOMAIN p1 = {"phase", "color"} \cup DOMAIN opt
      /\ p1["phase"] = a /\ p1["color"] = c
      /\ \A f \in DOMAIN opt : p1[f] = opt[f]
  <2>1. CASE opt = <<>>
    <3>1. p1 = p0 /\ DOMAIN opt = {}
      BY <1>1, <2>1, MergeNothing
    <3> QED
      BY <1>1, <3>1
  <2>2. CASE opt \in Patches /\ DOMAIN opt \subseteq {"cut", "rb"}
    <3> HIDE DEF p0
    <3>1. /\ p1 \in Patches
          /\ DOMAIN p1 = DOMAIN p0 \cup DOMAIN opt
          /\ \A f \in DOMAIN p0 \cup DOMAIN opt : p1[f] = IF f \in DOMAIN opt THEN opt[f] ELSE p0[f]
      BY <1>1, <2>2, MergePatch
    <3> QED
      BY <1>1, <2>2, <3>1
  <2> QED
    BY <2>1, <2>2 DEF Optional
<1> HIDE DEF p1
<1>3. /\ p2 \in Patches
      /\ DOMAIN p1 \subseteq DOMAIN p2 /\ DOMAIN p2 \subseteq DOMAIN p1 \cup {"snap"}
      /\ \A f \in DOMAIN p1 \ {"snap"} : p2[f] = p1[f]
  <2>1. CASE s = NoSnap
    BY <1>2, <2>1, MergeNothing
  <2>2. CASE s # NoSnap
    <3>1. [snap |-> s] \in Patches /\ DOMAIN [snap |-> s] = {"snap"}
      BY <2>2, FieldPatch
    <3>2. p2 = Merge(p1, [snap |-> s])
      BY <2>2
    <3>3. ASSUME NEW q \in Patches, DOMAIN q = {"snap"}
          PROVE  /\ Merge(p1, q) \in Patches
                 /\ DOMAIN p1 \subseteq DOMAIN Merge(p1, q)
                 /\ DOMAIN Merge(p1, q) \subseteq DOMAIN p1 \cup {"snap"}
                 /\ \A f \in DOMAIN p1 \ {"snap"} : Merge(p1, q)[f] = p1[f]
      <4> HIDE DEF p2
      <4>1. p1 \in Patches
        BY <1>2
      <4>2. /\ Merge(p1, q) \in Patches
            /\ DOMAIN Merge(p1, q) = DOMAIN p1 \cup DOMAIN q
            /\ \A f \in DOMAIN p1 \cup DOMAIN q : Merge(p1, q)[f] = IF f \in DOMAIN q THEN q[f] ELSE p1[f]
        BY <4>1, MergePatch
      <4> QED
        BY <4>2, <3>3
    <3> QED
      BY <3>1, <3>2, <3>3
  <2> QED
    BY <2>1, <2>2
<1>4. /\ {"phase", "color"} \cup DOMAIN opt \subseteq DOMAIN p2
      /\ DOMAIN p2 \subseteq {"phase", "color", "snap"} \cup DOMAIN opt
      /\ "snap" \notin DOMAIN opt
  <2>1. "snap" \notin DOMAIN opt
    <3>1. CASE opt = <<>>
      BY <3>1
    <3>2. CASE opt # <<>>
      BY <3>2 DEF Optional
    <3> QED
      BY <3>1, <3>2
  <2> QED
    BY <2>1, <1>2, <1>3
<1>5. p2["phase"] = a /\ p2["color"] = c /\ \A f \in DOMAIN opt : p2[f] = opt[f]
  BY <1>2, <1>3, <1>4
<1>6. Progress(a, c, s, opt) =
         PatchNode(p2) \o PatchNodeIgnoringErrors([sPhase |-> a, sColor |-> c])
  BY DEF Progress, p1
<1> HIDE DEF p2
<1>7. Annotates(p2, a, c, opt)
  BY <1>4, <1>5 DEF Annotates
<1> QED
  BY <1>3, <1>6, <1>7

\* Writes one after the other.
LEMMA Concat ==
    ASSUME NEW S, NEW s \in Seq(S), NEW t \in Seq(S)
    PROVE  s \o t \in Seq(S)
OBVIOUS

\* More writes allowed.
LEMMA SeqMonotone ==
    ASSUME NEW S, NEW T, S \subseteq T, NEW s \in Seq(S)
    PROVE  s \in Seq(T)
OBVIOUS

\* Writes that seed nothing are allowed at any time.
LEMMA PlainIsSeeding == \A s \in Seq(PlainWrites) : s \in Seq(SeedingWrites)
<1>1. PlainWrites \subseteq SeedingWrites
  BY DEF PlainWrites, SeedingWrites
<1> QED
  BY <1>1, SeqMonotone

\* Each of the writes is typed.
LEMMA WritesTyped ==
    /\ \A c \in Colors, r \in {"active", "standby"}, k \in {0, 1},
          v \in Versions \cup {NoVersion}, t \in Tokens \cup {NoToken} :
            ApplySts(c, r, k, v, t) \in Seq(PlainWrites)
    /\ \A m \in {"standby", "publishing"} : ApplyCm(m) \in Seq(PlainWrites)
    /\ \A c \in Colors : ApplySvc(c) \in Seq(PlainWrites)
    /\ \A p \in Patches : PatchNode(p) \in Seq(PlainWrites) /\ PatchNodeIgnoringErrors(p) \in Seq(PlainWrites)
    /\ CleanupGreenResources \in Seq(PlainWrites)
<1>1. ASSUME NEW c \in Colors, NEW r \in {"active", "standby"}, NEW k \in {0, 1},
             NEW v \in Versions \cup {NoVersion}, NEW t \in Tokens \cup {NoToken}
      PROVE  ApplySts(c, r, k, v, t) \in Seq(PlainWrites)
  BY DEF ApplySts, PlainWrites, Writes, TemplateType
<1>2. ASSUME NEW m \in {"standby", "publishing"} PROVE ApplyCm(m) \in Seq(PlainWrites)
  BY DEF ApplyCm, PlainWrites, Writes
<1>3. ASSUME NEW c \in Colors PROVE ApplySvc(c) \in Seq(PlainWrites)
  BY DEF ApplySvc, PlainWrites, Writes
<1>4. ASSUME NEW p \in Patches
      PROVE  PatchNode(p) \in Seq(PlainWrites) /\ PatchNodeIgnoringErrors(p) \in Seq(PlainWrites)
  BY DEF PatchNode, PatchNodeIgnoringErrors, PlainWrites, Writes
<1>5. CleanupGreenResources \in Seq(PlainWrites)
  BY DEF CleanupGreenResources, PlainWrites, Writes
<1> QED
  BY <1>1, <1>2, <1>3, <1>4, <1>5

\* So are those of patch_node_progress.
LEMMA ProgressTyped ==
    ASSUME NEW a \in Phases, NEW c \in Colors, NEW s \in Snaps \cup {NoSnap}
    PROVE  /\ Progress(a, c, s, Nothing) \in Seq(PlainWrites)
           /\ \A t \in CutoverSteps : Progress(a, c, s, [cut |-> t]) \in Seq(PlainWrites)
           /\ \A t \in RollbackSteps : Progress(a, c, s, [rb |-> t]) \in Seq(PlainWrites)
<1>1. ASSUME NEW opt, Optional(opt)
      PROVE  Progress(a, c, s, opt) \in Seq(PlainWrites)
  <2>1. PICK p \in Patches : Progress(a, c, s, opt) =
                PatchNode(p) \o PatchNodeIgnoringErrors([sPhase |-> a, sColor |-> c])
    BY <1>1, ProgressPatch
  <2>2. PatchNode(p) \in Seq(PlainWrites)
    BY WritesTyped
  <2>3. PatchNodeIgnoringErrors([sPhase |-> a, sColor |-> c]) \in Seq(PlainWrites)
    BY WritesTyped, PhasePatch
  <2> QED
    BY <2>1, <2>2, <2>3, Concat
<1>2. /\ Optional(Nothing)
      /\ \A t \in CutoverSteps : Optional([cut |-> t])
      /\ \A t \in RollbackSteps : Optional([rb |-> t])
  BY FieldPatch DEF Optional, Nothing
<1> QED
  BY <1>1, <1>2

-----------------------------------------------------------------------------
(* The decisions.                                                          *)

\* A decision that leaves the node and the cluster alone.
LEMMA Decided ==
    ASSUME Inv, PassTyped', todo' \in Seq(PlainWrites), UNCHANGED unmoved
    PROVE  Inv'
<1>1. SeedingWrites' = SeedingWrites
  BY DEF SeedingWrites, unmoved, kubelet
<1>2. todo' \in Seq(SeedingWrites')
  BY <1>1, PlainIsSeeding
<1>3. ClusterTyped' /\ GreenSeededFromUsableSnapshot' /\ node' \in NodeType /\ cache' \in NodeType
  BY DEF Inv, TypeInv, ClusterTyped, GreenSeededFromUsableSnapshot, unmoved, cluster, kubelet
<1> QED
  BY <1>2, <1>3 DEF Inv, TypeInv

\* A pass that ends for want of anything else to do, by an error or by a crash.
LEMMA ResetTyped ==
    ASSUME Reset, pc' = "idle"
    PROVE  PassTyped'
BY DEF Reset, PassTyped, Idle, NewNode, NoRead, NodeType

LEMMA KeepTyped ==
    ASSUME Inv
    PROVE  /\ KeepGreen \in Seq(PlainWrites) /\ KeepBluePublishing \in Seq(PlainWrites)
           /\ ApplySts("blue", "active", 1, view.ver, NoToken) \o ApplySvc("blue") \in Seq(PlainWrites)
           /\ DeployedBlue \in Versions \cup {NoVersion}
           /\ BlueVersion(view) \in Versions \cup {NoVersion}
<1>1. /\ view.ver \in Versions \cup {NoVersion} /\ view.blueVer \in Versions \cup {NoVersion}
      /\ view.token \in Tokens \cup {NoToken} /\ sts["blue"].ver \in Versions \cup {NoVersion}
  BY DEF Inv, TypeInv, PassTyped, ClusterTyped, NodeType, TemplateType, Colors
<1>2. /\ DeployedBlue \in Versions \cup {NoVersion}
      /\ BlueVersion(view) \in Versions \cup {NoVersion}
  BY <1>1 DEF DeployedBlue, BlueVersion
<1>3. KeepGreen \in Seq(PlainWrites)
  <2>1. "green" \in Colors /\ "blue" \in Colors
    BY DEF Colors
  <2>2. ApplyCm("publishing") \in Seq(PlainWrites)
    BY WritesTyped
  <2>3. ApplySts("green", "active", 1, view.ver, view.token) \in Seq(PlainWrites)
    BY <1>1, <2>1, WritesTyped
  <2>4. ApplySts("blue", "standby", 0, BlueVersion(view), NoToken) \in Seq(PlainWrites)
    BY <1>2, <2>1, WritesTyped
  <2>5. ApplySvc("green") \in Seq(PlainWrites)
    BY <2>1, WritesTyped
  <2> QED
    BY <2>2, <2>3, <2>4, <2>5, Concat DEF KeepGreen
<1>4. ASSUME NEW v \in Versions \cup {NoVersion}
      PROVE  ApplySts("blue", "active", 1, v, NoToken) \o ApplySvc("blue") \in Seq(PlainWrites)
  <2>1. ApplySts("blue", "active", 1, v, NoToken) \in Seq(PlainWrites)
        /\ ApplySvc("blue") \in Seq(PlainWrites)
    BY WritesTyped DEF Colors
  <2> QED
    BY <2>1, Concat
<1>5. KeepBluePublishing \in Seq(PlainWrites)
  BY <1>1, <1>2, <1>4 DEF KeepBluePublishing
<1> QED
  BY <1>1, <1>2, <1>3, <1>4, <1>5

\* The fields of the pass a decision leaves alone keep their types.
LEMMA SamePass ==
    ASSUME Inv, pc # "idle", UNCHANGED <<view, ph, token, read>>, step' = step \/ step' \in CutoverSteps \cup RollbackSteps,
           pc' \in {"decide", "prepare", "wait", "cutover", "cutoverHealth", "cutoverStep", "health",
                    "rollback", "end"},
           pc' \in {"cutover", "cutoverHealth", "cutoverStep"} => step' \in CutoverSteps,
           pc' = "rollback" => step' \in RollbackSteps
    PROVE  PassTyped'
BY DEF Inv, TypeInv, PassTyped

\* What the decisions read of the pass is typed.
LEMMA ViewTyped ==
    ASSUME Inv
    PROVE  /\ view \in NodeType /\ view.snap \in Snaps \cup {NoSnap}
           /\ view.ver \in Versions \cup {NoVersion} /\ view.token \in Tokens \cup {NoToken}
           /\ ReadCutoverStep(view) \in CutoverSteps /\ ReadRollbackStep(view) \in RollbackSteps
           /\ ReadPhase(view) \in Phases
BY DEF Inv, TypeInv, PassTyped, NodeType, ReadCutoverStep, ReadRollbackStep, ReadPhase,
       CutoverSteps, RollbackSteps, Phases

\* Begin works on the node, or on the older copy of it.
LEMMA BeginTyped == ASSUME Inv, Begin PROVE Inv'
<1> DEFINE retry == ReadPhase(view') = "Failed" /\ RetryRequested(view')
<1>1. view' \in NodeType
  BY DEF Begin, Inv, TypeInv
<1>2. ReadPhase(view') \in Phases
  BY <1>1 DEF ReadPhase, NodeType, Phases
<1>3. PassTyped'
  BY <1>1, <1>2 DEF Begin, Goto, Inv, TypeInv, PassTyped, Phases
<1>4. todo' \in Seq(PlainWrites)
  <2>1. PatchNode([retry |-> "none"]) \in Seq(PlainWrites)
    BY FieldPatch, WritesTyped
  <2>2. Progress("BlueActive", "blue", NoSnap, Nothing) \in Seq(PlainWrites)
    BY ProgressTyped DEF Phases, Colors
  <2>3. PatchNode([retry |-> "none"]) \o Progress("BlueActive", "blue", NoSnap, Nothing)
          \in Seq(PlainWrites)
    BY <2>1, <2>2, Concat
  <2>4. <<>> \in Seq(PlainWrites)
    OBVIOUS
  <2> QED
    BY <2>3, <2>4 DEF Begin, Goto
<1>5. todo' \in Seq(SeedingWrites')
  <2>1. SeedingWrites' = SeedingWrites
    BY DEF Begin, SeedingWrites, kubelet
  <2> QED
    BY <1>4, <2>1, PlainIsSeeding
<1>6. ClusterTyped' /\ GreenSeededFromUsableSnapshot' /\ node' \in NodeType
  BY DEF Begin, Inv, TypeInv, ClusterTyped, GreenSeededFromUsableSnapshot, cluster, kubelet
<1>7. cache' \in NodeType
  BY DEF Begin, Idle, NewNode, NodeType
<1> QED
  BY <1>3, <1>5, <1>6, <1>7 DEF Inv, TypeInv

\* End.
LEMMA EndTyped == ASSUME Inv, End PROVE Inv'
<1>1. PassTyped'
  BY ResetTyped DEF End
<1>2. todo' \in Seq(PlainWrites)
  BY DEF End, At
<1> QED
  BY <1>1, <1>2, Decided DEF End, unmoved

\* Green is kept, or given up.
LEMMA GreenTyped ==
    ASSUME Inv, DeferUpgrade \/ StayDeferred \/ MaintainGreen \/ GreenHealthy \/ StartRollback
    PROVE  Inv'
<1>1. CASE DeferUpgrade
  <2>1. PassTyped'
    BY <1>1, SamePass DEF DeferUpgrade, At, Finish, Goto, locals
  <2>2. Progress("UpgradeDeferred", "green", view.snap, Nothing) \in Seq(PlainWrites)
    BY ProgressTyped, ViewTyped DEF Phases, Colors
  <2>3. todo' \in Seq(PlainWrites)
    BY <1>1, <2>2, KeepTyped, Concat DEF DeferUpgrade, Finish, Goto
  <2> QED
    BY <1>1, <2>1, <2>3, Decided DEF DeferUpgrade
<1>2. CASE StayDeferred
  <2>1. PassTyped'
    BY <1>2, SamePass DEF StayDeferred, At, Finish, Goto, locals
  <2>2. todo' \in Seq(PlainWrites)
    BY <1>2 DEF StayDeferred, Finish, Goto
  <2> QED
    BY <1>2, <2>1, <2>2, Decided DEF StayDeferred
<1>3. CASE MaintainGreen
  <2>1. PassTyped'
    BY <1>3, SamePass DEF MaintainGreen, At, Goto, locals
  <2>2. todo' \in Seq(PlainWrites)
    BY <1>3, KeepTyped DEF MaintainGreen, Goto
  <2> QED
    BY <1>3, <2>1, <2>2, Decided DEF MaintainGreen
<1>4. CASE GreenHealthy
  <2>1. PassTyped'
    BY <1>4, SamePass DEF GreenHealthy, At, Finish, Goto, locals
  <2>2. todo' \in Seq(PlainWrites)
    BY <1>4, ProgressTyped, ViewTyped DEF GreenHealthy, Finish, Goto, Phases, Colors, CutoverSteps
  <2> QED
    BY <1>4, <2>1, <2>2, Decided DEF GreenHealthy
<1>5. CASE StartRollback
  <2>1. PassTyped'
    BY <1>5, SamePass, ViewTyped DEF StartRollback, At, Goto
  <2>2. todo' \in Seq(PlainWrites)
    BY <1>5, ProgressTyped, ViewTyped DEF StartRollback, Goto, Phases, Colors, RollbackSteps
  <2> QED
    BY <1>5, <2>1, <2>2, Decided DEF StartRollback
<1> QED
  BY <1>1, <1>2, <1>3, <1>4, <1>5

\* Blue is kept, or a rollout started or resumed.
LEMMA BlueTyped ==
    ASSUME Inv, KeepFailed \/ MaintainBlue \/ StartRollout \/ Resume
    PROVE  Inv'
<1>1. CASE KeepFailed
  <2>1. PassTyped'
    BY <1>1, SamePass DEF KeepFailed, At, Finish, Goto, locals
  <2>2. todo' \in Seq(PlainWrites)
    BY <1>1, KeepTyped DEF KeepFailed, Finish, Goto
  <2> QED
    BY <1>1, <2>1, <2>2, Decided DEF KeepFailed
<1>2. CASE MaintainBlue
  <2>1. PassTyped'
    BY <1>2, SamePass DEF MaintainBlue, At, Finish, Goto, locals
  <2>2. Progress("BlueActive", "blue", NoSnap, Nothing) \in Seq(PlainWrites)
    BY ProgressTyped DEF Phases, Colors
  <2>3. todo' \in Seq(PlainWrites)
    BY <1>2, <2>2, KeepTyped, Concat DEF MaintainBlue, Finish, Goto
  <2> QED
    BY <1>2, <2>1, <2>3, Decided DEF MaintainBlue
<1>3. CASE StartRollout
  <2>1. PassTyped'
    BY <1>3 DEF StartRollout, At, Goto, Inv, TypeInv, PassTyped, Phases
  <2>2. PatchNodeIgnoringErrors([started |-> "set", blueVer |-> DeployedBlue,
                                 phase |-> "PreparingGreen", cut |-> "none", rb |-> "none"])
          \in Seq(PlainWrites)
    BY KeepTyped, StartPatch, WritesTyped
  <2>3. todo' \in Seq(PlainWrites)
    BY <1>3, <2>2, KeepTyped, Concat DEF StartRollout, Goto
  <2> QED
    BY <1>3, <2>1, <2>3, Decided DEF StartRollout
<1>4. CASE Resume
  <2>1. PassTyped'
    BY <1>4, ViewTyped DEF Resume, At, Goto, Inv, TypeInv, PassTyped
  <2>2. <<>> \in Seq(PlainWrites)
    OBVIOUS
  <2>3. todo' \in Seq(PlainWrites)
    BY <1>4, <2>2, KeepTyped DEF Resume, Goto
  <2> QED
    BY <1>4, <2>1, <2>3, Decided DEF Resume
<1> QED
  BY <1>1, <1>2, <1>3, <1>4

\* Green is prepared: the snapshot is created and finishes, then green is seeded.
LEMMA PrepareTyped ==
    ASSUME Inv, CreateSnapshot \/ SnapshotRefused \/ AwaitSnapshot \/ CreateGreen
    PROVE  Inv'
<1>1. CASE CreateSnapshot
  <2> DEFINE s == CHOOSE t \in Snaps : t \notin snaps
  <2>1. s \in Snaps
    BY <1>1 DEF CreateSnapshot, Inv, TypeInv, ClusterTyped
  <2> HIDE DEF s
  <2>2. view' = [view EXCEPT !.snap = s] /\ snaps' = snaps \cup {s}
    BY <1>1 DEF CreateSnapshot, s
  <2>3. PassTyped'
    <3>1. view' \in NodeType
      BY <2>1, <2>2, ViewTyped DEF NodeType
    <3> QED
      BY <1>1, <3>1 DEF CreateSnapshot, At, Inv, TypeInv, PassTyped
  <2>4. SeedingWrites' = SeedingWrites
    BY <1>1 DEF CreateSnapshot, SeedingWrites, kubelet
  <2>5. ClusterTyped' /\ GreenSeededFromUsableSnapshot'
    BY <1>1, <2>1, <2>2
    DEF CreateSnapshot, Inv, TypeInv, ClusterTyped, GreenSeededFromUsableSnapshot, kubelet
  <2> QED
    BY <1>1, <2>3, <2>4, <2>5 DEF CreateSnapshot, Inv, TypeInv
<1>2. CASE SnapshotRefused
  <2>1. PassTyped'
    BY <1>2, ResetTyped DEF SnapshotRefused
  <2>2. todo' \in Seq(PlainWrites)
    BY <1>2 DEF SnapshotRefused, At
  <2> QED
    BY <1>2, <2>1, <2>2, Decided DEF SnapshotRefused
<1>3. CASE AwaitSnapshot
  <2>1. PassTyped'
    BY <1>3, SamePass DEF AwaitSnapshot, At, Finish, Goto, locals
  <2>2. todo' \in Seq(PlainWrites)
    BY <1>3, ProgressTyped, ViewTyped DEF AwaitSnapshot, Finish, Goto, Phases, Colors
  <2> QED
    BY <1>3, <2>1, <2>2, Decided DEF AwaitSnapshot
<1>4. CASE CreateGreen
  <2> DEFINE src == IF RequireSnapshot THEN view.snap ELSE "blank"
             known == IF RequireSnapshot THEN view.snap ELSE NoSnap
  <2>1. SeedGreen(view.snap) /\ (RequireSnapshot => view.snap \in usable) /\ pc = "prepare"
    BY <1>4 DEF CreateGreen, At
  <2>2. PassTyped'
    BY <2>1, SamePass DEF SeedGreen, Finish, Goto, locals
  <2>3. CreatePvc(src) \in Seq(SeedingWrites)
    <3>1. src \in Snaps \cup {"blank"} /\ (RequireSnapshot => src \in usable)
      BY <2>1 DEF Inv, TypeInv, ClusterTyped
    <3> HIDE DEF src
    <3> QED
      BY <3>1 DEF CreatePvc, SeedingWrites, Writes
  <2>4. /\ ApplyCm("standby") \in Seq(PlainWrites)
        /\ ApplySts("green", "standby", 1, view.ver, NoToken) \in Seq(PlainWrites)
    BY ViewTyped, WritesTyped DEF Colors
  <2>5. Progress("WaitingForGreen", "blue", known, Nothing) \in Seq(PlainWrites)
    BY ProgressTyped, ViewTyped DEF Phases, Colors
  <2>6. todo' \in Seq(SeedingWrites)
    BY <2>1, <2>3, <2>4, <2>5, PlainIsSeeding, Concat DEF SeedGreen, Finish, Goto
  <2>7. SeedingWrites' = SeedingWrites
    BY <2>1 DEF SeedGreen, SeedingWrites, unmoved, kubelet
  <2>8. ClusterTyped' /\ GreenSeededFromUsableSnapshot' /\ node' \in NodeType /\ cache' \in NodeType
    BY <2>1 DEF SeedGreen, Inv, TypeInv, ClusterTyped, GreenSeededFromUsableSnapshot, unmoved,
                cluster, kubelet
  <2> QED
    BY <2>2, <2>6, <2>7, <2>8 DEF Inv, TypeInv
<1> QED
  BY <1>1, <1>2, <1>3, <1>4

\* Green is awaited, given up or taken into the cutover.
LEMMA WaitTyped ==
    ASSUME Inv, TimeOut \/ AwaitGreen \/ EnterCutover
    PROVE  Inv'
<1>1. CASE TimeOut
  <2>1. PassTyped'
    BY <1>1, SamePass DEF TimeOut, At, Finish, Goto, locals
  <2>2. Progress("Failed", "blue", view.snap, Nothing) \in Seq(PlainWrites)
    BY ProgressTyped, ViewTyped DEF Phases, Colors
  <2>3. todo' \in Seq(PlainWrites)
    BY <1>1, <2>2, WritesTyped, Concat DEF TimeOut, Finish, Goto
  <2> QED
    BY <1>1, <2>1, <2>3, Decided DEF TimeOut
<1>2. CASE AwaitGreen
  <2>1. PassTyped'
    BY <1>2, SamePass DEF AwaitGreen, At, Finish, Goto, locals
  <2>2. todo' \in Seq(PlainWrites)
    BY <1>2, ProgressTyped, ViewTyped DEF AwaitGreen, Finish, Goto, Phases, Colors
  <2> QED
    BY <1>2, <2>1, <2>2, Decided DEF AwaitGreen
<1>3. CASE EnterCutover
  <2>1. PassTyped'
    BY <1>3, ViewTyped DEF EnterCutover, At, Goto, Inv, TypeInv, PassTyped
  <2>2. todo' \in Seq(PlainWrites)
    BY <1>3, ProgressTyped, ViewTyped DEF EnterCutover, Goto, Phases, Colors, CutoverSteps
  <2> QED
    BY <1>3, <2>1, <2>2, Decided DEF EnterCutover
<1> QED
  BY <1>1, <1>2, <1>3

\* The steps of a cutover.
LEMMA CutoverTyped ==
    ASSUME Inv, \/ ReadBlueDown \/ ReadGreenHealth \/ ScaleBlueToZero \/ EnableGreenPublishingAndRestart
                \/ SwitchServiceToGreen \/ CutoverWait
    PROVE  Inv'
<1>0. "green" \in Colors /\ "blue" \in Colors /\ "CuttingOver" \in Phases /\ "GreenActive" \in Phases
  BY DEF Colors, Phases
<1>1. CASE ReadBlueDown \/ ReadGreenHealth
  <2>1. BlueFullyDown \in BOOLEAN
    BY DEF BlueFullyDown, StsFullyDown, PodReady
  <2>2. ASSUME NEW lagOk \in BOOLEAN
        PROVE  Gate("green", "blue", lagOk) \in BOOLEAN
    BY DEF Gate, Synced
  <2>3. read' \in [blueDown : BOOLEAN, health : BOOLEAN]
    <3>1. CASE ReadBlueDown
      BY <2>1, <3>1 DEF ReadBlueDown
    <3>2. CASE ReadGreenHealth
      BY <2>2, <3>2 DEF ReadGreenHealth, Inv, TypeInv, PassTyped
    <3> QED
      BY <1>1, <3>1, <3>2
  <2>4. PassTyped'
    <3>1. /\ UNCHANGED <<view, ph, step, token>> /\ pc \in {"cutover", "cutoverHealth"}
          /\ pc' \in {"cutoverHealth", "cutoverStep"}
      BY <1>1 DEF ReadBlueDown, ReadGreenHealth, At
    <3> QED
      BY <2>3, <3>1 DEF Inv, TypeInv, PassTyped
  <2>5. todo' \in Seq(PlainWrites)
    <3>1. todo' = <<>>
      BY <1>1 DEF ReadBlueDown, ReadGreenHealth, At
    <3> QED
      BY <3>1
  <2>6. UNCHANGED unmoved
    BY <1>1 DEF ReadBlueDown, ReadGreenHealth
  <2> QED
    BY <2>4, <2>5, <2>6, Decided
<1>2. CASE ScaleBlueToZero
  <2>1. PassTyped'
    BY <1>2, SamePass DEF ScaleBlueToZero, At, Goto, CutoverSteps
  <2>2. Progress("CuttingOver", "blue", view.snap, [cut |-> "WaitBlueDown"]) \in Seq(PlainWrites)
    BY <1>0, ProgressTyped, ViewTyped DEF CutoverSteps
  <2>3. /\ ApplySts("blue", "standby", 0, BlueVersion(view), NoToken) \in Seq(PlainWrites)
        /\ ApplySvc("blue") \in Seq(PlainWrites) /\ ApplyCm("standby") \in Seq(PlainWrites)
    BY <1>0, KeepTyped, WritesTyped
  <2>4. todo' \in Seq(PlainWrites)
    BY <1>2, <2>2, <2>3, Concat DEF ScaleBlueToZero, Goto
  <2> QED
    BY <1>2, <2>1, <2>4, Decided DEF ScaleBlueToZero
<1>3. CASE EnableGreenPublishingAndRestart
  <2>1. token' \in Tokens
    BY <1>3 DEF EnableGreenPublishingAndRestart
  <2>2. PassTyped'
    BY <1>3, <2>1 DEF EnableGreenPublishingAndRestart, At, Goto, CutoverSteps, Inv, TypeInv, PassTyped
  <2>3. Progress("CuttingOver", "blue", view.snap, [cut |-> "WaitGreenHealthy"]) \in Seq(PlainWrites)
    BY <1>0, ProgressTyped, ViewTyped DEF CutoverSteps
  <2>4. PatchNodeIgnoringErrors([token |-> token']) \in Seq(PlainWrites)
    BY <2>1, FieldPatch, WritesTyped
  <2>5. /\ ApplySts("green", "active", 1, view.ver, token') \in Seq(PlainWrites)
        /\ ApplyCm("publishing") \in Seq(PlainWrites)
    BY <1>0, <2>1, ViewTyped, WritesTyped
  <2>6. todo' \in Seq(PlainWrites)
    BY <1>3, <2>3, <2>4, <2>5, Concat DEF EnableGreenPublishingAndRestart, Goto
  <2> QED
    BY <1>3, <2>2, <2>6, Decided DEF EnableGreenPublishingAndRestart
<1>4. CASE SwitchServiceToGreen
  <2>1. PassTyped'
    BY <1>4, SamePass DEF SwitchServiceToGreen, At, Finish, Goto, locals
  <2>2. Progress("GreenActive", "green", view.snap, [cut |-> "Complete"]) \in Seq(PlainWrites)
    BY <1>0, ProgressTyped, ViewTyped DEF CutoverSteps
  <2>3. PatchNodeIgnoringErrors([cut |-> "Complete"]) \in Seq(PlainWrites)
    BY FieldPatch, WritesTyped DEF CutoverSteps
  <2>4. ApplySvc("green") \in Seq(PlainWrites)
    BY <1>0, WritesTyped
  <2>5. todo' \in Seq(PlainWrites)
    BY <1>4, <2>2, <2>3, <2>4, Concat DEF SwitchServiceToGreen, Finish, Goto
  <2> QED
    BY <1>4, <2>1, <2>5, Decided DEF SwitchServiceToGreen
<1>5. CASE CutoverWait
  <2>1. PassTyped'
    BY <1>5, SamePass DEF CutoverWait, At, Finish, Goto, locals
  <2>2. ClampedStep \in CutoverSteps
    BY <1>5 DEF CutoverWait, At, ClampedStep, EnforceCutoverSafety, Inv, TypeInv, PassTyped,
                CutoverSteps
  <2>3. todo' \in Seq(PlainWrites)
    BY <1>0, <1>5, <2>2, ProgressTyped, ViewTyped DEF CutoverWait, Finish, Goto
  <2> QED
    BY <1>5, <2>1, <2>3, Decided DEF CutoverWait
<1> QED
  BY <1>1, <1>2, <1>3, <1>4, <1>5

\* The steps of a rollback.
LEMMA RollbackTyped ==
    ASSUME Inv, ScaleGreenToZero \/ ScaleBlueToOne \/ SwitchServiceToBlue \/ RollbackWait
    PROVE  Inv'
<1>0. "green" \in Colors /\ "blue" \in Colors /\ "RollingBack" \in Phases /\ "BlueActive" \in Phases
  BY DEF Colors, Phases
<1>1. CASE ScaleGreenToZero
  <2>1. PassTyped'
    BY <1>1, SamePass DEF ScaleGreenToZero, At, Goto, RollbackSteps
  <2>2. Progress("RollingBack", "green", view.snap, [rb |-> "ScaleBlueUp"]) \in Seq(PlainWrites)
    BY <1>0, ProgressTyped, ViewTyped DEF RollbackSteps
  <2>3. /\ ApplyCm("standby") \in Seq(PlainWrites)
        /\ ApplySts("green", "standby", 0, view.ver, NoToken) \in Seq(PlainWrites)
    BY <1>0, ViewTyped, WritesTyped
  <2>4. todo' \in Seq(PlainWrites)
    BY <1>1, <2>2, <2>3, Concat DEF ScaleGreenToZero, Goto
  <2> QED
    BY <1>1, <2>1, <2>4, Decided DEF ScaleGreenToZero
<1>2. CASE ScaleBlueToOne
  <2>1. PassTyped'
    BY <1>2, SamePass DEF ScaleBlueToOne, At, Goto, RollbackSteps
  <2>2. Progress("RollingBack", "green", view.snap, [rb |-> "WaitBlueHealthy"]) \in Seq(PlainWrites)
    BY <1>0, ProgressTyped, ViewTyped DEF RollbackSteps
  <2>3. ApplySts("blue", "active", 1, BlueVersion(view), NoToken) \in Seq(PlainWrites)
    BY <1>0, KeepTyped, WritesTyped
  <2>4. todo' \in Seq(PlainWrites)
    BY <1>2, <2>2, <2>3, Concat DEF ScaleBlueToOne, Goto
  <2> QED
    BY <1>2, <2>1, <2>4, Decided DEF ScaleBlueToOne
<1>3. CASE SwitchServiceToBlue
  <2>1. PassTyped'
    BY <1>3, SamePass DEF SwitchServiceToBlue, At, Finish, Goto, locals
  <2>2. Progress("BlueActive", "blue", view.snap, [rb |-> "Complete"]) \in Seq(PlainWrites)
    BY <1>0, ProgressTyped, ViewTyped DEF RollbackSteps
  <2>3. ApplySvc("blue") \in Seq(PlainWrites)
    BY <1>0, WritesTyped
  <2>4. todo' \in Seq(PlainWrites)
    BY <1>3, <2>2, <2>3, Concat DEF SwitchServiceToBlue, Finish, Goto
  <2> QED
    BY <1>3, <2>1, <2>4, Decided DEF SwitchServiceToBlue
<1>4. CASE RollbackWait
  <2>1. PassTyped'
    BY <1>4, SamePass DEF RollbackWait, At, Finish, Goto, locals
  <2>2. step \in RollbackSteps
    BY <1>4 DEF RollbackWait, At, Inv, TypeInv, PassTyped
  <2>3. todo' \in Seq(PlainWrites)
    BY <1>0, <1>4, <2>2, ProgressTyped, ViewTyped DEF RollbackWait, Finish, Goto
  <2> QED
    BY <1>4, <2>1, <2>3, Decided DEF RollbackWait
<1> QED
  BY <1>1, <1>2, <1>3, <1>4

\* Every decision.
LEMMA DecideTyped == ASSUME Inv, Decide PROVE Inv'
BY BeginTyped, EndTyped, GreenTyped, BlueTyped, PrepareTyped, WaitTyped, CutoverTyped, RollbackTyped
   DEF Decide

-----------------------------------------------------------------------------
(* The writes.                                                             *)

\* The write that is next, and those that are left after it.
LEMMA NextTyped ==
    ASSUME Inv, todo # <<>>
    PROVE  Head(todo) \in SeedingWrites /\ Tail(todo) \in Seq(SeedingWrites)
BY DEF Inv, TypeInv

\* By its op, a write has its other fields.
LEMMA WriteFields ==
    ASSUME NEW w \in Writes
    PROVE  /\ w.op \in {"node", "node?"} => w.patch \in Patches
           /\ w.op = "sts" => w.color \in Colors /\ w.sts \in TemplateType
           /\ w.op = "cm" => w.mode \in {"standby", "publishing"}
           /\ w.op = "svc" => w.color \in Colors
           /\ w.op = "pvc" => w.src \in Snaps \cup {"blank"}
<1>1. \/ w \in [op : {"node", "node?"}, patch : Patches]
      \/ w \in [op : {"sts"}, color : Colors, sts : TemplateType]
      \/ w \in [op : {"cm"}, mode : {"standby", "publishing"}]
      \/ w \in [op : {"svc"}, color : Colors]
      \/ w \in [op : {"pvc"}, src : Snaps \cup {"blank"}]
      \/ w \in [op : {"cleanup?", "cleanCm?"}]
  BY DEF Writes
<1> QED
  BY <1>1

\* A write changes what it writes and is done.
LEMMA WriteTyped ==
    ASSUME Inv, todo # <<>>, Written,
           node' \in NodeType, ClusterTyped', GreenSeededFromUsableSnapshot'
    PROVE  Inv'
<1>1. PassTyped' /\ cache' \in NodeType
  BY DEF Written, locals, Inv, TypeInv, PassTyped
<1>2. SeedingWrites' = SeedingWrites
  BY DEF Written, kubelet, SeedingWrites
<1> QED
  BY <1>1, <1>2, NextTyped DEF Inv, TypeInv, Written

\* Every write.
LEMMA EachWriteTyped == ASSUME Inv, Write \/ LoseWrite PROVE Inv'
<1> DEFINE w == Head(todo)
<1> HIDE DEF w
<1>0. ASSUME todo # <<>> PROVE w \in Writes /\ (RequireSnapshot /\ w.op = "pvc" => w.src \in usable)
  BY <1>0, NextTyped DEF SeedingWrites, w
<1>1. CASE WriteSts
  <2>1. todo # <<>> /\ w.color \in Colors /\ w.sts \in TemplateType
    BY <1>0, <1>1, WriteFields DEF WriteSts, NextWrite, w
  <2>2. sts' = [sts EXCEPT ![w.color] = w.sts] /\ seen' \subseteq seen
    BY <1>1 DEF WriteSts, w
  <2>3. sts' \in [Colors -> TemplateType]
    BY <2>1, <2>2 DEF Inv, TypeInv, ClusterTyped
  <2>4. ClusterTyped' /\ GreenSeededFromUsableSnapshot' /\ node' \in NodeType
    BY <1>1, <2>2, <2>3 DEF WriteSts, Written, kubelet, Inv, TypeInv, ClusterTyped,
                            GreenSeededFromUsableSnapshot
  <2> QED
    BY <1>1, <2>1, <2>4, WriteTyped DEF WriteSts
<1>2. CASE RefuseSts
  <2>1. PassTyped'
    BY <1>2, ResetTyped DEF RefuseSts
  <2> QED
    BY <1>2, <2>1, Decided DEF RefuseSts
<1>3. CASE WriteCm
  <2>1. todo # <<>> /\ w.mode \in {"standby", "publishing"} /\ cm' = w.mode
    BY <1>0, <1>3, WriteFields DEF WriteCm, NextWrite, w
  <2>2. ClusterTyped' /\ GreenSeededFromUsableSnapshot' /\ node' \in NodeType
    BY <1>3, <2>1 DEF WriteCm, Written, kubelet, Inv, TypeInv, ClusterTyped,
                      GreenSeededFromUsableSnapshot
  <2> QED
    BY <1>3, <2>1, <2>2, WriteTyped DEF WriteCm
<1>4. CASE WriteSvc
  <2>1. todo # <<>> /\ w.color \in Colors /\ svc' = w.color
    BY <1>0, <1>4, WriteFields DEF WriteSvc, NextWrite, w
  <2>2. ClusterTyped' /\ GreenSeededFromUsableSnapshot' /\ node' \in NodeType
    BY <1>4, <2>1 DEF WriteSvc, Written, kubelet, Inv, TypeInv, ClusterTyped,
                      GreenSeededFromUsableSnapshot
  <2> QED
    BY <1>4, <2>1, <2>2, WriteTyped DEF WriteSvc
<1>5. CASE WritePvc
  <2>1. /\ todo # <<>> /\ w.src \in Snaps \cup {"blank"}
        /\ RequireSnapshot => w.src \in usable
        /\ pvc' = IF pvc = "none" THEN w.src ELSE pvc
    BY <1>0, <1>5, WriteFields DEF WritePvc, NextWrite, w
  <2>2. ClusterTyped' /\ GreenSeededFromUsableSnapshot' /\ node' \in NodeType
    BY <1>5, <2>1 DEF WritePvc, Written, kubelet, Inv, TypeInv, ClusterTyped,
                      GreenSeededFromUsableSnapshot
  <2> QED
    BY <1>5, <2>1, <2>2, WriteTyped DEF WritePvc
<1>6. CASE WriteNode
  <2>1. todo # <<>> /\ w.patch \in Patches /\ node' = Merge(node, w.patch)
    BY <1>0, <1>6, WriteFields DEF WriteNode, NextWrite, w
  <2>2. node' \in NodeType
    BY <2>1, MergeNode DEF Inv, TypeInv
  <2>3. ClusterTyped' /\ GreenSeededFromUsableSnapshot'
    BY <1>6 DEF WriteNode, Written, cluster, kubelet, Inv, TypeInv, ClusterTyped,
                GreenSeededFromUsableSnapshot
  <2> QED
    BY <1>6, <2>1, <2>2, <2>3, WriteTyped DEF WriteNode
<1>7. CASE WriteCleanup
  <2>1. sts' \in [Colors -> TemplateType]
    BY <1>7 DEF WriteCleanup, Inv, TypeInv, ClusterTyped, NoSts, TemplateType
  <2>2. ClusterTyped' /\ GreenSeededFromUsableSnapshot' /\ node' \in NodeType
    BY <1>7, <2>1 DEF WriteCleanup, Written, kubelet, Inv, TypeInv, ClusterTyped,
                      GreenSeededFromUsableSnapshot
  <2> QED
    BY <1>7, <2>2, WriteTyped DEF WriteCleanup, NextWrite
<1>8. CASE LoseWrite
  <2>1. /\ ClusterTyped' /\ GreenSeededFromUsableSnapshot' /\ node' \in NodeType /\ cache' \in NodeType
        /\ PassTyped'
    BY <1>8, BlueGreenAssumption
    DEF LoseWrite, Fault, cluster, kubelet, locals, Inv, TypeInv, ClusterTyped, PassTyped,
        GreenSeededFromUsableSnapshot
  <2>2. SeedingWrites' = SeedingWrites
    BY <1>8 DEF LoseWrite, kubelet, SeedingWrites
  <2>3. todo # <<>> => Tail(todo) \in Seq(SeedingWrites)
    BY NextTyped
  <2>4. SubSeq(todo, 3, Len(todo)) \in Seq(SeedingWrites)
    BY DEF Inv, TypeInv
  <2>5. todo' \in Seq(SeedingWrites')
    BY <1>8, <2>2, <2>3, <2>4 DEF LoseWrite, NextWrite
  <2> QED
    BY <2>1, <2>5 DEF Inv, TypeInv
<1> QED
  BY <1>1, <1>2, <1>3, <1>4, <1>5, <1>6, <1>7, <1>8 DEF Write

\* An error or a crash ends the pass.
LEMMA AbortTyped == ASSUME Inv, Abort PROVE Inv'
<1>1. PassTyped'
  BY ResetTyped DEF Abort
<1>2. todo' \in Seq(SeedingWrites')
  BY DEF Abort
<1>3. /\ ClusterTyped' /\ GreenSeededFromUsableSnapshot' /\ node' \in NodeType /\ cache' \in NodeType
  BY BlueGreenAssumption DEF Abort, Fault, cluster, kubelet, Inv, TypeInv, ClusterTyped,
                             GreenSeededFromUsableSnapshot
<1> QED
  BY <1>1, <1>2, <1>3 DEF Inv, TypeInv

-----------------------------------------------------------------------------
(* The environment.                                                        *)

\* The watch, the user and the CSI driver.
LEMMA WorldTyped ==
    ASSUME Inv, WatchLags \/ SetVersion \/ RequestRetry \/ SnapshotReady
    PROVE  Inv'
<1>1. PassTyped'
  BY DEF WatchLags, SetVersion, RequestRetry, Edit, SnapshotReady, running, locals, Inv, TypeInv,
         PassTyped
<1>2. node' \in NodeType /\ cache' \in NodeType
  <2>1. CASE WatchLags
    BY <2>1 DEF WatchLags, Inv, TypeInv
  <2>2. CASE SetVersion
    BY <2>2 DEF SetVersion, Edit, Inv, TypeInv, NodeType
  <2>3. CASE RequestRetry
    BY <2>3 DEF RequestRetry, Edit, Inv, TypeInv, NodeType
  <2>4. CASE SnapshotReady
    BY <2>4 DEF SnapshotReady, Inv, TypeInv
  <2> QED
    BY <2>1, <2>2, <2>3, <2>4
<1>3. ClusterTyped' /\ GreenSeededFromUsableSnapshot' /\ usable \subseteq usable'
  <2>1. CASE WatchLags
    BY <2>1, BlueGreenAssumption DEF WatchLags, Fault, cluster, kubelet, Inv, TypeInv, ClusterTyped,
                GreenSeededFromUsableSnapshot
  <2>2. CASE SetVersion \/ RequestRetry
    BY <2>2, BlueGreenAssumption DEF SetVersion, RequestRetry, Edit, cluster, kubelet, Inv, TypeInv,
                ClusterTyped, GreenSeededFromUsableSnapshot
  <2>3. CASE SnapshotReady
    BY <2>3 DEF SnapshotReady, cluster, Inv, TypeInv, ClusterTyped, GreenSeededFromUsableSnapshot
  <2> QED
    BY <2>1, <2>2, <2>3
<1>4. todo' \in Seq(SeedingWrites')
  <2>1. SeedingWrites \subseteq SeedingWrites' /\ todo' = todo
    BY <1>3 DEF SeedingWrites, WatchLags, SetVersion, RequestRetry, Edit, SnapshotReady, running
  <2> QED
    BY <2>1, SeqMonotone DEF Inv, TypeInv
<1> QED
  BY <1>1, <1>2, <1>3, <1>4 DEF Inv, TypeInv

\* What a step of a pod leaves alone, and what it may do.
LEMMA PodTyped ==
    ASSUME Inv, NEW c \in Colors, Settle(c) \/ PodFails(c) \/ PodEvicted(c)
    PROVE  Inv'
<1>1. PICK p : PodStep(c, p)
  BY DEF Settle, PodCreate, PodBecomesReady, PodBecomesSynced, PodTerminate, PodGone, PodFails,
         PodEvicted
<1>2. pod \in [Colors -> PodType] /\ pod[c] \in PodType /\ sts[c] \in TemplateType
  BY DEF Inv, TypeInv, ClusterTyped
<1>3. pod' \in [Colors -> PodType]
  <2>0. ASSUME NEW q \in PodType, PodStep(c, q) PROVE pod' \in [Colors -> PodType]
    BY <2>0, <1>2 DEF PodStep
  <2>1. CASE PodCreate(c)
    <3>1. Publishes(c) \in BOOLEAN
      BY DEF Publishes
    <3>2. [st |-> "up", term |-> FALSE, ver |-> sts[c].ver, tok |-> sts[c].tok,
           role |-> sts[c].role, pub |-> Publishes(c)] \in PodType
      BY <1>2, <3>1 DEF PodType, TemplateType
    <3> QED
      BY <2>0, <2>1, <3>2 DEF PodCreate
  <2>2. CASE PodBecomesReady(c) \/ PodBecomesSynced(c) \/ PodTerminate(c)
    <3>1. /\ [pod[c] EXCEPT !.st = "ready"] \in PodType
          /\ [pod[c] EXCEPT !.st = "synced"] \in PodType
          /\ [pod[c] EXCEPT !.term = TRUE] \in PodType
      BY <1>2 DEF PodType
    <3> QED
      BY <2>0, <2>2, <3>1 DEF PodBecomesReady, PodBecomesSynced, PodTerminate
  <2>3. CASE PodGone(c)
    BY <2>3, <1>2 DEF PodGone, PodStep, PodType, NoPod
  <2>4. CASE PodFails(c) \/ PodEvicted(c)
    <3>1. Publishes(c) \in BOOLEAN
      BY DEF Publishes
    <3>2. /\ [pod[c] EXCEPT !.st = "up", !.pub = Publishes(c)] \in PodType
          /\ [pod[c] EXCEPT !.st = "ready"] \in PodType
          /\ [pod[c] EXCEPT !.term = TRUE] \in PodType
      BY <1>2, <3>1 DEF PodType
    <3> QED
      BY <2>0, <2>4, <3>2 DEF PodFails, PodEvicted
  <2> QED
    BY <2>1, <2>2, <2>3, <2>4 DEF Settle
<1>4. faults' \in 0..MaxFaults
  BY BlueGreenAssumption DEF Settle, PodCreate, PodBecomesReady, PodBecomesSynced, PodTerminate,
     PodGone, PodFails, PodEvicted, Fault, Inv, TypeInv, ClusterTyped
<1>5. seen' \subseteq Tokens \cup {NoToken, "blue", "green"}
  BY <1>2 DEF Settle, PodCreate, PodBecomesReady, PodBecomesSynced, PodTerminate,
     PodGone, PodFails, PodEvicted, Inv, TypeInv, ClusterTyped, PodType, TemplateType, Colors
<1>6. /\ ClusterTyped' /\ PassTyped' /\ GreenSeededFromUsableSnapshot'
      /\ node' \in NodeType /\ cache' \in NodeType
  BY <1>1, <1>3, <1>4, <1>5 DEF PodStep, cluster, running, locals, Inv, TypeInv, ClusterTyped,
     PassTyped, GreenSeededFromUsableSnapshot
<1>7. todo' \in Seq(SeedingWrites')
  BY <1>1 DEF PodStep, running, SeedingWrites, Inv, TypeInv
<1> QED
  BY <1>6, <1>7 DEF Inv, TypeInv

-----------------------------------------------------------------------------
(* The theorems.                                                           *)

\* The initial state is typed.
LEMMA InitTyped == Init => Inv
<1> SUFFICES ASSUME Init PROVE Inv
  OBVIOUS
<1>1. PICK v \in Versions : node = NewNode(v)
  BY DEF Init
<1>2. node \in NodeType /\ cache \in NodeType /\ PassTyped
  BY <1>1 DEF Init, PassTyped, NodeType, NewNode, Idle, NoRead
<1>3. ClusterTyped /\ GreenSeededFromUsableSnapshot
  BY BlueGreenAssumption
  DEF Init, ClusterTyped, GreenSeededFromUsableSnapshot, NoSts, NoPod, TemplateType, PodType
<1>4. todo \in Seq(SeedingWrites)
  BY DEF Init
<1> QED
  BY <1>2, <1>3, <1>4 DEF Inv, TypeInv

\* Every step keeps the types.
LEMMA NextKeepsTypes == Inv /\ [Next]_vars => Inv'
<1> SUFFICES ASSUME Inv, [Next]_vars PROVE Inv'
  OBVIOUS
<1>1. CASE UNCHANGED vars
  BY <1>1 DEF vars, cluster, kubelet, locals, Inv, TypeInv, ClusterTyped, PassTyped, SeedingWrites,
              GreenSeededFromUsableSnapshot
<1>2. CASE Next
  BY <1>2, DecideTyped, EachWriteTyped, AbortTyped, WorldTyped, PodTyped DEF Next
<1> QED
  BY <1>1, <1>2

\* The writes of todo are typed as TypeOK says.
LEMMA InvTypeOK == Inv => TypeOK
<1> SUFFICES ASSUME Inv PROVE TypeOK
  OBVIOUS
<1>1. ASSUME NEW i \in DOMAIN todo
      PROVE  \/ todo[i].op \in {"node", "node?"} /\ Merge(node, todo[i].patch) \in NodeType
             \/ todo[i] \in [op : {"sts"}, color : Colors, sts : TemplateType]
             \/ todo[i] \in [op : {"cm"}, mode : {"standby", "publishing"}]
             \/ todo[i] \in [op : {"svc"}, color : Colors]
             \/ todo[i] \in [op : {"pvc"}, src : Snaps \cup {"blank"}]
             \/ todo[i].op \in {"cleanup?", "cleanCm?"}
  <2>1. todo[i] \in Writes
    BY <1>1 DEF Inv, TypeInv, SeedingWrites
  <2>2. CASE todo[i] \in [op : {"node", "node?"}, patch : Patches]
    BY <2>2, MergeNode DEF Inv, TypeInv
  <2> QED
    BY <2>1, <2>2 DEF Writes
<1> QED
  BY <1>1 DEF TypeOK, Inv, TypeInv, ClusterTyped, PassTyped

\* Every variable keeps its type, the writes a pass has still to make included, and a
\* running cutover or rollback is at a step of its own: whatever the environment does.
THEOREM TypeCorrect == Spec => []TypeOK
<1>1. Spec => []Inv
  BY InitTyped, NextKeepsTypes, PTL DEF Spec
<1> QED
  BY <1>1, InvTypeOK, PTL

\* create_green_pvc: with requireVolumeSnapshot the green volume comes from a snapshot that
\* was readyToUse, also if the pass that decided on it had a stale node, lost a patch or
\* came after aborted ones.
THEOREM SeededFromUsableSnapshot == Spec => []GreenSeededFromUsableSnapshot
<1>1. Spec => []Inv
  BY InitTyped, NextKeepsTypes, PTL DEF Spec
<1>2. Inv => GreenSeededFromUsableSnapshot
  BY DEF Inv
<1> QED
  BY <1>1, <1>2, PTL
=============================================================================
