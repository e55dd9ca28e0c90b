------------------------ MODULE NodeLifecycleProofs ------------------------
(***************************************************************************)
(* Proofs about NodeLifecycle, for any number of operators, specs, faults  *)
(* and changes of leader: the type invariant, that the archive is checked  *)
(* before a generation is deployed that the network check never refused,   *)
(* and that a live node keeps its volume.                                  *)
(*                                                                         *)
(* As long as no pass has outlived its node, every pass and every stale    *)
(* copy is of the current node and at most as new (PassInv, StaleInv), a   *)
(* pass that deletes found the node deleting, and a generation counts as   *)
(* observed only once it is Cleared: its archive was checked, or the       *)
(* network check has refused it (Observed).                                *)
(***************************************************************************)
EXTENDS NodeLifecycle, TLAPS

\* Uids and generations come from the counters of the user's changes.
Counts ==
    /\ node.uid <= created /\ stale.uid <= created
    /\ node.gen <= created + edits /\ created + edits <= MaxChanges
    /\ node.uid # 0 => node.gen >= 1
    /\ stale.uid # 0 => stale.gen >= 1
    /\ node.deleting => node.uid # 0
    /\ \A o \in Operators : pc[o] # "idle" => view[o].uid # 0 /\ view[o].gen >= 1

\* The generations that a pass may find observed.
Cleared == checked \cup refused

\* Only generations there are count as observed; one that does is cleared, if it runs.
Observed(n) ==
    /\ n.obs <= n.gen
    /\ n.uid # 0 /\ n.obs >= n.gen /\ n.spec.mode = "run" => <<n.uid, n.gen>> \in Cleared

\* A copy c of the node is at most as new as the node.
Follows(c) == c.gen <= node.gen /\ (c.gen = node.gen => c.spec = node.spec)

StaleInv ==
    stale.uid = node.uid /\ stale.uid # 0
      => Follows(stale) /\ (stale.deleting => node.deleting)

\* The steps of a pass behind the archive check, and those of a cleanup.
Behind == {"status", "volume2", "config2", "workload", "report"}
Cleanup == Deletes \cup {"unfinalize"}

PassInv(o) ==
    pc[o] # "idle"
      => /\ view[o].uid = node.uid /\ Follows(view[o])
         /\ pc[o] \in Cleanup => node.deleting
         /\ view[o].spec.mode = "run" /\ (view[o].seen \/ pc[o] \in Behind)
              => <<view[o].uid, view[o].gen>> \in Cleared

Undisturbed ==
    /\ Observed(node) /\ Observed(stale) /\ StaleInv
    /\ \A o \in Operators : PassInv(o)

Inv == TypeOK /\ Counts /\ (~outlived => Undisturbed)

-----------------------------------------------------------------------------
(* Types, and the order of the steps.                                      *)

Views == [uid : 0..MaxChanges, gen : 0..MaxChanges, spec : Specs, seen : BOOLEAN]
Resources == [owner : 0..MaxChanges, ver : {0} \cup {s.ver : s \in Specs}]

\* The constants of the module are typed.
LEMMA ConstantsTyped ==
    /\ NoNode \in Nodes /\ NoNode.uid = 0 /\ NoNode.gen = 0 /\ ~NoNode.deleting
    /\ NoView \in Views /\ NoView.uid = 0
    /\ Absent \in Resources
<1>1. AnySpec \in Specs
  BY NodeAssumption DEF AnySpec
<1>2. 0 \in 0..MaxChanges
  BY NodeAssumption
<1>3. NoNode \in Nodes /\ NoNode.uid = 0 /\ NoNode.gen = 0 /\ ~NoNode.deleting
  BY <1>1, <1>2 DEF NoNode, Nodes
<1>4. (NoNode.obs >= NoNode.gen) \in BOOLEAN
  BY <1>3 DEF Nodes
<1>5. NoView \in Views /\ NoView.uid = 0
  BY <1>1, <1>2, <1>3, <1>4 DEF NoView, Handed, Views, Nodes
<1> QED
  BY <1>2, <1>3, <1>5 DEF Absent, Resources

\* A pass is handed a copy of the node.
LEMMA HandedTyped ==
    ASSUME NEW n \in Nodes
    PROVE  /\ Handed(n) \in Views /\ Handed(n).uid = n.uid /\ Handed(n).gen = n.gen
           /\ Handed(n).spec = n.spec /\ Handed(n).seen = (n.obs >= n.gen)
<1>1. (n.obs >= n.gen) \in BOOLEAN
  BY DEF Nodes
<1> QED
  BY <1>1 DEF Handed, Views, Nodes

\* A run goes from the archive check to the steps behind it, and no other way; a
\* cleanup is not entered from outside.
LEMMA AfterOrder ==
    ASSUME NEW p \in PassSteps, NEW s
    PROVE  /\ After(p, s) \in PassSteps
           /\ After(p, s) \in Cleanup => p \in Cleanup
           /\ s.mode = "run" /\ After(p, s) \in Behind => p \in Behind \cup {"archive"}
BY DEF After, PassSteps, Ensures, Deletes, Cleanup, Behind

\* The type invariant in the terms of this module.
LEMMA Typed ==
    ASSUME TypeOK
    PROVE  /\ node \in Nodes /\ stale \in Nodes
           /\ pc \in [Operators -> PassSteps] /\ view \in [Operators -> Views]
           /\ res \in [Kinds -> Resources]
BY DEF TypeOK, Views, Resources

\* A pass that goes on, or ends.
LEMMA AdvanceCases ==
    ASSUME NEW o \in Operators, Advance(o) \/ EndPass(o)
    PROVE  \/ EndPass(o)
           \/ /\ Advance(o)
              /\ pc' = [pc EXCEPT ![o] = After(pc[o], view[o].spec)]
              /\ view' = view
BY DEF Advance, Goto, EndPass

-----------------------------------------------------------------------------
(* Passes.                                                                 *)

\* The parts of the invariant that a step of pass o concerns.
PassTyped == pc \in [Operators -> PassSteps] /\ view \in [Operators -> Views]
Copies == Observed(stale) /\ StaleInv /\ \A o \in Operators : PassInv(o)

\* A pass that moves on leaves the other copies of the node in order, if the node keeps
\* what the copies are compared with and the archive check comes before what follows it.
LEMMA PassMoves ==
    ASSUME Inv, NEW o \in Operators, pc[o] # "idle", Advance(o) \/ EndPass(o),
           node' \in Nodes, node'.uid = node.uid, node'.gen = node.gen,
           node'.spec = node.spec, node'.deleting = node.deleting,
           UNCHANGED <<stale, created, edits, outlived>>, Cleared \subseteq Cleared',
           Advance(o) /\ pc[o] = "archive" /\ view[o].spec.mode = "run"
             => view[o].seen \/ <<view[o].uid, view[o].gen>> \in Cleared'
    PROVE  PassTyped' /\ Counts' /\ (~outlived => Copies')
<1>1. PassTyped /\ Counts /\ pc[o] \in PassSteps
  BY Typed DEF Inv, PassTyped
<1>2. CASE EndPass(o)
  <2>1. pc' = [pc EXCEPT ![o] = "idle"] /\ view' = [view EXCEPT ![o] = NoView]
    BY <1>2 DEF EndPass
  <2>2. "idle" \in PassSteps
    BY DEF PassSteps
  <2>3. PassTyped'
    BY <1>1, <2>1, <2>2, ConstantsTyped DEF PassTyped
  <2>4. pc'[o] = "idle" /\ \A q \in Operators \ {o} : pc'[q] = pc[q] /\ view'[q] = view[q]
    BY <1>1, <2>1 DEF PassTyped
  <2>5. Counts'
    BY <1>1, <2>4 DEF Counts
  <2>6. ~outlived => Copies'
    BY <2>4 DEF Inv, Undisturbed, Copies, Observed, StaleInv, Follows, PassInv
  <2> QED
    BY <2>3, <2>5, <2>6
<1>3. CASE /\ Advance(o)
           /\ pc' = [pc EXCEPT ![o] = After(pc[o], view[o].spec)]
           /\ view' = view
  <2> DEFINE p == After(pc[o], view[o].spec)
  <2>1. /\ p \in PassSteps
        /\ p \in Cleanup => pc[o] \in Cleanup
        /\ view[o].spec.mode = "run" /\ p \in Behind => pc[o] \in Behind \cup {"archive"}
    BY <1>1, AfterOrder
  <2>2. pc' = [pc EXCEPT ![o] = p]
    BY <1>3
  <2> HIDE DEF p
  <2>3. PassTyped'
    BY <1>1, <1>3, <2>1, <2>2 DEF PassTyped
  <2>4. pc'[o] = p /\ \A q \in Operators \ {o} : pc'[q] = pc[q]
    BY <1>1, <2>2 DEF PassTyped
  <2>5. Counts'
    BY <1>1, <1>3, <2>4 DEF Counts
  <2>6. ASSUME ~outlived PROVE Copies'
    <3>1. Observed(stale)' /\ StaleInv'
      BY <2>6 DEF Inv, Undisturbed, Observed, StaleInv, Follows
    <3>2. ASSUME NEW q \in Operators \ {o} PROVE PassInv(q)'
      BY <1>3, <2>4, <2>6 DEF Inv, Undisturbed, PassInv, Follows
    <3>3. PassInv(o)'
      <4>1. /\ view[o].uid = node.uid /\ Follows(view[o])
            /\ pc[o] \in Cleanup => node.deleting
            /\ view[o].spec.mode = "run" /\ (view[o].seen \/ pc[o] \in Behind)
                 => <<view[o].uid, view[o].gen>> \in Cleared
        BY <2>6 DEF Inv, Undisturbed, PassInv
      <4>2. view[o].spec.mode = "run" /\ (view[o].seen \/ p \in Behind)
              => <<view[o].uid, view[o].gen>> \in Cleared'
        BY <1>3, <2>1, <4>1
      <4> QED
        BY <1>3, <2>1, <2>4, <4>1, <4>2 DEF PassInv, Follows
    <3> QED
      BY <3>1, <3>2, <3>3 DEF Copies
  <2> QED
    BY <2>3, <2>5, <2>6
<1> QED
  BY <1>2, <1>3, AdvanceCases

\* The rest of the invariant for such a step.
LEMMA AssembleInv ==
    ASSUME Inv, PassTyped', Counts', ~outlived => Copies', UNCHANGED <<stale, outlived, cluster>>,
           UNCHANGED retained, UNCHANGED user, node' \in Nodes, faults' \in 0..MaxFaults,
           res' \in [Kinds -> Resources], checked' \subseteq Uids \X (1..MaxChanges),
           refused' \subseteq Uids \X (1..MaxChanges),
           ~outlived => Observed(node)'
    PROVE  Inv'
<1>1. TypeOK'
  BY DEF Inv, TypeOK, PassTyped, Views, Resources, cluster, user
<1>2. ~outlived' => Undisturbed'
  BY DEF Undisturbed, Copies
<1> QED
  BY <1>1, <1>2 DEF Inv

\* A pass starts on the node, or on a stale copy; one of another node outlives its node.
LEMMA BeginPreserves ==
    ASSUME Inv, NEW o \in Operators, NEW n \in Nodes, Begin(o, n),
           n.uid # 0 => n.gen >= 1,
           ~outlived => Observed(n),
           ~outlived /\ n.uid = node.uid /\ n.uid # 0
             => Follows(n) /\ (n.deleting => node.deleting)
    PROVE  Inv'
<1> DEFINE p == IF n.deleting THEN "delWorkload"
                ELSE IF n.fin THEN After("finalizer", n.spec) ELSE "finalizer"
<1>1. /\ pc[o] = "idle" /\ n.uid # 0
      /\ view' = [view EXCEPT ![o] = Handed(n)] /\ pc' = [pc EXCEPT ![o] = p]
      /\ outlived' = (outlived \/ n.uid # node.uid)
      /\ UNCHANGED <<api, stale, cluster, user, faults, checked, refused, retained>>
  BY DEF Begin
<1>2. /\ p \in PassSteps /\ (p \in Cleanup => n.deleting)
      /\ n.spec.mode = "run" => p \notin Behind
  BY DEF After, PassSteps, Ensures, Deletes, Cleanup, Behind
<1> HIDE DEF p
<1>3. TypeOK /\ PassTyped
  BY Typed DEF Inv, PassTyped
<1>4. /\ Handed(n) \in Views /\ Handed(n).uid = n.uid /\ Handed(n).gen = n.gen
      /\ Handed(n).spec = n.spec /\ Handed(n).seen = (n.obs >= n.gen)
  BY HandedTyped
<1>5. PassTyped'
  BY <1>1, <1>2, <1>3, <1>4 DEF PassTyped
<1>6. /\ pc'[o] = p /\ view'[o] = Handed(n)
      /\ \A q \in Operators \ {o} : pc'[q] = pc[q] /\ view'[q] = view[q]
  BY <1>1, <1>3 DEF PassTyped
<1>7. node' = node /\ res' = res /\ created' = created /\ edits' = edits
  BY <1>1 DEF api, user
<1>8. Counts'
  BY <1>1, <1>4, <1>6, <1>7 DEF Inv, Counts
<1>9. outlived' \in BOOLEAN
  BY <1>1
<1>10. TypeOK'
  BY <1>1, <1>3, <1>5, <1>7, <1>9 DEF TypeOK, PassTyped, Views, cluster
<1>11. ASSUME ~outlived' PROVE Undisturbed'
  <2>1. ~outlived /\ n.uid = node.uid
    BY <1>1, <1>11
  <2>2. Observed(node)' /\ Observed(stale)' /\ StaleInv'
    BY <1>1, <1>7, <2>1 DEF Inv, Undisturbed, Observed, StaleInv, Follows, Cleared
  <2>3. ASSUME NEW q \in Operators \ {o} PROVE PassInv(q)'
    BY <1>1, <1>6, <1>7, <2>1 DEF Inv, Undisturbed, PassInv, Follows, Cleared
  <2>4. PassInv(o)'
    <3>1. /\ n.gen <= node.gen /\ (n.gen = node.gen => n.spec = node.spec)
          /\ n.deleting => node.deleting
      BY <1>1, <2>1 DEF Follows
    <3>2. n.obs >= n.gen /\ n.spec.mode = "run" => <<n.uid, n.gen>> \in Cleared
      BY <1>1, <2>1 DEF Observed
    <3>3. Follows(view[o])' /\ view'[o].uid = node'.uid
      BY <1>4, <1>6, <1>7, <2>1, <3>1 DEF Follows
    <3>4. pc'[o] \in Cleanup => node'.deleting
      BY <1>2, <1>6, <1>7, <3>1
    <3>5. view'[o].spec.mode = "run" /\ (view'[o].seen \/ pc'[o] \in Behind)
            => <<view'[o].uid, view'[o].gen>> \in Cleared'
      <4>1. view'[o].seen => n.obs >= n.gen
        BY <1>4, <1>6, Zenon
      <4>2. view'[o].uid = n.uid /\ view'[o].gen = n.gen /\ view'[o].spec = n.spec
        BY <1>4, <1>6
      <4>3. Cleared' = Cleared
        BY <1>1 DEF Cleared
      <4> QED
        BY <1>2, <1>6, <3>2, <4>1, <4>2, <4>3
    <3> QED
      BY <3>3, <3>4, <3>5 DEF PassInv
  <2> QED
    BY <2>2, <2>3, <2>4 DEF Undisturbed
<1> QED
  BY <1>8, <1>10, <1>11 DEF Inv

\* The two copies a pass may be handed meet the conditions of BeginPreserves.
LEMMA BeginsPreserve ==
    ASSUME Inv, NEW o \in Operators, Begin(o, node) \/ Begin(o, stale)
    PROVE  Inv'
<1>1. node \in Nodes /\ stale \in Nodes
  BY DEF Inv, TypeOK
<1>2. node.gen \in Int
  BY <1>1 DEF Nodes
<1>3. CASE Begin(o, node)
  BY <1>1, <1>2, <1>3, BeginPreserves DEF Inv, Counts, Undisturbed, Follows
<1>4. CASE Begin(o, stale)
  BY <1>1, <1>4, BeginPreserves DEF Inv, Counts, Undisturbed, StaleInv
<1> QED
  BY <1>3, <1>4

\* The finalizer is not compared with anything.
LEMMA AddFinalizerPreserves ==
    ASSUME Inv, NEW o \in Operators, AddFinalizer(o)
    PROVE  Inv'
<1>1. /\ pc[o] = "finalizer" /\ (Advance(o) \/ EndPass(o))
      /\ node' = node \/ node' = [node EXCEPT !.fin = TRUE]
      /\ UNCHANGED <<res, stale, cluster, user, faults, history>>
  BY DEF AddFinalizer
<1>2. node \in Nodes /\ res \in [Kinds -> Resources]
  BY Typed DEF Inv
<1>3. /\ node' \in Nodes /\ node'.uid = node.uid /\ node'.gen = node.gen
      /\ node'.spec = node.spec /\ node'.deleting = node.deleting /\ node'.obs = node.obs
  BY <1>1, <1>2 DEF Nodes
<1>4. UNCHANGED <<created, edits, outlived, checked, refused, retained>>
  BY <1>1 DEF user, history
<1>5. PassTyped' /\ Counts' /\ (~outlived => Copies')
  BY <1>1, <1>3, <1>4, PassMoves DEF Cleared
<1>6. ~outlived => Observed(node)'
  BY <1>3, <1>4 DEF Inv, Undisturbed, Observed, Cleared
<1>7. /\ faults' \in 0..MaxFaults /\ checked' \subseteq Uids \X (1..MaxChanges)
      /\ refused' \subseteq Uids \X (1..MaxChanges)
  BY <1>1, <1>4 DEF Inv, TypeOK
<1> QED
  BY <1>1, <1>2, <1>3, <1>4, <1>5, <1>6, <1>7, AssembleInv

\* The kind a step is about.
LEMMA KindTyped == \A p \in Ensures \cup Deletes : KindOf[p] \in Kinds
BY DEF KindOf, Ensures, Deletes, Kinds

\* Steps of a pass that touch resources only, or nothing: ensure, delete, and failures.
LEMMA ResourceStepPreserves ==
    ASSUME Inv, NEW o \in Operators, pc[o] \notin {"idle", "archive"}, Advance(o) \/ EndPass(o),
           res' \in [Kinds -> Resources], faults' \in 0..MaxFaults,
           UNCHANGED <<node, stale, cluster, user, history>>
    PROVE  Inv'
<1>1. node \in Nodes
  BY Typed DEF Inv
<1>2. UNCHANGED <<created, edits, outlived, checked, refused, retained>>
  BY DEF user, history
<1>3. PassTyped' /\ Counts' /\ (~outlived => Copies')
  BY <1>1, <1>2, PassMoves DEF Cleared
<1>4. ~outlived => Observed(node)'
  BY <1>2 DEF Inv, Undisturbed, Observed, Cleared
<1>5. /\ checked' \subseteq Uids \X (1..MaxChanges)
      /\ refused' \subseteq Uids \X (1..MaxChanges)
  BY <1>2 DEF Inv, TypeOK
<1> QED
  BY <1>1, <1>2, <1>3, <1>4, <1>5, AssembleInv

\* What the builders return is typed.
LEMMA BuiltTyped ==
    ASSUME NEW k \in Kinds, NEW n \in Views
    PROVE  Built(k, n) \in Resources /\ Built(k, n).owner = n.uid
<1>1. n.spec \in Specs /\ n.uid \in 0..MaxChanges
  BY DEF Views
<1> DEFINE v == IF k = "config" \/ (k = "workload" /\ n.spec.mode # "suspended")
                THEN n.spec.ver ELSE 0
<1>2. v \in {0} \cup {s.ver : s \in Specs}
  BY <1>1
<1>3. Built(k, n) = [owner |-> n.uid, ver |-> v]
  BY DEF Built
<1> HIDE DEF v
<1> QED
  BY <1>1, <1>2, <1>3 DEF Resources

\* What a step of a pass does to the resources.
LEMMA EnsurePreserves ==
    ASSUME Inv, NEW o \in Operators, Ensure(o)
    PROVE  Inv'
<1>1. /\ pc[o] \in Ensures /\ (Advance(o) \/ EndPass(o))
      /\ res' = res \/ res' = [res EXCEPT ![KindOf[pc[o]]] = Built(KindOf[pc[o]], view[o])]
      /\ UNCHANGED <<node, stale, cluster, user, faults, history>>
  BY DEF Ensure
<1>2. pc[o] \notin {"idle", "archive"} /\ KindOf[pc[o]] \in Kinds
  BY <1>1, KindTyped DEF Ensures
<1>3. res \in [Kinds -> Resources] /\ view[o] \in Views /\ faults \in 0..MaxFaults
  BY Typed DEF Inv, TypeOK
<1>4. Built(KindOf[pc[o]], view[o]) \in Resources
  BY <1>2, <1>3, BuiltTyped
<1>5. res' \in [Kinds -> Resources]
  BY <1>1, <1>2, <1>3, <1>4
<1> QED
  BY <1>1, <1>2, <1>3, <1>5, ResourceStepPreserves

\* A delete, also one whose error is ignored.
LEMMA DeletePreserves ==
    ASSUME Inv, NEW o \in Operators, Delete(o) \/ DeleteFails(o)
    PROVE  Inv'
<1>1. /\ pc[o] \in Deletes /\ Advance(o)
      /\ res' = res \/ res' = [res EXCEPT ![KindOf[pc[o]]] = Absent]
      /\ faults' = faults \/ (faults < MaxFaults /\ faults' = faults + 1)
      /\ UNCHANGED <<node, stale, cluster, user, history>>
  BY DEF Delete, DeleteFails, api
<1>2. pc[o] \notin {"idle", "archive"} /\ KindOf[pc[o]] \in Kinds
  BY <1>1, KindTyped DEF Deletes
<1>3. res \in [Kinds -> Resources] /\ faults \in 0..MaxFaults
  BY Typed DEF Inv, TypeOK
<1>4. res' \in [Kinds -> Resources]
  BY <1>1, <1>2, <1>3, ConstantsTyped
<1>5. faults' \in 0..MaxFaults
  BY <1>1, <1>3, NodeAssumption
<1> QED
  BY <1>1, <1>2, <1>4, <1>5, ResourceStepPreserves

\* A generation joins those whose archive was reachable.
LEMMA CheckArchivePreserves ==
    ASSUME Inv, NEW o \in Operators, CheckArchive(o)
    PROVE  Inv'
<1> DEFINE c == <<view[o].uid, view[o].gen>>
<1>1. /\ pc[o] = "archive" /\ (Advance(o) \/ EndPass(o))
      /\ checked' = checked \/ checked' = checked \cup {c}
      /\ UNCHANGED <<api, stale, cluster, user, faults, refused, retained, outlived>>
  BY DEF CheckArchive
<1>2. /\ node \in Nodes /\ res \in [Kinds -> Resources] /\ view[o] \in Views
      /\ faults \in 0..MaxFaults /\ checked \subseteq Uids \X (1..MaxChanges)
      /\ refused \subseteq Uids \X (1..MaxChanges)
  BY Typed DEF Inv, TypeOK
<1>3. /\ UNCHANGED <<node, res, created, edits>>
  BY <1>1 DEF api, user
<1>4. c \in Uids \X (1..MaxChanges)
  <2>1. view[o].uid # 0 /\ view[o].gen >= 1
    BY <1>1 DEF Inv, Counts
  <2> QED
    BY <1>2, <2>1, NodeAssumption DEF Views, Uids
<1>5. EndPass(o) \/ view[o].seen \/ c \in Cleared'
  BY DEF CheckArchive, Cleared
<1>6. PassTyped' /\ Counts' /\ (~outlived => Copies')
  <2>1. CASE EndPass(o)
    <3>1. pc' = [pc EXCEPT ![o] = "idle"]
      BY <2>1 DEF EndPass
    <3>2. ~Advance(o) \/ Advance(o)
      OBVIOUS
    <3>3. Advance(o) /\ pc[o] = "archive" /\ view[o].spec.mode = "run" => FALSE
      BY <1>1, <3>1, <1>2, Typed DEF Advance, Goto, After, Inv
    <3> QED
      BY <1>1, <1>2, <1>3, <3>3, PassMoves DEF Cleared
  <2>2. CASE view[o].seen \/ c \in Cleared'
    BY <1>1, <1>2, <1>3, <2>2, PassMoves DEF Cleared
  <2> QED
    BY <1>5, <2>1, <2>2
<1>7. ~outlived => Observed(node)'
  BY <1>1, <1>3 DEF Inv, Undisturbed, Observed, Cleared
<1>8. /\ checked' \subseteq Uids \X (1..MaxChanges)
      /\ refused' \subseteq Uids \X (1..MaxChanges)
  BY <1>1, <1>2, <1>4
<1> QED
  BY <1>1, <1>2, <1>3, <1>6, <1>7, <1>8, AssembleInv

\* The generation that the network check refuses counts as cleared from then on.
LEMMA RefuseNetworkPreserves ==
    ASSUME Inv, NEW o \in Operators, RefuseNetwork(o)
    PROVE  Inv'
<1> DEFINE c == <<view[o].uid, view[o].gen>>
<1>1. /\ pc[o] = "volume" /\ faults < MaxFaults /\ faults' = faults + 1
      /\ pc' = [pc EXCEPT ![o] = "report"] /\ view' = view
      /\ refused' = refused \cup {c}
      /\ UNCHANGED <<api, stale, cluster, user, checked, retained, outlived>>
  BY DEF RefuseNetwork, Goto
<1>2. /\ node \in Nodes /\ res \in [Kinds -> Resources] /\ view[o] \in Views
      /\ faults \in 0..MaxFaults /\ checked \subseteq Uids \X (1..MaxChanges)
      /\ refused \subseteq Uids \X (1..MaxChanges) /\ PassTyped /\ Counts
  BY Typed DEF Inv, TypeOK, PassTyped
<1>3. UNCHANGED <<node, res, created, edits>>
  BY <1>1 DEF api, user
<1>4. c \in Uids \X (1..MaxChanges)
  <2>1. view[o].uid # 0 /\ view[o].gen >= 1
    BY <1>1, <1>2 DEF Counts
  <2> QED
    BY <1>2, <2>1, NodeAssumption DEF Views, Uids
<1>5. Cleared \subseteq Cleared' /\ c \in Cleared'
  BY <1>1 DEF Cleared
<1>6. pc'[o] = "report" /\ \A q \in Operators \ {o} : pc'[q] = pc[q]
  BY <1>1, <1>2 DEF PassTyped
<1>7. PassTyped'
  <2>1. "report" \in PassSteps
    BY DEF PassSteps
  <2> QED
    BY <1>1, <1>2, <2>1 DEF PassTyped
<1>8. Counts'
  BY <1>1, <1>2, <1>3, <1>6 DEF Counts
<1>9. ASSUME ~outlived PROVE Copies' /\ Observed(node)'
  <2>1. Observed(node)' /\ Observed(stale)' /\ StaleInv'
    BY <1>1, <1>3, <1>5, <1>9 DEF Inv, Undisturbed, Observed, StaleInv, Follows
  <2>2. ASSUME NEW q \in Operators \ {o} PROVE PassInv(q)'
    BY <1>1, <1>3, <1>5, <1>6, <1>9 DEF Inv, Undisturbed, PassInv, Follows
  <2>3. PassInv(o)'
    <3>1. view[o].uid = node.uid /\ Follows(view[o])
      BY <1>1, <1>9 DEF Inv, Undisturbed, PassInv
    <3>2. pc'[o] \notin Cleanup
      BY <1>6 DEF Cleanup, Deletes
    <3> QED
      BY <1>1, <1>3, <1>5, <3>1, <3>2 DEF PassInv, Follows
  <2> QED
    BY <2>1, <2>2, <2>3 DEF Copies
<1>10. faults' \in 0..MaxFaults
  BY <1>1, <1>2, NodeAssumption
<1>11. checked' \subseteq Uids \X (1..MaxChanges) /\ refused' \subseteq Uids \X (1..MaxChanges)
  BY <1>1, <1>2, <1>4
<1> QED
  BY <1>1, <1>2, <1>3, <1>7, <1>8, <1>9, <1>10, <1>11, AssembleInv

\* The generation that is written is cleared; a newer one stays unobserved.
LEMMA WriteStatusPreserves ==
    ASSUME Inv, NEW o \in Operators, WriteStatus(o)
    PROVE  Inv'
<1>1. /\ pc[o] \in {"status", "report"} /\ (Advance(o) \/ EndPass(o))
      /\ node' = node \/ node' = [node EXCEPT !.obs = view[o].gen]
      /\ UNCHANGED <<res, stale, cluster, user, faults, history>>
  BY DEF WriteStatus
<1>2. /\ node \in Nodes /\ res \in [Kinds -> Resources] /\ view[o] \in Views
      /\ faults \in 0..MaxFaults /\ checked \subseteq Uids \X (1..MaxChanges)
      /\ refused \subseteq Uids \X (1..MaxChanges)
  BY Typed DEF Inv, TypeOK
<1>3. /\ node' \in Nodes /\ node'.uid = node.uid /\ node'.gen = node.gen
      /\ node'.spec = node.spec /\ node'.deleting = node.deleting
      /\ node'.obs = node.obs \/ node'.obs = view[o].gen
  BY <1>1, <1>2 DEF Nodes, Views
<1>4. UNCHANGED <<created, edits, outlived, checked, refused, retained>>
  BY <1>1 DEF user, history
<1>5. PassTyped' /\ Counts' /\ (~outlived => Copies')
  BY <1>1, <1>3, <1>4, PassMoves DEF Cleared
<1>6. ASSUME ~outlived PROVE Observed(node)'
  <2>1. /\ view[o].uid = node.uid /\ view[o].gen <= node.gen
        /\ view[o].gen = node.gen => view[o].spec = node.spec
        /\ view[o].spec.mode = "run" => <<view[o].uid, view[o].gen>> \in Cleared
    BY <1>1, <1>6 DEF Inv, Undisturbed, PassInv, Follows, Behind
  <2>2. node.gen \in Int /\ view[o].gen \in Int
    BY <1>2 DEF Nodes, Views
  <2>3. CASE node'.obs = node.obs
    BY <1>3, <1>4, <1>6, <2>3 DEF Inv, Undisturbed, Observed, Cleared
  <2>4. CASE node'.obs = view[o].gen
    <3>1. node'.obs >= node'.gen => view[o].gen = node.gen
      BY <1>3, <2>1, <2>2, <2>4
    <3> QED
      BY <1>3, <1>4, <2>1, <2>4, <3>1 DEF Observed, Cleared
  <2> QED
    BY <1>3, <2>3, <2>4
<1>7. /\ faults' \in 0..MaxFaults /\ checked' \subseteq Uids \X (1..MaxChanges)
      /\ refused' \subseteq Uids \X (1..MaxChanges)
  BY <1>1, <1>2, <1>4
<1>8. res' \in [Kinds -> Resources]
  BY <1>1, <1>2
<1> QED
  BY <1>1, <1>3, <1>4, <1>5, <1>6, <1>7, <1>8, AssembleInv

\* A pass that ends in an error, or with its operator.
LEMMA FailPreserves ==
    ASSUME Inv, NEW o \in Operators, Fail(o)
    PROVE  Inv'
<1>1. /\ pc[o] # "idle" /\ EndPass(o) /\ faults < MaxFaults /\ faults' = faults + 1
      /\ UNCHANGED <<api, stale, cluster, user, history>>
  BY DEF Fail
<1>2. /\ node \in Nodes /\ res \in [Kinds -> Resources]
      /\ faults \in 0..MaxFaults /\ checked \subseteq Uids \X (1..MaxChanges)
      /\ refused \subseteq Uids \X (1..MaxChanges)
      /\ pc \in [Operators -> PassSteps]
  BY Typed DEF Inv, TypeOK
<1>3. UNCHANGED <<node, res, created, edits, outlived, checked, refused, retained>>
  BY <1>1 DEF api, user, history
<1>4. Advance(o) /\ pc[o] = "archive" => FALSE
  <2>1. pc' = [pc EXCEPT ![o] = "idle"]
    BY <1>1 DEF EndPass
  <2> QED
    BY <1>2, <2>1 DEF Advance, Goto, After
<1>5. PassTyped' /\ Counts' /\ (~outlived => Copies')
  BY <1>1, <1>2, <1>3, <1>4, PassMoves DEF Cleared
<1>6. ~outlived => Observed(node)'
  BY <1>3 DEF Inv, Undisturbed, Observed, Cleared
<1>7. faults' \in 0..MaxFaults
  BY <1>1, <1>2, NodeAssumption
<1> QED
  BY <1>1, <1>2, <1>3, <1>5, <1>6, <1>7, AssembleInv

-----------------------------------------------------------------------------
(* The removal of the node.                                                *)

\* A node that goes leaves no pass behind, or some pass has outlived it.
LEMMA RemovedPreserves ==
    ASSUME Inv, Removed, node.uid # 0, PassTyped', outlived' \in BOOLEAN,
           \A o \in Operators : pc'[o] # "idle" => pc[o] # "idle" /\ view'[o] = view[o],
           ~outlived' => ~outlived /\ \A o \in Operators : pc'[o] = "idle",
           UNCHANGED <<res, cluster, user, faults, checked, refused>>
    PROVE  Inv'
<1>1. node' = NoNode /\ stale' = node
  BY DEF Removed, Change
<1>2. TypeOK /\ Counts /\ node \in Nodes
  BY DEF Inv, TypeOK
<1>3. node.uid \in Uids
  BY <1>2, NodeAssumption DEF Nodes, Uids
<1>4. retained' \subseteq Uids
  <2>1. retained' = retained \/ retained' = retained \cup {node.uid}
    BY DEF Removed
  <2> QED
    BY <1>2, <1>3, <2>1 DEF TypeOK
<1>5. UNCHANGED <<created, edits, checked, refused, faults>>
  BY DEF user
<1>6. TypeOK'
  BY <1>1, <1>2, <1>4, <1>5, ConstantsTyped DEF TypeOK, PassTyped, Views, cluster
<1>7. Counts'
  BY <1>1, <1>2, <1>5, ConstantsTyped DEF Counts, TypeOK
<1>8. ASSUME ~outlived' PROVE Undisturbed'
  <2>1. Observed(node)
    BY <1>8 DEF Inv, Undisturbed
  <2>2. Observed(stale)'
    BY <1>1, <1>5, <2>1 DEF Observed, Cleared
  <2>3. Observed(node)'
    BY <1>1, ConstantsTyped DEF Observed, NoNode
  <2>4. StaleInv'
    BY <1>1, ConstantsTyped DEF StaleInv
  <2>5. \A o \in Operators : PassInv(o)'
    BY <1>8 DEF PassInv
  <2> QED
    BY <2>2, <2>3, <2>4, <2>5 DEF Undisturbed
<1> QED
  BY <1>6, <1>7, <1>8 DEF Inv

\* The finalizer goes: of a node that is deleted, or of the live one that took its name.
LEMMA RemoveFinalizerPreserves ==
    ASSUME Inv, NEW o \in Operators, RemoveFinalizer(o)
    PROVE  Inv'
<1>1. /\ pc[o] = "unfinalize" /\ Advance(o)
      /\ UNCHANGED <<res, cluster, user, faults, checked, refused>>
  BY DEF RemoveFinalizer
<1>2. /\ TypeOK /\ Counts /\ PassTyped /\ node \in Nodes /\ res \in [Kinds -> Resources]
  BY Typed DEF Inv, PassTyped
<1>3. UNCHANGED <<created, edits>>
  BY <1>1 DEF user
<1>4. CASE node.deleting
  <2>1. Removed /\ outlived' = (outlived \/ InUse(o))
    BY <1>4 DEF RemoveFinalizer
  <2>2. pc' = [pc EXCEPT ![o] = "idle"] /\ view' = [view EXCEPT ![o] = NoView]
    BY <1>1 DEF Advance, After, EndPass
  <2>3. pc'[o] = "idle" /\ \A q \in Operators \ {o} : pc'[q] = pc[q] /\ view'[q] = view[q]
    BY <1>2, <2>2 DEF PassTyped
  <2>4. PassTyped'
    <3>1. "idle" \in PassSteps
      BY DEF PassSteps
    <3> QED
      BY <1>2, <2>2, <3>1, ConstantsTyped DEF PassTyped
  <2>5. node.uid # 0
    BY <1>2, <1>4 DEF Counts
  <2>6. ASSUME ~outlived' PROVE ~outlived /\ \A q \in Operators : pc'[q] = "idle"
    <3>1. ~outlived /\ ~InUse(o)
      BY <2>1, <2>6
    <3>2. ASSUME NEW q \in Operators \ {o} PROVE pc[q] = "idle"
      BY <3>1 DEF InUse, Inv, Undisturbed, PassInv
    <3> QED
      BY <2>3, <3>1, <3>2
  <2>7. outlived' \in BOOLEAN
    BY <2>1
  <2> QED
    BY <1>1, <2>1, <2>3, <2>4, <2>5, <2>6, <2>7, RemovedPreserves
<1>5. CASE ~node.deleting
  <2>1. node' = [node EXCEPT !.fin = FALSE] /\ UNCHANGED <<stale, retained, outlived>>
    BY <1>5 DEF RemoveFinalizer
  <2>2. /\ node' \in Nodes /\ node'.uid = node.uid /\ node'.gen = node.gen
        /\ node'.spec = node.spec /\ node'.deleting = node.deleting /\ node'.obs = node.obs
    BY <1>2, <2>1 DEF Nodes
  <2>3. PassTyped' /\ Counts' /\ (~outlived => Copies')
    BY <1>1, <1>3, <2>1, <2>2, PassMoves DEF Cleared
  <2>4. ~outlived => Observed(node)'
    BY <1>1, <2>2 DEF Inv, Undisturbed, Observed, Cleared
  <2>5. /\ faults' \in 0..MaxFaults /\ checked' \subseteq Uids \X (1..MaxChanges)
        /\ refused' \subseteq Uids \X (1..MaxChanges)
    BY <1>1, <1>2 DEF TypeOK
  <2> QED
    BY <1>1, <1>2, <1>3, <2>1, <2>2, <2>3, <2>4, <2>5, AssembleInv
<1> QED
  BY <1>4, <1>5

-----------------------------------------------------------------------------
(* The user.                                                               *)

\* A new node has an uid no copy and no pass has; unless one outlived its node, none
\* is under way.
LEMMA UserCreatesPreserves ==
    ASSUME Inv, UserCreates
    PROVE  Inv'
<1>1. /\ node.uid = 0 /\ created + edits < MaxChanges /\ created' = created + 1
      /\ UNCHANGED <<res, stale, cluster, passes, edits, faults, history>>
  BY DEF UserCreates
<1>2. PICK s \in Specs : node' = [NoNode EXCEPT !.uid = created', !.gen = 1, !.spec = s]
  BY DEF UserCreates
<1>3. TypeOK /\ Counts /\ stale \in Nodes
  BY DEF Inv, TypeOK
<1>4. /\ created \in Nat /\ edits \in Nat /\ MaxChanges \in Nat
      /\ created' \in 0..MaxChanges /\ 1 \in 0..MaxChanges
  BY <1>1, <1>3, NodeAssumption DEF TypeOK
<1>5. /\ node' \in Nodes /\ node'.uid = created + 1 /\ node'.gen = 1 /\ node'.obs = 0
      /\ ~node'.deleting
  BY <1>1, <1>2, <1>4, ConstantsTyped DEF NoNode, Nodes
<1>6. UNCHANGED <<pc, view, checked, refused, retained, outlived>>
  BY <1>1 DEF passes, history
<1>7. TypeOK'
  BY <1>1, <1>3, <1>4, <1>5, <1>6 DEF TypeOK, cluster
<1>8. Counts'
  BY <1>1, <1>3, <1>4, <1>5, <1>6 DEF Counts, Nodes
<1>9. ASSUME ~outlived' PROVE Undisturbed'
  <2>1. Undisturbed
    BY <1>6, <1>9 DEF Inv
  <2>2. Observed(node)' /\ Observed(stale)'
    BY <1>1, <1>5, <1>6, <2>1 DEF Undisturbed, Observed, Cleared
  <2>3. StaleInv'
    BY <1>1, <1>3, <1>4, <1>5 DEF StaleInv, Counts, Nodes
  <2>4. ASSUME NEW o \in Operators PROVE PassInv(o)'
    BY <1>1, <1>3, <1>6, <2>1 DEF Undisturbed, PassInv, Counts
  <2> QED
    BY <2>2, <2>3, <2>4 DEF Undisturbed
<1> QED
  BY <1>7, <1>8, <1>9 DEF Inv

\* An edit makes every copy older.
LEMMA UserEditsPreserves ==
    ASSUME Inv, UserEdits
    PROVE  Inv'
<1>1. /\ Live(node) /\ created + edits < MaxChanges /\ edits' = edits + 1 /\ stale' = node
      /\ UNCHANGED <<res, cluster, passes, created, faults, history>>
  BY DEF UserEdits, Change
<1>2. PICK s \in Specs : node' = [node EXCEPT !.gen = @ + 1, !.spec = s]
  BY DEF UserEdits, Change
<1>3. TypeOK /\ Counts /\ node \in Nodes
  BY DEF Inv, TypeOK
<1>4. /\ created \in Nat /\ edits \in Nat /\ MaxChanges \in Nat /\ edits' \in 0..MaxChanges
      /\ node.gen \in Nat /\ node.gen + 1 \in 0..MaxChanges
  BY <1>1, <1>3, NodeAssumption DEF TypeOK, Counts, Nodes
<1>5. /\ node' \in Nodes /\ node'.uid = node.uid /\ node'.gen = node.gen + 1
      /\ node'.obs = node.obs /\ node'.deleting = node.deleting
  BY <1>2, <1>3, <1>4 DEF Nodes
<1>6. UNCHANGED <<pc, view, checked, refused, retained, outlived>>
  BY <1>1 DEF passes, history
<1>7. TypeOK'
  BY <1>1, <1>3, <1>4, <1>5, <1>6 DEF TypeOK, cluster
<1>8. Counts'
  BY <1>1, <1>3, <1>4, <1>5, <1>6 DEF Counts
<1>9. ASSUME ~outlived' PROVE Undisturbed'
  <2>1. Undisturbed
    BY <1>6, <1>9 DEF Inv
  <2>2. node.obs \in Nat
    BY <1>3 DEF Nodes
  <2>3. Observed(node)'
    BY <1>4, <1>5, <2>1, <2>2 DEF Undisturbed, Observed
  <2>4. Observed(stale)'
    BY <1>1, <1>6, <2>1 DEF Undisturbed, Observed, Cleared
  <2>5. StaleInv'
    BY <1>1, <1>4, <1>5 DEF StaleInv, Follows, Live
  <2>6. ASSUME NEW o \in Operators PROVE PassInv(o)'
    <3>1. view[o].gen \in Nat
      BY <1>3, Typed DEF Views
    <3> QED
      BY <1>4, <1>5, <1>6, <2>1, <3>1 DEF Undisturbed, PassInv, Follows, Cleared
  <2> QED
    BY <2>3, <2>4, <2>5, <2>6 DEF Undisturbed
<1> QED
  BY <1>7, <1>8, <1>9 DEF Inv

\* A deletion waits for the finalizer, or removes the node at once.
LEMMA UserDeletesPreserves ==
    ASSUME Inv, UserDeletes
    PROVE  Inv'
<1>1. Live(node) /\ UNCHANGED <<res, cluster, passes, user, faults, checked, refused>>
  BY DEF UserDeletes
<1>2. TypeOK /\ Counts /\ PassTyped /\ node \in Nodes
  BY Typed DEF Inv, PassTyped
<1>3. UNCHANGED <<pc, view, created, edits>>
  BY <1>1 DEF passes, user
<1>4. CASE node.fin
  <2>1. /\ node' = [node EXCEPT !.deleting = TRUE] /\ stale' = node
        /\ UNCHANGED <<retained, outlived>>
    BY <1>4 DEF UserDeletes, Change
  <2>2. /\ node' \in Nodes /\ node'.uid = node.uid /\ node'.gen = node.gen
        /\ node'.obs = node.obs /\ node'.spec = node.spec /\ node'.deleting
    BY <1>2, <2>1 DEF Nodes
  <2>3. TypeOK'
    BY <1>1, <1>2, <1>3, <2>1, <2>2 DEF TypeOK, cluster
  <2>4. Counts'
    BY <1>1, <1>2, <1>3, <2>1, <2>2 DEF Counts, Live
  <2>5. ASSUME ~outlived' PROVE Undisturbed'
    <3>1. Undisturbed
      BY <2>1, <2>5 DEF Inv
    <3>2. Observed(node)' /\ Observed(stale)'
      BY <1>1, <2>1, <2>2, <3>1 DEF Undisturbed, Observed, Cleared
    <3>3. node.gen \in Int
      BY <1>2 DEF Nodes
    <3>4. StaleInv'
      BY <2>1, <2>2, <3>3 DEF StaleInv, Follows
    <3>5. ASSUME NEW o \in Operators PROVE PassInv(o)'
      BY <1>1, <1>3, <2>2, <3>1 DEF Undisturbed, PassInv, Follows, Cleared
    <3> QED
      BY <3>2, <3>4, <3>5 DEF Undisturbed
  <2> QED
    BY <2>3, <2>4, <2>5 DEF Inv
<1>5. CASE ~node.fin
  <2>1. /\ Removed
        /\ outlived' = (outlived \/ \E o \in Operators :
                                       pc[o] # "idle" /\ view[o].uid = node.uid)
    BY <1>5 DEF UserDeletes
  <2>2. ASSUME ~outlived' PROVE ~outlived /\ \A o \in Operators : pc'[o] = "idle"
    BY <1>3, <2>1, <2>2 DEF Inv, Undisturbed, PassInv
  <2>3. PassTyped' /\ node.uid # 0 /\ outlived' \in BOOLEAN
    BY <1>1, <1>2, <1>3, <2>1 DEF PassTyped, Live
  <2> QED
    BY <1>1, <1>3, <2>1, <2>2, <2>3, RemovedPreserves
<1> QED
  BY <1>4, <1>5

-----------------------------------------------------------------------------
(* The invariant, and what follows from it.                                *)

\* Steps that leave the node and the passes alone: watches, leadership, outages and the
\* garbage collector.
LEMMA OtherStepPreserves ==
    ASSUME Inv, stale' = stale \/ stale' = NoNode, res' \in [Kinds -> Resources],
           leader' \in Operators, frozen' \in BOOLEAN, archive' \in BOOLEAN,
           faults' \in 0..MaxFaults, UNCHANGED <<node, passes, user, history>>
    PROVE  Inv'
<1>1. TypeOK /\ Counts
  BY DEF Inv
<1>2. UNCHANGED <<pc, view, created, edits, checked, refused, retained, outlived>>
  BY DEF passes, user, history
<1>3. TypeOK'
  BY <1>1, <1>2, ConstantsTyped DEF TypeOK, Resources
<1>4. Counts'
  BY <1>1, <1>2, ConstantsTyped DEF Counts, TypeOK
<1>5. ASSUME ~outlived' PROVE Undisturbed'
  <2>1. Undisturbed
    BY <1>2, <1>5 DEF Inv
  <2>2. Observed(node)' /\ \A o \in Operators : PassInv(o)'
    BY <1>2, <2>1 DEF Undisturbed, Observed, PassInv, Follows, Cleared
  <2>3. CASE stale' = stale
    BY <1>2, <2>1, <2>2, <2>3 DEF Undisturbed, Observed, StaleInv, Follows, Cleared
  <2>4. CASE stale' = NoNode
    <3>1. Observed(stale)' /\ StaleInv'
      BY <2>4, ConstantsTyped DEF Observed, StaleInv, NoNode
    <3> QED
      BY <2>2, <3>1 DEF Undisturbed
  <2> QED
    BY <2>3, <2>4
<1> QED
  BY <1>3, <1>4, <1>5 DEF Inv

\* The faults of the environment, and its recoveries.
LEMMA EnvironmentPreserves ==
    ASSUME Inv, WatchCatchesUp \/ Takeover \/ Outage \/ Recovery \/ \E k \in Kinds : Collect(k)
    PROVE  Inv'
<1>1. /\ res \in [Kinds -> Resources] /\ leader \in Operators /\ frozen \in BOOLEAN
      /\ archive \in BOOLEAN /\ faults \in 0..MaxFaults
  BY Typed DEF Inv, TypeOK
<1>2. faults < MaxFaults => faults + 1 \in 0..MaxFaults
  BY <1>1, NodeAssumption
<1>3. CASE WatchCatchesUp
  BY <1>1, <1>3, OtherStepPreserves DEF WatchCatchesUp, api, cluster
<1>4. CASE Takeover
  BY <1>1, <1>2, <1>4, OtherStepPreserves DEF Takeover, api
<1>5. CASE Outage
  BY <1>1, <1>2, <1>5, OtherStepPreserves DEF Outage, api
<1>6. CASE Recovery
  BY <1>1, <1>6, OtherStepPreserves DEF Recovery, api
<1>7. CASE \E k \in Kinds : Collect(k)
  <2>1. PICK k \in Kinds : Collect(k)
    BY <1>7
  <2>2. res' \in [Kinds -> Resources]
    BY <1>1, <2>1, ConstantsTyped DEF Collect
  <2> QED
    BY <1>1, <2>1, <2>2, OtherStepPreserves DEF Collect, cluster
<1> QED
  BY <1>3, <1>4, <1>5, <1>6, <1>7

\* The invariant holds before the first node is created.
LEMMA InitInv == Init => Inv
<1> SUFFICES ASSUME Init PROVE Inv
  OBVIOUS
<1>1. "idle" \in PassSteps
  BY DEF PassSteps
<1>2. leader \in Operators
  BY NodeAssumption DEF Init
<1>3. TypeOK
  <2>1. res \in [Kinds -> Resources]
    BY ConstantsTyped DEF Init
  <2>2. pc \in [Operators -> PassSteps] /\ view \in [Operators -> Views]
    BY <1>1, ConstantsTyped DEF Init
  <2>3. node \in Nodes /\ stale \in Nodes
    BY ConstantsTyped DEF Init
  <2>4. /\ created \in 0..MaxChanges /\ edits \in 0..MaxChanges /\ faults \in 0..MaxFaults
        /\ checked = {} /\ refused = {} /\ retained = {}
    BY NodeAssumption, SMT DEF Init
  <2>5. frozen \in BOOLEAN /\ archive \in BOOLEAN /\ outlived \in BOOLEAN
    BY Zenon DEF Init
  <2> QED
    BY <1>2, <2>1, <2>2, <2>3, <2>4, <2>5 DEF TypeOK, Views, Resources
<1>4. Counts
  BY ConstantsTyped, NodeAssumption DEF Init, Counts
<1>5. Undisturbed
  BY ConstantsTyped DEF Init, Undisturbed, Observed, StaleInv, PassInv, NoNode
<1> QED
  BY <1>3, <1>4, <1>5 DEF Inv

\* Every action keeps the invariant.
LEMMA NextInv == Inv /\ [Next]_vars => Inv'
<1> SUFFICES ASSUME Inv, [Next]_vars PROVE Inv'
  OBVIOUS
<1>1. CASE Next
  <2>1. ASSUME NEW o \in Operators,
               \/ Begin(o, node) \/ Begin(o, stale) \/ Step(o) \/ RefuseNetwork(o)
               \/ DeleteFails(o) \/ Fail(o)
        PROVE  Inv'
    BY <2>1, BeginsPreserve, AddFinalizerPreserves, EnsurePreserves, CheckArchivePreserves,
       RefuseNetworkPreserves, WriteStatusPreserves, DeletePreserves,
       RemoveFinalizerPreserves, FailPreserves DEF Step
  <2>2. CASE UserCreates \/ UserEdits \/ UserDeletes
    BY <2>2, UserCreatesPreserves, UserEditsPreserves, UserDeletesPreserves
  <2>3. CASE WatchCatchesUp \/ Takeover \/ Outage \/ Recovery \/ \E k \in Kinds : Collect(k)
    BY <2>3, EnvironmentPreserves
  <2> QED
    BY <1>1, <2>1, <2>2, <2>3 DEF Next
<1>2. CASE UNCHANGED vars
  <2>1. /\ stale' = stale /\ res' = res /\ UNCHANGED <<node, passes, user, history>>
        /\ leader' = leader /\ frozen' = frozen /\ archive' = archive /\ faults' = faults
    BY <1>2 DEF vars, api, cluster
  <2>2. /\ res \in [Kinds -> Resources] /\ leader \in Operators /\ frozen \in BOOLEAN
        /\ archive \in BOOLEAN /\ faults \in 0..MaxFaults
    BY Typed DEF Inv, TypeOK
  <2> QED
    BY <2>1, <2>2, OtherStepPreserves
<1> QED
  BY <1>1, <1>2

\* The invariant holds in every behaviour.
LEMMA Invariance == Spec => []Inv
BY InitInv, NextInv, PTL DEF Spec

\* reconcile, apply_stellar_node and cleanup_stellar_node keep to the types of the state.
THEOREM TypeCorrect == Spec => []TypeOK
<1>1. Inv => TypeOK
  BY DEF Inv
<1> QED
  BY <1>1, Invariance, PTL

\* As long as no pass has outlived its node, a generation that runs is deployed only
\* after its archive check, or after check_network_safety has refused it: the report of
\* a refusal is the one write of observedGeneration that comes before the check.
THEOREM ArchiveFirst == Spec => []ArchiveCheckedFirst
<1>1. Inv => ArchiveCheckedFirst
  BY DEF Inv, Undisturbed, PassInv, Behind, Cleared, ArchiveCheckedFirst
<1> QED
  BY <1>1, Invariance, PTL

\* As long as no pass has outlived its node, no step takes the volume from a live node.
THEOREM VolumeKept == Spec => LiveVolumeKept
<1> DEFINE Kept == ~outlived /\ Live(node) /\ res["volume"].owner = node.uid
                     => res'["volume"].owner = node.uid
<1>1. ASSUME Inv, [Next]_vars PROVE Kept
  <2> SUFFICES ASSUME ~outlived, Live(node), res["volume"].owner = node.uid
               PROVE  res'["volume"].owner = node.uid
    OBVIOUS
  <2>1. /\ res \in [Kinds -> Resources] /\ view \in [Operators -> Views]
        /\ node.uid # 0 /\ ~node.deleting /\ Undisturbed /\ "volume" \in Kinds
    BY <1>1, Typed DEF Inv, Live, Kinds
  <2>2. ASSUME NEW o \in Operators, Ensure(o) PROVE res'["volume"].owner = node.uid
    <3>1. /\ pc[o] \in Ensures
          /\ res' = res \/ res' = [res EXCEPT ![KindOf[pc[o]]] = Built(KindOf[pc[o]], view[o])]
      BY <2>2 DEF Ensure
    <3>2. view[o].uid = node.uid
      BY <2>1, <3>1 DEF Undisturbed, PassInv, Ensures
    <3>3. KindOf[pc[o]] \in Kinds
      BY <3>1, KindTyped
    <3>4. Built(KindOf[pc[o]], view[o]).owner = node.uid
      BY <2>1, <3>2, <3>3, BuiltTyped
    <3> QED
      BY <2>1, <3>1, <3>3, <3>4
  <2>3. ASSUME NEW o \in Operators, Delete(o) PROVE FALSE
    <3>1. pc[o] \in Deletes
      BY <2>3 DEF Delete
    <3> QED
      BY <2>1, <3>1 DEF Undisturbed, PassInv, Cleanup, Deletes
  <2>4. ASSUME NEW k \in Kinds, Collect(k) PROVE res'["volume"].owner = node.uid
    <3>1. k # "volume" /\ res' = [res EXCEPT ![k] = Absent]
      BY <2>4 DEF Collect
    <3> QED
      BY <2>1, <3>1
  <2>5. CASE res' = res
    BY <2>5
  <2>6. \/ res' = res
        \/ \E o \in Operators : Ensure(o) \/ Delete(o)
        \/ \E k \in Kinds : Collect(k)
    BY <1>1 DEF Next, Step, Begin, AddFinalizer, RefuseNetwork, CheckArchive,
                WriteStatus, DeleteFails, Fail, RemoveFinalizer, WatchCatchesUp, Takeover, Outage, Recovery, UserCreates,
                UserEdits, UserDeletes, api, vars
  <2> QED
    BY <2>2, <2>3, <2>4, <2>5, <2>6
<1>2. Inv /\ [Next]_vars => [Kept]_vars
  BY <1>1
<1> HIDE DEF Kept
<1>3. Spec => [][Kept]_vars
  BY <1>2, Invariance, PTL DEF Spec
<1> QED
  BY <1>3 DEF LiveVolumeKept, Kept
=============================================================================
