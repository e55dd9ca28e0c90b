---------------------------- MODULE NodeLifecycle ----------------------------
(***************************************************************************)
(* The life of one StellarNode under the main reconciler                   *)
(* (src/controller/reconciler.rs, with the ensure_* and delete_* functions *)
(* of resources.rs): reconcile, apply_stellar_node, cleanup_stellar_node.  *)
(*                                                                         *)
(* Every operator replica runs passes over the copy of the node that its   *)
(* reflector hands out: the node as it is, or as it was before its latest  *)
(* change.  A pass is a sequence of API requests, one per step; leadership *)
(* and the degradation gate are looked at once, at its head.               *)
(* Every request names the node or the resource, never its uid, so a pass  *)
(* that outlives its node works on the node that took over the name.       *)
(*                                                                         *)
(* Resources: the volume (PVC), the ConfigMap and the workload.  Service,  *)
(* HPA, PDB, alerting, NetworkPolicy and the like are applied and deleted  *)
(* the way the ConfigMap is, and left out.  All carry an ownerReference    *)
(* with the uid of the node, so the garbage collector of the cluster       *)
(* removes what the operator leaves behind.                                *)
(***************************************************************************)
EXTENDS Integers

CONSTANTS
    Operators,       \* replicas of the operator
    Specs,           \* what the user may ask for
    MaxChanges,      \* bound on the nodes created, one after the other under the same
                     \* name, and the edits of their specs
    MaxFaults        \* bound on API errors, crashes, changes of leader, outages

Modes == {"run", "suspended", "maintenance", "invalid"}

ASSUME NodeAssumption ==
    /\ Operators # {}
    /\ Specs # {} /\ Specs \subseteq [ver : Nat \ {0}, mode : Modes, retain : BOOLEAN]
    /\ MaxChanges \in Nat /\ MaxFaults \in Nat

Kinds == {"volume", "config", "workload"}
Uids == 1..MaxChanges

VARIABLES
    node,       \* the StellarNode on the API server (uid 0: none)
    res,        \* the resources (owner 0: absent)
    leader,     \* the operator whose is_leader flag is raised
    frozen,     \* the degradation gate refuses writes
    archive,    \* some history archive is reachable
    stale,      \* the node as it was before its latest change, while the watch lags
    pc,         \* where each operator's pass is
    view,       \* what that pass knows of the node it was handed
    created,    \* nodes created so far
    edits, faults,
    checked,    \* history: the <<uid, generation>> whose archive check succeeded
    refused,    \* history: the <<uid, generation>> the network check has refused
    retained,   \* history: uids of removed nodes with retentionPolicy Retain
    outlived    \* history: some pass has gone on after its node was removed

api == <<node, res>>
cluster == <<leader, frozen, archive>>
passes == <<pc, view>>
user == <<created, edits>>
history == <<checked, refused, retained, outlived>>
vars == <<api, stale, cluster, passes, user, faults, history>>

AnySpec == CHOOSE s \in Specs : TRUE
NoNode == [uid |-> 0, gen |-> 0, obs |-> 0, spec |-> AnySpec, deleting |-> FALSE, fin |-> FALSE]
Absent == [owner |-> 0, ver |-> 0]

\* What a pass makes use of in the node it was handed, after its first decision:
\* seen says that the generation had been observed.
Handed(n) == [uid |-> n.uid, gen |-> n.gen, spec |-> n.spec, seen |-> n.obs >= n.gen]
NoView == Handed(NoNode)

Live(n) == n.uid # 0 /\ ~n.deleting

Init ==
    /\ node = NoNode /\ res = [k \in Kinds |-> Absent]
    /\ leader = CHOOSE o \in Operators : TRUE
    /\ frozen = FALSE /\ archive = TRUE
    /\ stale = NoNode
    /\ pc = [o \in Operators |-> "idle"] /\ view = [o \in Operators |-> NoView]
    /\ created = 0 /\ edits = 0 /\ faults = 0
    /\ checked = {} /\ refused = {} /\ retained = {} /\ outlived = FALSE

-----------------------------------------------------------------------------
(* Running a pass.                                                         *)

Goto(o, p) == pc' = [pc EXCEPT ![o] = p] /\ UNCHANGED view
EndPass(o) == pc' = [pc EXCEPT ![o] = "idle"] /\ view' = [view EXCEPT ![o] = NoView]

\* Mutant of After: the finalizer is taken off before the volume is deleted.
AfterUnfinalizingEarly(p, spec) ==
    CASE p = "finalizer" -> "volume"
      [] p = "volume" -> "config"
      [] p = "config" -> "archive"
      [] p = "archive" -> "status"
      [] p = "status" -> "workload"
      [] p = "workload" -> "report"
      [] p = "delWorkload" -> "delConfig"
      [] p = "delConfig" -> "unfinalize"
      [] p = "unfinalize" /\ ~spec.retain -> "delVolume"
      [] OTHER -> "idle"

\* The steps of apply_stellar_node and of cleanup_stellar_node, and what follows each.
\* At "volume" the network check is still to come.
After(p, spec) ==
    CASE p = "finalizer" -> IF spec.mode = "invalid" THEN "report" ELSE "volume"
      [] p = "volume" -> "config"
      [] p = "config" -> IF spec.mode = "suspended" THEN "volume2" ELSE "archive"
      [] p = "archive" -> "status"
      [] p = "status" -> "volume2"
      [] p = "volume2" -> "config2"
      [] p = "config2" -> IF spec.mode = "maintenance" THEN "report" ELSE "workload"
      [] p = "workload" -> "report"
      [] p = "delWorkload" -> "delConfig"
      [] p = "delConfig" -> IF spec.retain THEN "unfinalize" ELSE "delVolume"
      [] p = "delVolume" -> "unfinalize"
      [] OTHER -> "idle"

Advance(o) ==
    LET p == After(pc[o], view[o].spec) IN IF p = "idle" THEN EndPass(o) ELSE Goto(o, p)

\* Mutant of Begin: only a generation that has not been observed is reconciled.
BeginOnChange(o, n) ==
    /\ pc[o] = "idle" /\ leader = o /\ ~frozen
    /\ n.uid # 0 /\ (n.deleting => n.fin) /\ n.obs < n.gen
    /\ view' = [view EXCEPT ![o] = Handed(n)]
    /\ pc' = [pc EXCEPT ![o] = IF n.deleting THEN "delWorkload" ELSE "finalizer"]
    /\ UNCHANGED <<api, stale, cluster, user, faults, history>>

\* reconcile: the leader, with the gate open, takes what its reflector store holds.
Begin(o, n) ==
    /\ pc[o] = "idle" /\ leader = o /\ ~frozen
    /\ n.uid # 0 /\ (n.deleting => n.fin)
    /\ view' = [view EXCEPT ![o] = Handed(n)]
    /\ pc' = [pc EXCEPT ![o] = IF n.deleting THEN "delWorkload"
                               ELSE IF n.fin THEN After("finalizer", n.spec)
                               ELSE "finalizer"]
    /\ outlived' = (outlived \/ n.uid # node.uid)
    /\ UNCHANGED <<api, stale, cluster, user, faults, checked, refused, retained>>

\* The merge patch that adds the finalizer: refused for a node on its way out.
AddFinalizer(o) ==
    /\ pc[o] = "finalizer"
    /\ IF Live(node)
       THEN node' = [node EXCEPT !.fin = TRUE] /\ Advance(o)
       ELSE UNCHANGED node /\ EndPass(o)
    /\ UNCHANGED <<res, stale, cluster, user, faults, history>>

-----------------------------------------------------------------------------
(* apply_stellar_node.                                                     *)

\* check_network_safety, right before the first volume write, finds a node of another
\* network in the namespace, or cannot list the nodes.  The pass reports the failure
\* with update_status, as the last thing it does, and with it the generation as observed.
RefuseNetwork(o) ==
    /\ pc[o] = "volume"
    /\ faults < MaxFaults /\ faults' = faults + 1
    /\ Goto(o, "report")
    /\ refused' = refused \cup {<<view[o].uid, view[o].gen>>}
    /\ UNCHANGED <<api, stale, cluster, user, checked, retained, outlived>>

KindOf == [volume |-> "volume", volume2 |-> "volume", config |-> "config",
           config2 |-> "config", workload |-> "workload",
           delVolume |-> "volume", delConfig |-> "config", delWorkload |-> "workload"]

Ensures == {"volume", "volume2", "config", "config2", "workload"}
Deletes == {"delWorkload", "delConfig", "delVolume"}

\* build_pvc, build_config_map, build_statefulset, ...: what a resource of node n is
\* like.  A suspended workload has no replicas.
Built(k, n) ==
    [owner |-> n.uid,
     ver |-> IF k = "config" \/ (k = "workload" /\ n.spec.mode # "suspended")
             THEN n.spec.ver ELSE 0]

\* A volume was created by POST: a second controller reference would be added to the
\* first, which the API server refuses; pvc_needs_update is always true, since the API
\* server fills in fields of the claim.  The others are server-side applied throughout.
Accepted(o, k) == k = "volume" => res[k].owner \in {0, view[o].uid}

Ensure(o) ==
    /\ pc[o] \in Ensures
    /\ LET k == KindOf[pc[o]] IN
       IF Accepted(o, k)
       THEN res' = [res EXCEPT ![k] = Built(k, view[o])] /\ Advance(o)
       ELSE UNCHANGED res /\ EndPass(o)
    /\ UNCHANGED <<node, stale, cluster, user, faults, history>>

\* Mutant of CheckArchive: the generation counts as observed after a failed check.
CheckArchiveOnce(o) ==
    LET n == view[o] IN
    /\ pc[o] = "archive"
    /\ IF n.seen
       THEN Advance(o) /\ UNCHANGED <<node, checked>>
       ELSE IF archive
            THEN /\ Advance(o) /\ checked' = checked \cup {<<n.uid, n.gen>>}
                 /\ UNCHANGED node
            ELSE /\ EndPass(o) /\ UNCHANGED checked
                 /\ node' = IF node.uid = 0 THEN node ELSE [node EXCEPT !.obs = n.gen]
    /\ UNCHANGED <<res, stale, cluster, user, faults, refused, retained, outlived>>

\* check_history_archive_health, at a generation that has not been observed yet.
CheckArchive(o) ==
    LET n == view[o] IN
    /\ pc[o] = "archive"
    /\ IF n.seen
       THEN Advance(o) /\ UNCHANGED checked
       ELSE IF archive
            THEN Advance(o) /\ checked' = checked \cup {<<n.uid, n.gen>>}
            ELSE EndPass(o) /\ UNCHANGED checked
    /\ UNCHANGED <<api, stale, cluster, user, faults, refused, retained, outlived>>

\* Mutant of WriteStatus: the generation after the one that was reconciled.
WriteStatusAhead(o) ==
    /\ pc[o] \in {"status", "report"}
    /\ IF node.uid # 0
       THEN node' = [node EXCEPT !.obs = view[o].gen + 1] /\ Advance(o)
       ELSE UNCHANGED node /\ EndPass(o)
    /\ UNCHANGED <<res, stale, cluster, user, faults, history>>

\* update_status, with the generation the pass was handed.
WriteStatus(o) ==
    /\ pc[o] \in {"status", "report"}
    /\ IF node.uid # 0
       THEN node' = [node EXCEPT !.obs = view[o].gen] /\ Advance(o)
       ELSE UNCHANGED node /\ EndPass(o)
    /\ UNCHANGED <<res, stale, cluster, user, faults, history>>

-----------------------------------------------------------------------------
(* cleanup_stellar_node, and the removal of the finalizer.                 *)

Delete(o) ==
    /\ pc[o] \in Deletes
    /\ res' = [res EXCEPT ![KindOf[pc[o]]] = Absent]
    /\ Advance(o)
    /\ UNCHANGED <<node, stale, cluster, user, faults, history>>

\* The error of a delete is logged, and the cleanup goes on.
DeleteFails(o) ==
    /\ pc[o] \in Deletes
    /\ faults < MaxFaults /\ faults' = faults + 1
    /\ Advance(o)
    /\ UNCHANGED <<api, stale, cluster, user, history>>

\* The node changes; a reflector may go on handing out what it was.
Change(n) == node' = n /\ stale' = node

\* The node is removed: its deletion was requested and no finalizer is left.
Removed ==
    /\ Change(NoNode)
    /\ retained' = IF node.spec.retain THEN retained \cup {node.uid} ELSE retained

\* Some pass other than o's is under way for the node.
InUse(o) == \E p \in Operators \ {o} : pc[p] # "idle" /\ view[p].uid = node.uid

\* The merge patch of metadata.finalizers, addressed to whatever bears the name.
RemoveFinalizer(o) ==
    /\ pc[o] = "unfinalize"
    /\ Advance(o)
    /\ IF node.deleting
       THEN Removed /\ outlived' = (outlived \/ InUse(o))
       ELSE /\ node' = [node EXCEPT !.fin = FALSE]
            /\ UNCHANGED <<stale, retained, outlived>>
    /\ UNCHANGED <<res, cluster, user, faults, checked, refused>>

-----------------------------------------------------------------------------
(* Faults, the watch, the leadership, the cluster and the user.            *)

\* A request fails and its error is passed on, or the operator crashes.
Fail(o) ==
    /\ pc[o] # "idle"
    /\ faults < MaxFaults /\ faults' = faults + 1
    /\ EndPass(o)
    /\ UNCHANGED <<api, stale, cluster, user, history>>

\* The watches deliver the newest state of the node.
WatchCatchesUp ==
    /\ stale # NoNode /\ stale' = NoNode
    /\ UNCHANGED <<api, cluster, passes, user, faults, history>>

\* The flag moves to another operator, whatever passes are under way.
Takeover ==
    /\ faults < MaxFaults /\ faults' = faults + 1
    /\ leader' \in Operators \ {leader}
    /\ UNCHANGED <<api, stale, frozen, archive, passes, user, history>>

Outage ==
    /\ faults < MaxFaults /\ faults' = faults + 1
    /\ \/ ~frozen /\ frozen' = TRUE /\ UNCHANGED archive
       \/ archive /\ archive' = FALSE /\ UNCHANGED frozen
    /\ UNCHANGED <<api, stale, leader, passes, user, history>>

Recovery ==
    /\ \/ frozen /\ frozen' = FALSE /\ UNCHANGED archive
       \/ ~archive /\ archive' = TRUE /\ UNCHANGED frozen
    /\ UNCHANGED <<api, stale, leader, passes, user, faults, history>>

\* Mutant of OwnerReferenced: the ConfigMap has no owner.
OwnerReferencedButConfig == {"volume", "workload"}

\* owner_reference: the resources that belong to the node for the garbage collector.
OwnerReferenced == {"volume", "config", "workload"}

\* The garbage collector removes what belongs to no node that exists.
Collect(k) ==
    /\ k \in OwnerReferenced
    /\ res[k].owner \in Uids \ {node.uid}
    /\ res' = [res EXCEPT ![k] = Absent]
    /\ UNCHANGED <<node, stale, cluster, passes, user, faults, history>>

UserCreates ==
    /\ node.uid = 0 /\ created + edits < MaxChanges
    /\ created' = created + 1
    /\ \E s \in Specs : node' = [NoNode EXCEPT !.uid = created', !.gen = 1, !.spec = s]
    /\ UNCHANGED <<res, stale, cluster, passes, edits, faults, history>>

UserEdits ==
    /\ Live(node) /\ created + edits < MaxChanges
    /\ edits' = edits + 1
    /\ \E s \in Specs \ {node.spec} : Change([node EXCEPT !.gen = @ + 1, !.spec = s])
    /\ UNCHANGED <<res, cluster, passes, created, faults, history>>

UserDeletes ==
    /\ Live(node)
    /\ IF node.fin
       THEN Change([node EXCEPT !.deleting = TRUE]) /\ UNCHANGED <<retained, outlived>>
       ELSE /\ Removed
            /\ outlived' = (outlived \/ \E o \in Operators :
                                           pc[o] # "idle" /\ view[o].uid = node.uid)
    /\ UNCHANGED <<res, cluster, passes, user, faults, checked, refused>>

Step(o) ==
    \/ AddFinalizer(o) \/ Ensure(o) \/ CheckArchive(o) \/ WriteStatus(o)
    \/ Delete(o) \/ RemoveFinalizer(o)

Next ==
    \/ \E o \in Operators : \/ Begin(o, node) \/ Begin(o, stale)
                            \/ Step(o) \/ RefuseNetwork(o) \/ DeleteFails(o) \/ Fail(o)
    \/ \E k \in Kinds : Collect(k)
    \/ WatchCatchesUp \/ Takeover \/ Outage \/ Recovery \/ UserCreates \/ UserEdits \/ UserDeletes

\* Passes are requeued and come to an end, watches deliver, outages end, and the
\* garbage collector works.
Fairness ==
    /\ \A o \in Operators : WF_vars(Begin(o, node) \/ Step(o))
    /\ WF_vars(\E k \in Kinds : Collect(k))
    /\ WF_vars(WatchCatchesUp) /\ WF_vars(Recovery)

Spec == Init /\ [][Next]_vars
FairSpec == Spec /\ Fairness

-----------------------------------------------------------------------------
Nodes ==
    [uid : 0..MaxChanges, gen : 0..MaxChanges, obs : 0..MaxChanges, spec : Specs,
     deleting : BOOLEAN, fin : BOOLEAN]

PassSteps == {"idle", "finalizer", "archive", "status", "report", "unfinalize"}
             \cup Ensures \cup Deletes

TypeOK ==
    /\ node \in Nodes
    /\ res \in [Kinds -> [owner : 0..MaxChanges, ver : {0} \cup {s.ver : s \in Specs}]]
    /\ leader \in Operators /\ frozen \in BOOLEAN /\ archive \in BOOLEAN
    /\ stale \in Nodes
    /\ view \in [Operators -> [uid : 0..MaxChanges, gen : 0..MaxChanges, spec : Specs,
                               seen : BOOLEAN]]
    /\ pc \in [Operators -> PassSteps]
    /\ created \in 0..MaxChanges /\ edits \in 0..MaxChanges /\ faults \in 0..MaxFaults
    /\ checked \subseteq Uids \X (1..MaxChanges)
    /\ refused \subseteq Uids \X (1..MaxChanges) /\ retained \subseteq Uids
    /\ outlived \in BOOLEAN

\* cleanup_stellar_node deletes by name: unless a pass has outlived its node, nothing
\* the operators do takes the volume away from a node that is not being deleted,
\* whoever leads and whatever fails.
LiveVolumeKept ==
    [][~outlived /\ Live(node) /\ res["volume"].owner = node.uid
         => res'["volume"].owner = node.uid]_vars

\* apply_stellar_node: "observed_generation NOT updated to trigger retry".  Unless a
\* pass has outlived its node, a generation of a running node that is deployed before an
\* archive was reachable at that generation was refused by check_network_safety before:
\* only its report, which marks the generation as observed, lets a later pass skip the
\* check that archive_health.rs promises "before starting validator nodes".
ArchiveCheckedFirst ==
    \A o \in Operators :
        ~outlived /\ pc[o] = "workload" /\ view[o].spec.mode = "run"
            => <<view[o].uid, view[o].gen>> \in checked \cup refused

\* What a settled node looks like, as far as its mode lets the operator go.
Managed(m) == CASE m = "invalid" -> {}
                [] m = "maintenance" -> {"volume", "config"}
                [] OTHER -> Kinds
Settled == /\ node.fin
           /\ \A k \in Managed(node.spec.mode) : res[k] = Built(k, node)

\* "Declarative Convergence": a node that stays ends up with its finalizer and with the
\* resources of its last spec, although passes of deposed leaders and of earlier nodes
\* of the same name interfere.
Converges == <>[]Live(node) => <>[](Live(node) => Settled)

\* finalizers.rs: "All dependent resources (Deployments, Services, ConfigMaps) are
\* cleaned up", also when deletes failed or a deposed leader was still creating.
NothingLeftBehind ==
    <>[](node.uid = 0)
      => <>[](\A k \in Kinds : \/ res[k].owner = 0
                               \/ k = "volume" /\ res[k].owner \in retained)

\* A deletion that was asked for comes to its end.
DeletionEnds == node.deleting ~> node.uid = 0
=============================================================================
