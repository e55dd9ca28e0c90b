--------------------------- MODULE ArchivePruning ---------------------------
(***************************************************************************)
(* Pruning of a history archive (pruning_reconciler.rs, archive_prune.rs)  *)
(* by several pruners: passes of the reconciler for nodes that share the   *)
(* archive, and the prune-archive command.  A pruner scans the archive and *)
(* plans, then takes a Lease (LeaseGuard) that it neither renews nor       *)
(* releases, then deletes what it planned.                                 *)
(*                                                                         *)
(* The two requests of an acquisition are one step here; LeaderElection    *)
(* models how they may be raced.  Days of age and seconds of lease are     *)
(* both counted in ticks.                                                  *)
(***************************************************************************)
EXTENDS Naturals, FiniteSets, FiniteSetsExt

CONSTANTS
    Pruners,
    Identity,        \* the identity of each: POD_NAME, shared by passes of one operator
    NoHolder,
    Checkpoints,
    MinCheckpoints,  \* max(policy.min_checkpoints, MIN_CHECKPOINTS_TO_RETAIN)
    ByLedgers,       \* policy.retention_ledgers is given
    RetentionDays,   \* policy.retention_days otherwise
    MaxAge,          \* policy.max_age_days
    LeaseDuration,   \* LEASE_DURATION_SECS
    AutoDelete       \* policy.auto_delete, --force

VARIABLES
    archive,   \* the checkpoints that are there
    age,       \* their ages, up to the oldest that is told apart
    lease,     \* the holder of history-archive-prune, and the time it has left
    pc, plan   \* where each pruner is, and what it still has to delete

vars == <<archive, age, lease, pc, plan>>

OldAge == Max({MaxAge, RetentionDays + 1})

\* An archive with some checkpoints of any age.
Init ==
    /\ archive \in SUBSET Checkpoints
    /\ age \in [Checkpoints -> 0..OldAge]
    /\ lease = [holder |-> NoHolder, left |-> 0]
    /\ pc = [p \in Pruners |-> "idle"] /\ plan = [p \in Pruners |-> {}]

\* Every checkpoint has ledger_seq 0, so none is below a cutoff of ledgers.
Eligible(c) == ~ByLedgers /\ age[c] >= MaxAge /\ age[c] > RetentionDays

\* The first checkpoints of the list are kept.  Sorting by ledger_seq leaves the list
\* in the order of read_dir, which may be any.
Kept(A) == kSubset(Min({MinCheckpoints, Cardinality(A)}), A)

\* scan_checkpoints and identify_deletable_checkpoints; an empty archive ends the run.
Scan(p) ==
    /\ pc[p] = "idle" /\ archive # {}
    /\ \E keep \in Kept(archive) :
          plan' = [plan EXCEPT ![p] = {c \in archive \ keep : Eligible(c)}]
    /\ pc' = [pc EXCEPT ![p] = "planned"]
    /\ UNCHANGED <<archive, age, lease>>

End(p) == pc' = [pc EXCEPT ![p] = "idle"] /\ plan' = [plan EXCEPT ![p] = {}]

Free(p) == lease.left = 0 \/ lease.holder \in {NoHolder, Identity[p]}

\* LeaseGuard::acquire succeeds.  A dry run ends here.
Acquire(p) ==
    /\ pc[p] = "planned" /\ Free(p)
    /\ lease' = [holder |-> Identity[p], left |-> LeaseDuration]
    /\ IF AutoDelete
       THEN pc' = [pc EXCEPT ![p] = "deleting"] /\ UNCHANGED plan
       ELSE End(p)
    /\ UNCHANGED <<archive, age>>

\* The lease is held by another operator.
Denied(p) ==
    /\ pc[p] = "planned" /\ ~Free(p)
    /\ End(p)
    /\ UNCHANGED <<archive, age, lease>>

\* execute_prune: the deletions run side by side, so in any order; the error of one that
\* fails, or whose file is gone, is collected.
Delete(p, c) ==
    /\ pc[p] = "deleting" /\ c \in plan[p]
    /\ archive' \in {archive, archive \ {c}}
    /\ plan' = [plan EXCEPT ![p] = @ \ {c}]
    /\ UNCHANGED <<age, lease, pc>>

\* The run is over, or the process dies.
Leave(p) ==
    /\ pc[p] # "idle"
    /\ End(p)
    /\ UNCHANGED <<archive, age, lease>>

\* The validator publishes a checkpoint, under a name that nobody has seen.
Publish(c) ==
    /\ c \notin archive /\ \A p \in Pruners : c \notin plan[p]
    /\ archive' = archive \cup {c} /\ age' = [age EXCEPT ![c] = 0]
    /\ UNCHANGED <<lease, pc, plan>>

Tick ==
    /\ age' = [c \in Checkpoints |-> Min({age[c] + 1, OldAge})]
    /\ lease' = [lease EXCEPT !.left = IF @ = 0 THEN 0 ELSE @ - 1]
    /\ UNCHANGED <<archive, pc, plan>>

Next ==
    \/ \E p \in Pruners : \/ Scan(p) \/ Acquire(p) \/ Denied(p) \/ Leave(p)
                          \/ \E c \in Checkpoints : Delete(p, c)
    \/ \E c \in Checkpoints : Publish(c)
    \/ Tick

Spec == Init /\ [][Next]_vars

-----------------------------------------------------------------------------
\* "Always retains minimum number of recent checkpoints": whoever prunes, no deletion
\* leaves the archive with fewer than the minimum.
MinimumIsRetained ==
    [][Cardinality(archive') < Cardinality(archive)
          => Cardinality(archive') >= MinCheckpoints]_vars
=============================================================================
