# Formal verification of Stellar-K8s

Stellar-K8s is a Kubernetes operator for Stellar nodes: several replicas of one
program elect a leader through a Kubernetes Lease, and the leader drives
`StellarNode` objects and a few other custom resources towards their
specification. This directory holds TLA+ models of the parts of the operator
whose correctness depends on the order of events, TLC configurations that check
them, and TLAPS proofs.

The repository has a small specification of its own under
`formal_verification/`; nothing here builds on it.

## Inventory

| Component | State | Operations | What is hard about it | What makes it correct |
|---|---|---|---|---|
| Leader election (`src/main.rs`, `src/controller/leader.rs`, `src/commands/operator.rs`) | the Lease; per replica the watch value of the gate loop, the `is_leader` flag of the operator, the sleeps | GET, renew, take over, create, release, start, shut down | GET and PATCH are separate requests without resourceVersion; delayed writes; clocks; crash and restart under the same identity | a belief to lead ends soon after the lease is lost; a working holder is not deposed; a leader emerges |
| Validator blue/green (`src/controller/blue_green_core.rs`) | phase, color and step in status and annotations of the node; two StatefulSets, ConfigMap, Service, PVC, VolumeSnapshot | one pass of the reconciler: snapshot, create green, wait, cut over, maintain, roll back, fail, defer | a pass is many API writes and can stop after any of them; the node it works on may be stale; pods change between reads; ignored write errors | one publishing identity at a time; the Service moves on evidence; the node is served again |
| Main reconciler, finalizers, resource builders (`reconciler.rs`, `finalizers.rs`, `resources.rs`) | the node with finalizer, generation and `observedGeneration`; the PVC, ConfigMap and workload | add finalizer, ensure, check archive, write status, delete, remove finalizer | checks at the head of a long pass; two operators at once; a node created again under the same name; logged delete errors | the node converges; a deletion ends and leaves nothing; live volumes survive |
| Degradation monitor and gate (`src/degradation`) | outcome counts per control-plane component, the level, in the memory of each operator | probe round, attribution, hysteresis | probes race the components; a failure of one component shows in another, or not at all; a crash forgets all of it | writes and restarts are withheld in an outage, and only then |
| Remediation (`remediation.rs`, part of `reconciler.rs`) | four annotations of the node | observe, restart pods, record | the gate may close during the pass; the record may fail; the annotations are cached; passes of two leaders may overlap | one restart per standstill, none in an outage, recovery without help |
| Traffic shift (`traffic_shift.rs`) | plan status; the DNS record in an annotation | probe, drain, publish, soak, complete, abort, turn round | two writes; `now` is captured before the probes; evidence changes during a drain | weights move gradually, increments are spaced, and only on evidence |
| Ledger-close dispatcher (`ledger_close_dispatcher.rs`) | `last_seen_seq`; a bounded channel and worker per subscription; status | poll, list, enqueue, post, retry, patch status | everything but the status dies with the process; full channels; lost answers | order per subscription; every ledger delivered or given up for a named reason |
| LeaseGuard and archive pruning (`leader.rs`, `archive_prune.rs`, `pruning_reconciler.rs`) | the archive; a Lease | scan, plan, acquire, delete | the plan is older than the lease, which is never renewed | a minimum of checkpoints survives |
| Horizon/Soroban blue/green and canary (`blue_green.rs`, `canary/`, `rollout/`) | colors, weights, verdicts | deploy, judge, promote, roll back | order of the version check and the deploy | the stable version stays deployed until promotion |
| Failover (`horizon_failover.rs`, `cross_cloud_failover.rs`, `dr.rs`) | roles, ingestion leadership | fail over, fail back | flapping evidence, late probes | one active side |
| Orphaned jobs (`job_orphan_reconciler.rs`), job registry (`background_jobs.rs`) | snapshot of Jobs and Pods; bounded registry | classify, plan, delete; start, finish, evict | the snapshot is stale when the deletion happens | nothing that is owned or running is deleted |
| Webhook delivery, scaling, backup | attempts, cooldowns, schedules | deliver, scale, back up | retries and cooldown races | bounded retries |
| Soroban contracts (`contracts/`) | escrow, governance and staking ledgers | contract calls | sequences of legal calls | conservation, time locks |
| Webhook server, REST API, CLI, frontend, charts | little or none | requests | – | – |

`PROJECT.json` lists every component with its status and every hazard with the
line where it bites.

How they interact: `main.rs` starts the gate loop and runs the operator while
that loop leads; the operator starts its own flag loop and the controllers. The
reconciler looks at the flag and at the degradation gate at the head of every
pass; a pass that runs into a node standing still asks the gate again before it
restarts pods. It hands validators with a blue/green strategy to
`reconcile_validator_blue_green`. All of them work through the API server only,
so what they share is the objects there: the models keep every request a step
of its own and the copy of the object a pass was handed a variable of its own.

## Modules

| Module | Models | Checked through | Proofs |
|---|---|---|---|
| `LeaderElection` | both election loops, process life and the Lease | `MCLeaderElection` | `LeaderElectionProofs` |
| `BlueGreenCore` | the validator blue/green reconciler and its environment | `MCBlueGreenCore` | `BlueGreenCoreProofs`, `BlueGreenIdentityProofs`, `BlueGreenSwitchProofs` |
| `NodeLifecycle` | `reconcile`, `apply_stellar_node`, `cleanup_stellar_node` of several operators | `MCNodeLifecycle` | `NodeLifecycleProofs` |
| `Degradation` | the probe rounds, the tracker and the gate | through `Remediation` | through `RemediationProofs` |
| `Remediation` | the remediation of a node, composed with `Degradation` | `MCRemediation` | `RemediationProofs` |
| `GradualShift` | the abstract promise of a traffic shift | through `TrafficShift` | `TrafficShiftProofs` |
| `TrafficShift` | the state machine and the writes of a plan | `MCTrafficShift` | `TrafficShiftProofs` |
| `LedgerCloseDispatcher` | poll loop, channels, workers | `MCLedgerCloseDispatcher` | `LedgerCloseDispatcherProofs` |
| `ArchivePruning` | several pruners on one archive, with LeaseGuard | `MCArchivePruning` | – |

Definitions named `...Early`, `...Never`, `...Unbounded` and the like, marked
"Mutant of" in their comment, are plausible bugs. Each property of a passing run
has one that TLC refutes it with (`mutants` in `PROJECT.json`).

### LeaderElection

A replica is one process with up to two election loops (`Tasks`), on the same
Lease and under the same identity: the *gate* of `leader.rs` and the *flag* loop
of `operator.rs`. For each loop `pc` says where it is in its pass, `timer` what
is left of its sleep, `lag` the time since it captured `now`, `leader` what it
believes. One action is one request or one return: `Wake` (capture `now`, send
the GET), `GetLease` (decide), `Renew`, `Acquire`, `Create` (the write is
applied), `Ack` (its answer arrives), `ApiError` (a request fails, before it is
applied or after). The two renewals differ: the one in `leader.rs` names the
holder, the one in `operator.rs` sets `renewTime` only. `Lost` is what a failed
pass does: a retry, or the end of the process when it is the gate of a running
operator. `StartOperator`, `Shutdown`, `ReleaseGet`, `ReleasePatch`, `Crash` and
`Restart` are the life of the process; SIGTERM leaves the loops running during
the release, SIGINT ends the flag loop.

Time is kept as ages: the lease carries the age of its `renewTime`, seen through
the clock offset (`Skew`) of the replica that looks. `Tick` waits for a sleep
that is over and for a request that has used up `MaxLatency`. `clean` and
`deposed` are history variables.

Assumptions: both loops use the same lease name, namespace and identity, as in
the Helm chart; a process that ends takes its unanswered requests with it; the
Lease is not deleted; one pass takes at most `MaxLatency`. `Exit` is immediate:
`main.rs:176` first looks for a newer release (at most one request of 5 s), during
which the loops still run. A process that is restarted at once covers the renewals
of the gate in that time; a flag that is raised again while no controller runs any
more is left out.

### BlueGreenCore

A pass works on `view`, the node it was handed. It alternates between decisions
and writes: a decision reads the cluster, moves the local variables (`ph`,
`step`, `token`) and leaves its API writes in `todo`; every write is a step of its own,
and so is each of the three reads of a cutover step (`ReadBlueDown`, `ReadGreenHealth`,
and the token together with the decision). `Abort` ends a pass anywhere (an error passed
on with `?`, a crash), `LoseWrite` drops a write whose result the code discards, and the pass goes on.
The status and the annotations of the node are separate, since `read_phase`
prefers the status and its patch may fail. The environment is Kubernetes: pods
are created, become ready and synced, are replaced when their template changes,
fail and are evicted; a pod publishes according to the configuration it found
when it started. The user changes `spec.version` and asks for a retry.

`Hazards` selects what the environment may do to a pass: hand it a stale node
(`staleCache`), fail a discarded write (`lostPatch`), refuse to change the selector
of a StatefulSet (`fixedSelector`). Kubernetes does refuse the latter; the code
is written as if it did not, and the runs without that hazard check the rollout
as it is meant to work. `seen` is a history variable: whether blue has been Ready and
Synced since it was last scaled down, whether a pod of green's current template has, and the
publish token of a green pod that has started.

Left out: `dry_run`, `spec.suspended`, headless Services, messages, the
target-version annotation (never read back for a decision), the cap of four
iterations per pass (at most three commands can follow one another), and image
digests. A blue pod's configuration always publishes. `status.replicas` of a
StatefulSet counts the pods that exist.

### NodeLifecycle

`node` is the StellarNode on the API server, `stale` what it was before its
latest change: a pass begins on either (`Begin`), as reflectors lag. `pc` is the
step a pass is at and `After` the order of the steps: finalizer, network check, PVC,
ConfigMap, archive check, status, the second round of PVC and ConfigMap, workload, final
status; or, in a cleanup, workload, ConfigMap, volume, finalizer. A suspended
node leaves out the archive check and its status, a node in maintenance the
workload, an invalid one everything but the status. One action is one request:
`AddFinalizer`, `RefuseNetwork` (the network check fails, and the pass reports it with
the status that marks the generation as observed), `Ensure`, `CheckArchive`, `WriteStatus`, `Delete`,
`RemoveFinalizer`; `DeleteFails` is the logged error of a delete, `Fail` an
error passed on or a crash.

Every request addresses the node by name, so a pass that is still running when
its node has been removed works on the node that took over the name. `Takeover`
moves the leader flag at any time, without regard to passes under way. The
garbage collector (`Collect`) removes what belongs to no existing node. Of the
resources the PVC, the ConfigMap and the workload are kept, since the others are
applied and deleted like the ConfigMap. History: `outlived` (some pass has gone on past
the end of its node), `checked` and `refused` (the generations whose archive check or
network check had that outcome).

### Degradation and Remediation

`Degradation` is the monitor of one operator: `Round` records one outcome per
component. A probe sees its component as it was at some time since the round before
(`seen`). `Outcomes` says what each probe answers: the lease of a scheduler that has
stopped stays fresh for two lease durations (`LeaseOutcomes`), a request that is not
permitted, a lease that is not found or a name without address is inconclusive, a probe
that times out is unhealthy. `Attributed` makes a failure inconclusive while a
dependency fails; `Recorded` is the hysteresis. All of this is in memory:
`MonitorRestarts` is what a crash leaves.

`Remediation` extends it with the passes of several operators over a node whose ledger
may stand still. The four annotations are `notes` on the API server, `old` in a cache
that has not caught up, and `view` in a pass, which begins on either. `leading` are the
operators whose flag is up; the flag is looked at once, so passes of two may overlap.
`RestartPod` and `Record` are separate requests, `Interrupted` may leave some of the
pods deleted, and the patch sends back all annotations the pass was handed. The monitor
and the passes interact through `level`: `StartPass` asks it whether writes are
permitted, the decision whether disruption is. The monitor of one operator (`Self`) is
modelled; what the gate of another one says is open (`Gates`). Time advances in probe
intervals, one round in each. History: `downFor` (the conclusive rounds in which a
component was down throughout), `restarts`, `unsure` (the annotations do not tell of
all restarts).

### TrafficShift and GradualShift

`GradualShift` says what resolvers of the routed name may rely on: the share of
the primary moves only towards the end point of the current direction, never
past it, and the direction turns only at its end point. `TrafficShift` is the
code: a pass captures `now` (`StartPass`), collects the evidence that is not newer
(`Collected`), takes one of the ten actions of the
state machine on the evidence at that moment, mirrors a new record into the
annotation (`MirrorRecord`), then saves the status (`SaveStatus`); `Abandon` ends it
anywhere. The refinement mapping takes `weight` to the mirrored record
(`published`) and `direction` to the direction of the saved status. `late` says when the
probe takes its samples: before `now` is captured, or after it as `HttpHealthProbe` does.
Nothing in the repository calls `reconcile_traffic_shift_plan`, so nothing is assumed of
how often a pass runs and nothing is claimed of what happens in the end.

### LedgerCloseDispatcher

The poll loop takes the latest ledger and dispatches an event for every ledger
since `last_seen_seq`; each event lists the subscriptions anew (`List`, which may
fail), and `SendToWorker` puts it into the bounded channel or drops it. A worker
receives, posts, retries and patches the status. `PostFails` includes the answer
that is lost after the endpoint accepted. `Crash` loses everything but the status.
The spec a worker started with is not modelled: it holds the URL and the retries,
which do not change here.

### ArchivePruning

A pruner scans and plans, acquires the lease, then deletes what it planned, in any
order. Acquisition is one step, since `LeaderElection` models how its two requests
are raced. Because every checkpoint is read with `ledger_seq` 0, the sort leaves
the order of `read_dir`, which may be any: `Kept` is any subset of the minimum
size. Rust gives no order for `read_dir`, not even the same one for an unchanged
directory; local file systems mostly
repeat themselves, shared ones need not.

## Runs

| Run | Checks | Shows |
|---|---|---|
| `leader` | `TypeOK`, `SplitBrainIsBounded`, `HealthyHolderKeepsLease`, `OneLeaderInTheEnd` | after losing the lease a loop believes to lead for at most one sleep and two passes; an undisturbed holder is not deposed; in the end one replica leads |
| `bg_cutover` | `TypeOK`, `CutoverSerializesIdentity`, `GreenPublishesAlone`, `SwitchFollowsRollout`, `ServesAgain` | one publishing identity in a cutover, a Service that follows the rollout and is served again, with a fault anywhere |
| `bg_fixed_selector` | `GreenSeededFromUsableSnapshot`, `ServesAgain` | with fixed selectors, stale views, lost patches and a quota of snapshots, green's volume comes from a finished snapshot and blue goes on serving |
| `node_lifecycle` | `TypeOK`, `ArchiveCheckedFirst`, `LiveVolumeKept`, `Converges`, `NothingLeftBehind`, `DeletionEnds` | two operators, one deposed in the middle of a pass, cannot keep a node from converging or from going; only a refusal by the network check lets a generation past the archive check |
| `remediation` | `TypeOK`, `OneRestartPerStandstill`, `OutageWithholdsRestart`, `RecoversByItself` | the gate withholds restarts once its own rounds have told of the outage, a second restart at a standstill takes one of three causes, and everything recovers |
| `traffic_shift` | `TypeOK`, `LateProbesMoveNothing`, `MovesGradually`, `IncrementsAreSpaced`, `FailbackAfterCooldown` | the controller implements `GradualShift` and keeps its distances; with probes that are later than `now` it never moves |
| `dispatcher` | `TypeOK`, `DeliveredInOrder`, `EveryLedgerSettled` | order within a process, and no ledger is forgotten silently |
| `bg_switch` | `SwitchEvidence`, **violated** | the Service moves to a green pod that was never Ready: health and token come from two lists of pods |
| `bg_dual_publish` | `NoDualPublishing`, **violated** | rollback starts blue before green has ended |
| `bg_served_version` | `ServedVersionIsKept`, **violated** | after a failed rollout the serving blue is put on the version that failed |
| `traffic_step` | `IncrementIsOneStep`, **violated** | the weights go 100, 75, 25, 0: the second increment is two steps |
| `prune_minimum` | `MinimumIsRetained`, **violated** | two pruners keep different checkpoints and go below the minimum |

The violated ones disagree with a line of the documentation or of the code's own
comments, quoted under `findings` in `PROJECT.json`.

### Bounds

*Election*: two replicas (four loops); one unit is 5/3 s, so the lease lasts 9, a
renewal sleep 6 and a retry 3 units, in the code's proportion; a pass takes up
to one unit; one clock is one unit fast. That is exactly the margin
`RenewalMargin` asks for: with a lease of 8 units TLC finds a healthy holder
deposed. Faults (crashes, API errors, shutdowns) are bounded by two. The proofs
lift the safety results to any number of replicas, intervals and faults.

*Blue/green*: two versions, four tokens (a fresh one is always left within the
bounds, as fresh time stamps are), two snapshots as the quota; one or two faults
(aborted passes, lost patches, stale views, pod failures) and one or two edits.
One fault reaches every recovery path once, two faults (`bg_fixed_selector`) a recovery
that is itself disturbed; the second edit (`bg_cutover`) meets a green that is active, and
defers the upgrade. `bg_cutover` runs without snapshots, which no step of a cutover looks
at, and `bg_fixed_selector` with them; with snapshots and one edit `bg_cutover` passes
too. The violated runs use the smallest bounds that show the case.

*Node lifecycle*: two operators, two changes (two nodes of the same name, or one
and an edit), one fault, a spec of every mode, one of which retains its volume.
Two nodes are needed for a pass to outlive its node and one takeover for two passes
to be under way at once; the proofs lift the safety results to any number.

*Remediation*: etcd and the scheduler (a component and one that depends on it), failure
after two rounds, recovery after one, a lease that stays fresh for one interval, stale
after two intervals, cooldown one, two ledgers, passes of up to one interval. One budget
of two covers everything that goes wrong: outages, inconclusive rounds, failed passes,
crashes, caches that lag behind a patch, a second leader beside the first. Two operators
suffice for an overlap; their flags overlap within one interval (`MaxOverlap`), which
lets two passes run side by side. The safety properties were also checked with an overlap
across an interval (1.4 M states), and the proofs hold for any. The cooldown is shorter
than the staleness, as in the code (10 and 15 minutes).

*Traffic shift*: 100 percent in steps of 25, drain 1, propagation 2, cooldown 1,
latency 1, one failed pass, one edit; long enough for failover, failback and a
second failover with the growing step index. Regions change at any time; the probe is
early or late for the whole run.

*Dispatcher*: one subscription, since several share only the poll loop; a channel
of two and four ledgers, so that it overflows; one retry; three faults.

*Pruning*: two pruners, four checkpoints, a minimum of two.

Ages and counters are capped where no test of the code tells larger values apart
(`StepCap`, `ServedCap`, `QuietCap`, `IndexCap`, `DownCap`, `Capped`); the other
bounds are the `Max...` constants. Every run checks for deadlock but `node_lifecycle` and `dispatcher`: a deleted node
and a Horizon at its last ledger leave nothing to do.

### Fairness

*Election*: every loop keeps running and its requests are answered (`WF` on
`Election(t)`), tokio starts the operator, the release runs to its end, the
kubelet restarts containers, time passes. Faults are not fair.
*Blue/green*: the controller requeues every node, so passes follow one another
(`WF` on `Decide` and `Write`), the CSI driver finishes snapshots (`WF`), and
Kubernetes settles the pods it owns (`SF` on `Settle(c)`: strong, since passes
that take the cluster from one state to another and back could otherwise
disable a pod's step again and again). Nothing forces a rollout to time out, a
user to act or a pod to stay healthy.
*Node lifecycle*: the controller requeues after every pass and every request is
answered (`WF` on `Begin(o, node) \/ Step(o)` for each operator), the watch catches
up, outages end, the garbage collector works (`WF` on each). Beginning on the stale
copy, taking over and failing are not fair.
*Remediation*: `WF` on the passes of each operator (the controller requeues the node), on
the monitor with time, on the watch, and on a deposed leader's noticing
(`OneLeaderInTheEnd` of the election). Components need not come up nor `Self` lead:
`RecoversByItself` has both as its hypothesis.
*Traffic shift*: none, since nothing calls the pass; only safety is stated.
*Dispatcher*: the loop and every worker are tokio tasks (`WF` on `Dispatch` and on
`Work(h)`); posts may fail as often as the bound on faults lets them.

## Proofs

Every safety property of a passing run is stated by a theorem, three of the blue/green
ones under a hypothesis on the hazards. All theorems hold for every value of the
constants the named assumptions of the modules allow: any number of replicas, operators,
subscriptions, faults and edits, any intervals, thresholds and capacities. Each rests on
an inductive invariant that TLC checked first, one lemma per action (or per group of
actions that share an effect), and a last step by propositional temporal logic.

*`LeaderElectionProofs`* (from `TimingAssumption` and `ReplicasAssumption`)

* `TypeCorrect`: `Spec => []TypeOK`.
* `SplitBrainBound`: `Spec => []SplitBrainIsBounded`. The bound alone is not
  inductive. `DeposedInv` says at each point of the loop how long a belief may
  have outlived the lease: while asleep, no longer than what of the sleep is
  over plus one pass; in a pass, that plus its age; and a pass that found itself
  the holder at its GET has been deposed for at most the pass's own age.
* `HealthyHolder`: `RenewalMargin /\ Spec => HealthyHolderKeepsLease`.
  `CleanHolderInv` says of a holder without faults that nobody else has a write
  under way and that one of its two loops is on schedule (`OnSchedule`): the
  lease is no older than that loop's sleep and pass explain. With the margin,
  everybody else's expiry test then fails. `LeaseExistsInv` rules out that the
  gate of a running operator ends the process because its create is refused.

*`TrafficShiftProofs`* (from `PlanAssumption` and `EvidenceAssumption`)

* `TypeCorrect`.
* `LateProbesStill`: `Spec => []LateProbesMoveNothing`. A late probe leaves nothing in the
  window, so no gate opens; the invariant follows this through the status, the draft and
  a step that would drain: the weight is the initial one and no step is in flight.
* `ShiftIsGradual`: `Spec => MovesGradually`, the refinement of `GradualShift`. The
  record is written before the status, so after a failed pass the two differ.
  `Accounts` says how: the published share is the weight of the status, or the
  target of the drain in flight, and that target lies on the way. `PassInv` says
  the same of the draft of a pass at each of its points. Republishing the target
  of a drain then is a stutter, and a turn happens only at the end point.
* `IncrementsSpaced` and `FailbackCooled`: `Timing` ties each age in a status to the
  time since the last increment (`quiet`), at each outcome of the last step;
  `TimeInv` asks it of the status and of a draft about to be saved.

*`NodeLifecycleProofs`* (from `NodeAssumption`)

* `TypeCorrect`.
* `ArchiveFirst`: `Spec => []ArchiveCheckedFirst` and `VolumeKept`:
  `Spec => LiveVolumeKept`. `Undisturbed` holds until a pass outlives its node: an
  observed generation of a running node was checked or refused (`Observed`, for the node and
  for the stale copy), the stale copy of the same node follows its history
  (`StaleInv`), and every pass works on the node that is there, is in a cleanup only
  when that node is being deleted, and is behind the archive check only if its
  generation was checked or refused (`PassInv`). `Counts` keeps uids and generations within
  the changes made, so that a uid is never used twice.

*`RemediationProofs`* (from `DegradationAssumption` and `RemediationAssumption`)

* `TypeCorrect`, including the monitor.
* `OneRestart`: `Spec => []OneRestartPerStandstill`, for any number of operators. `ViewInv`
  says that no copy of the annotations is ahead of the node's ledger and that a pass about to
  restart stands at the ledger of its copy, with level 0; `RestartInv` that as long as
  `unsure` is false every restart is recorded, about to be recorded by a pass at that
  ledger, or was at an earlier ledger (`Known`, `Pending`).
* `RestartWithheld`: `Spec => OutageWithholdsRestart`. A restart is decided on the
  level at one moment and carried out later, so the invariant `OutageInv` speaks of the
  time in between: the rounds that told of a component, down throughout, are counted by
  its tracker (`Told`), a Normal level excludes Unhealthy trackers (`Judged`), and a pass
  that has passed the gate did so before the outage could be told, so that it is younger
  than the outage by at most the latency (`ChosenInTime`). A crash resets both sides.
  The bound is tight: with one round less TLC finds a restart.

*`BlueGreenCoreProofs`* (from `BlueGreenAssumption`, for every set of hazards)

* `TypeCorrect`. The writes a decision leaves in `todo` are typed too (`Writes`), with
  one lemma per executor and planner on the writes it plans.
* `SeededFromUsableSnapshot`: `Spec => []GreenSeededFromUsableSnapshot`. The volume is
  written long after the gate looked at the snapshot, on a name read from a possibly
  stale node; the type of a pending PVC write (it names a usable snapshot when one is
  required) is what makes the property inductive.

*`BlueGreenIdentityProofs`* (from the same, and the hypothesis `Faithful`)

* `IdentitySerialized`: `Faithful /\ Spec => []CutoverSerializesIdentity` and
  `PublishesAlone`: `Faithful /\ Spec => GreenPublishesAlone`. `Faithful` says that
  `Hazards` holds neither `staleCache` nor `lostPatch`; fixed selectors, aborted passes,
  pod failures and edits remain. The hypothesis cannot be dropped: with
  either of the two TLC refutes `CutoverSerializesIdentity` (see below).
* The inductive invariant `IdInv` has two halves. `NodeInv` says what the recorded phase
  and step stand for in the cluster: blue phases for a green without publish rollout
  (`Safe`), `GreenActive` and a deferred upgrade for a green that has the identity with
  blue down (`Handed`), a rollback for a green that publishes at most as a pod of a
  publish rollout (`Retreat`), the step `WaitGreenHealthy` for blue down and green on
  the recorded token (`Restarted`). It holds between any two writes, so a pass may end
  anywhere. `Stage` says what a running pass is, one disjunct for each kind of pass: where it
  stands, which of the situations it relies on, and which writes it may still have
  pending. The properties follow since a green pod starts publishing only as a pod of
  a template with a token or with the publishing configuration.
* The argument per step: pods and users keep every situation (`PodPersists`,
  `WorldPersists`), a write does what its place in `todo` allows (`Does`, `WriteDoes`,
  and one lemma per stage), a decision moves from one stage to the next
  (`EachDecision`).

*`BlueGreenSwitchProofs`* (from the same)

* `SwitchedInRollout`: `Faithful /\ Spec => SwitchFollowsRollout`. It is what remains true
  of the header's promise when pods change between the reads: the pod that showed the
  token is of the current rollout and blue is gone, but that pod need not be healthy
  (`SwitchEvidence`, refuted by `bg_switch`).
* The evidence is gathered, decided on and acted upon in different steps. The invariant
  `SwInv`, which stands on `IdInv`, bridges them. `Evidence` ties the history `seen` to the
  cluster: the token of a green pod of the current publish rollout is in it, and so
  is a synced blue that is wanted. `Selected` ties the Service to the recorded phase: not
  green in a blue phase, green with the recorded token in a green one, and in a cutover
  green only past the first step. The rest says which selections a pass of each kind may
  still write (`BlueKeeps`, `GreenKeeps`, `CutKeeps`, `DownKeeps`, `HoldKeeps`,
  `BackKeeps`): the one write that moves the Service is the first of its pass's last
  writes and pends with its evidence (`Poised`), after it only patches pend (`Switched`),
  and every other write of the Service selects what it selects already.
* It also needs that no pod carries the token of a new rollout before the StatefulSet
  does (`HoldKeeps`), which is where the freshness of the timestamp enters, and that `"blue"`, which stands for
  blue in `seen`, is not a token (`BlueGreenAssumption`).

*`LedgerCloseDispatcherProofs`* (from `DispatcherAssumption`)

* `TypeCorrect`, which includes that no channel exceeds its capacity.
* `DeliveryOrder`: `Spec => DeliveredInOrder`. `OrderInv` says that what the endpoint
  accepted, what the worker is at, and what its channel holds are in ascending
  order, up to the last event its hook was handed.

Only model-checked:

* all liveness (`OneLeaderInTheEnd`, `ServesAgain`, `Converges`, `NothingLeftBehind`,
  `DeletionEnds`, `RecoversByItself`, `EveryLedgerSettled`): liveness
  under fairness, ENABLED, induction over data and `RECURSIVE` operators are out of the
  prover's reach; the modules use no `RECURSIVE`;
* the five properties that are expected to be violated, `ArchivePruning` among them.

## What the models say about the code

* The lease arithmetic (15 s lease, 10 s renewal) leaves 5 s for two passes and
  the difference of the clocks. The election is correct in the sense of a lease
  with bounded overlap, not of mutual exclusion: a restarted holder that renews
  late while another replica claims the expired lease raises two flags, although
  `docs/leader-election.md:8` says it "ensures only one leader at a time".
* Releasing the lease on shutdown clears the holder but not `renewTime`, so it
  does not let a successor take over before the lease has expired.
* A single failed request of the gate ends the operator process of a leader.
* The cutover never lets two pods publish, wherever a pass is cut short and
  however pods change between reads; the weak points are the stale node, the
  discarded results of patches, the rollback that does not wait, the selector, and the
  health that is read from an earlier list of pods than the token (lines 1750 and 1755 of
  `blue_green_core.rs`): the Service may move to a pod that has only started.
* A deposed leader in the middle of a pass cannot keep a node from converging or from
  going: resources carry the node's uid, and the garbage collector and the next pass
  put right what it did. The exception is data. Deletes go by name, so a cleanup that
  outlives its node (a pass begun on a stale copy, then a takeover) deletes the volume
  of a node that was created again under the name in the meantime. That is why
  `LiveVolumeKept` and `ArchiveCheckedFirst` are stated for behaviours in which no pass
  has outlived its node; without `outlived` TLC refutes `LiveVolumeKept` in 20 states.
* The gate and the annotations keep remediation to one restart per standstill, with three
  exceptions that nothing in the code prevents: a restart that was cut short or whose
  record failed; a restart decided on an outdated copy of the annotations, or beside the
  pass of another leader before its record is written; and a patch that takes the record
  back, since it sends all annotations of such a copy.
* An outage keeps an operator from restarting pods once its own rounds have told of it.
  An operator that starts during the outage is at level Normal until then, a stopped
  scheduler shows only after two lease durations, and inconclusive probes say nothing.
* A generation that the network check has refused is marked as observed by the report of
  that refusal (`reconciler.rs:1550`). When the other node is gone, a later pass deploys
  it without the archive check.
* The traffic shift never moves anything with the repository's own `HttpHealthProbe`:
  `now` is captured (line 1032) before the samples are stamped (141), and samples newer
  than `now` are outside the window (199-202). A plan with `minSamples` and
  `minSuccessRatePercent` both 0 asks for no samples; its gate opens all the same.

Further observations that no run states as a property of its own:

* *Blue/green.* A view that still says `WaitingForGreen` scales blue up under a
  publishing green (line 1545 of `blue_green_core.rs`); a lost patch of the publish
  token (1841) blocks a cutover with blue down; with fixed selectors no cutover ends,
  since the role label is part of the selector (846). TLC refutes
  `CutoverSerializesIdentity` and `ServesAgain` with `staleCache` and `lostPatch` when
  selectors may change.
* The step `Complete` is recorded before the phase `GreenActive` (1881-1895). A
  pass cut short in between leaves `CuttingOver` with a step for which
  `plan_cutover_advance` only waits; the Service is on green by then.
* After a rollback the phase is `BlueActive` and the wanted version still differs
  from blue's, so the same rollout starts again; the header (line 26) says that
  failed rollouts stay failed until a retry is requested.
* Blue is kept at the annotated version first and at the deployed one second
  (1540), and the pass that starts a rollout still sees the annotation of an
  earlier rollout.
* *Node lifecycle.* A PVC with retention policy Retain still carries the
  ownerReference (`resources.rs:501`), so the garbage collector takes it, although
  `docs/configuration/storage.md:30` says "`Retain` keeps the PVC when the CR is
  deleted". `NothingLeftBehind` therefore lets such a volume stay and does not ask it to.
* *Remediation.* Staleness (15 minutes) is longer than the cooldown (10 minutes) and
  restarts the clock, so `can_remediate` never binds. A standstill caused by a long
  outage leads to a restart right after recovery. ClearAndResync is recommended, never
  carried out; the header (lines 15-18 of `remediation.rs`) speaks of an event for manual
  intervention, which is never emitted either.
* *Traffic shift.* The gate is not looked at again when a drain is over, although
  `docs/multi-region-failover.md:77` says that weight never moves while the gate is
  closed. A plan that
  was aborted over its error budget goes on with its next pass.
* *Dispatcher.* The header says that N+1 is never sent before N succeeds; it is once
  the retries of N are used up. The comment on the capacity speaks of dropping the
  oldest event; the new one is dropped. After a restart events begin at ledger 1. A
  worker keeps the spec it started with and does not end when its subscription does.
  A failed GET resets the counters of the status.
* *Pruning.* With `retention_ledgers` nothing is ever deleted, since every checkpoint
  has `ledger_seq` 0; for the same reason the newest may be among those deleted. The S3
  and GCS backends are not implemented.

## Not modelled

Every component is listed with its reason in `PROJECT.json`. In short: the other
rollouts (Horizon/Soroban blue/green, canary, staged), orphaned jobs, the job
registry, plain webhook delivery, failover, backup and the contracts have state and
order worth modelling and have not been reached. The admission webhook, REST API,
CLI, quorum analysis, scaling thresholds, secrets and certificates are stateless
computations, I/O or cryptography. Frontend, charts, dashboards and plugin samples
are not program logic. Of the main reconciler, the optional features of a pass
(Service, HPA, PDB, NetworkPolicy, database, mTLS, alerting) are left out, and the
phase machine, which is only logged.

## Plan

1. *Proofs*: every safety property that the runs confirm has its theorem. What is left
   are the refinements of the next item, and `ArchivePruning`, whose one run refutes what
   the guard is said to ensure.
2. *Abstract specifications*: a handover of one publishing identity, with
   `BlueGreenCore` shown to implement its cutover; a lease with bounded overlap as the
   abstraction of `LeaderElection`, and `NodeLifecycle` over it instead of `Takeover`.
3. *Canary and staged rollouts*, where the Deployment appears to be applied before the
   versions are compared; *Horizon blue/green*; *job orphans and job registry*;
   *failover*; then *backup* and the *contracts*.
