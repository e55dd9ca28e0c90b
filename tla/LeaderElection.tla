--------------------------- MODULE LeaderElection ---------------------------
(***************************************************************************)
(* Lease based leader election between the replicas of the operator.       *)
(* A replica runs up to two election loops, on the same Lease and under    *)
(* the same identity:                                                      *)
(*   gate  src/controller/leader.rs, started by src/main.rs, which runs    *)
(*         the operator while this loop leads and exits when it stops to;  *)
(*   flag  src/commands/operator.rs, started by run_operator: its is_leader*)
(*         flag is what the reconciler looks at before every pass.         *)
(* A pass of a loop captures the clock, GETs the Lease, decides, PATCHes   *)
(* or creates it, and sleeps.  The requests carry no resourceVersion, so   *)
(* the GET and the write are separate steps that interleave with others.   *)
(*                                                                         *)
(* Time is discrete.  Absolute time is not kept: the lease carries the age *)
(* of its renewTime, each loop the time since it captured its clock (lag)  *)
(* and the rest of its sleep (timer); Tick moves them all.                 *)
(***************************************************************************)
EXTENDS Integers

CONSTANTS
    Replicas,        \* the holder identities (the names of the pods)
    NoHolder,        \* holderIdentity: null
    NoLease,         \* the Lease has not been created yet
    LeaseDuration,   \* LEASE_DURATION_SECS
    RenewInterval,   \* RENEW_INTERVAL
    RetryInterval,   \* RETRY_INTERVAL
    MaxLatency,      \* longest time one election pass may take (request time-outs)
    Skew,            \* clock offset of each replica
    SkewBound,       \* bound on the offsets
    MaxFaults        \* bound on the number of crashes, API errors and shutdowns

ASSUME ReplicasAssumption ==
    /\ NoHolder \notin Replicas /\ NoLease \notin Replicas
    /\ NoHolder # NoLease

ASSUME TimingAssumption ==
    /\ LeaseDuration \in Nat \ {0}
    /\ RenewInterval \in Nat \ {0}
    /\ RetryInterval \in Nat \ {0}
    /\ MaxLatency \in Nat
    /\ SkewBound \in Nat
    /\ Skew \in [Replicas -> Int]
    /\ \A r \in Replicas : -SkewBound <= Skew[r] /\ Skew[r] <= SkewBound
    /\ MaxFaults \in Nat

\* The election loops.
Tasks == Replicas \X {"gate", "flag"}
Owner(t) == t[1]
IsGate(t) == t[2] = "gate"
Gate(r) == <<r, "gate">>
Flag(r) == <<r, "flag">>

VARIABLES
    lease,    \* the Lease object on the API server
    pc,       \* where each loop is
    timer,    \* what is left of its tokio::time::sleep
    lag,      \* time since `now` was captured by its running pass
    leader,   \* the watch value of a gate, the is_leader flag of a flag loop
    rel,      \* where release_leader_lease of each replica is
    faults,   \* faults so far
    clean,    \* history: no fault since a write that no other replica contested
    deposed   \* history: how long the loop has believed to lead without the lease

vars == <<lease, pc, timer, lag, leader, rel, faults, clean, deposed>>

Steps == {"sleep", "get", "renew", "acquire", "create", "ack", "stopped", "down"}
InFlight == {"get", "renew", "acquire", "create", "ack"}

\* Ages past AgeCap are indistinguishable: the lease is expired for everybody.
AgeCap == LeaseDuration + MaxLatency + SkewBound + 1
Older(age) == IF age < AgeCap THEN age + 1 ELSE age

\* The age of a renewTime that t takes from the `now` it captured.
Stamp(t) == lag[t] - Skew[Owner(t)]

\* Mutant of Expired: the test uses the renewal interval for the lease duration.
ExpiredEarly(t) == lease.age - Stamp(t) > RenewInterval

\* now > renewTime + leaseDurationSeconds, in ages and in the clock of t.
Expired(t) == lease.age - Stamp(t) > LeaseDuration

Init ==
    /\ lease = [holder |-> NoLease, age |-> 0]
    /\ pc = [t \in Tasks |-> IF IsGate(t) THEN "sleep" ELSE "down"]
    /\ timer = [t \in Tasks |-> 0]
    /\ lag = [t \in Tasks |-> 0]
    /\ leader = [t \in Tasks |-> FALSE]
    /\ rel = [r \in Replicas |-> "no"]
    /\ faults = 0
    /\ clean = [r \in Replicas |-> FALSE]
    /\ deposed = [t \in Tasks |-> 0]

-----------------------------------------------------------------------------
(* The outcomes of a pass of run_leader_election.                          *)

\* The process ends, and with it both loops.  main.rs first looks for a newer release
\* (check_and_notify), one request at most, during which the loops still run; it is left
\* out: a process that starts again at once may do the same under the same identity.
Exit(r) ==
    /\ pc' = [t \in Tasks |-> IF Owner(t) = r THEN "down" ELSE pc[t]]
    /\ timer' = [t \in Tasks |-> IF Owner(t) = r THEN 0 ELSE timer[t]]
    /\ lag' = [t \in Tasks |-> IF Owner(t) = r THEN 0 ELSE lag[t]]
    /\ leader' = [t \in Tasks |-> IF Owner(t) = r THEN FALSE ELSE leader[t]]
    /\ rel' = [rel EXCEPT ![r] = "no"]
    /\ deposed' = [t \in Tasks |-> IF Owner(t) = r THEN 0 ELSE deposed[t]]

\* Mutant of Won: the sleep is computed from the wrong end of the lease.
WonNegativeSleep(t) ==
    /\ pc' = [pc EXCEPT ![t] = "sleep"]
    /\ timer' = [timer EXCEPT ![t] = RenewInterval - LeaseDuration]
    /\ lag' = [lag EXCEPT ![t] = 0]
    /\ leader' = [leader EXCEPT ![t] = TRUE]

\* Ok(true): the loop believes to lead and sleeps RENEW_INTERVAL.
Won(t) ==
    /\ pc' = [pc EXCEPT ![t] = "sleep"]
    /\ timer' = [timer EXCEPT ![t] = RenewInterval]
    /\ lag' = [lag EXCEPT ![t] = 0]
    /\ leader' = [leader EXCEPT ![t] = TRUE]

\* Mutant of Retry: the flag is not lowered.
RetryKeepsFlag(t) ==
    /\ pc' = [pc EXCEPT ![t] = "sleep"]
    /\ timer' = [timer EXCEPT ![t] = RetryInterval]
    /\ lag' = [lag EXCEPT ![t] = 0]
    /\ UNCHANGED <<leader, deposed, rel>>

\* Ok(false) and Err(_): the loop knows it does not lead and sleeps RETRY_INTERVAL.
Retry(t) ==
    /\ pc' = [pc EXCEPT ![t] = "sleep"]
    /\ timer' = [timer EXCEPT ![t] = RetryInterval]
    /\ lag' = [lag EXCEPT ![t] = 0]
    /\ leader' = [leader EXCEPT ![t] = FALSE]
    /\ deposed' = [deposed EXCEPT ![t] = 0]
    /\ UNCHANGED rel

\* main.rs ends the process when the gate of a running operator stops to lead.
OperatorRuns(r) == pc[Flag(r)] # "down"
Lost(t) ==
    \/ IsGate(t) /\ OperatorRuns(Owner(t)) /\ Exit(Owner(t))
    \/ ~(IsGate(t) /\ OperatorRuns(Owner(t))) /\ Retry(t)

Fault(r) ==
    /\ faults < MaxFaults
    /\ faults' = faults + 1
    /\ clean' = [clean EXCEPT ![r] = FALSE]

\* No other replica has a write to the lease under way, and r is not leaving.
Uncontested(r) ==
    /\ rel[r] = "no"
    /\ \A t \in Tasks : Owner(t) # r => pc[t] \notin {"renew", "acquire"}
    /\ \A q \in Replicas \ {r} : rel[q] # "patch"

\* The write of t has been applied to the lease.
Written(t) ==
    /\ pc' = [pc EXCEPT ![t] = "ack"]
    /\ clean' = [clean EXCEPT ![Owner(t)] = lease'.holder = Owner(t) /\ Uncontested(Owner(t))]
    /\ deposed' = [q \in Tasks |-> IF lease'.holder = Owner(q) THEN 0 ELSE deposed[q]]
    /\ UNCHANGED <<timer, lag, leader, rel, faults>>

-----------------------------------------------------------------------------
(* try_acquire_or_renew.                                                   *)

\* The sleep is over: the loop captures `now` and sends the GET.
Wake(t) ==
    /\ pc[t] = "sleep" /\ timer[t] = 0
    /\ pc' = [pc EXCEPT ![t] = "get"]
    /\ UNCHANGED <<lease, timer, lag, leader, rel, faults, clean, deposed>>

\* The GET is answered and decides what the pass writes.
GetLease(t) ==
    /\ pc[t] = "get"
    /\ \/ /\ lease.holder = NoLease
          /\ pc' = [pc EXCEPT ![t] = "create"]
          /\ UNCHANGED <<timer, lag, leader, rel, deposed>>
       \/ /\ lease.holder = Owner(t)
          /\ pc' = [pc EXCEPT ![t] = "renew"]
          /\ UNCHANGED <<timer, lag, leader, rel, deposed>>
       \/ /\ lease.holder \notin {NoLease, Owner(t)} /\ Expired(t)
          /\ pc' = [pc EXCEPT ![t] = "acquire"]
          /\ UNCHANGED <<timer, lag, leader, rel, deposed>>
       \/ /\ lease.holder \notin {NoLease, Owner(t)} /\ ~Expired(t)
          /\ Lost(t)
    /\ UNCHANGED <<lease, faults, clean>>

\* Mutant of Renew: the PATCH leaves renewTime out.
RenewWithoutTime(t) ==
    /\ pc[t] = "renew"
    /\ lease' = [lease EXCEPT !.holder = IF IsGate(t) THEN Owner(t) ELSE @]
    /\ Written(t)

\* The renewal is applied.  The PATCH of leader.rs names the holder, so a late one
\* takes the lease back; that of operator.rs sets renewTime alone.
Renew(t) ==
    /\ pc[t] = "renew"
    /\ lease' = [lease EXCEPT !.age = Stamp(t), !.holder = IF IsGate(t) THEN Owner(t) ELSE @]
    /\ Written(t)

\* The take-over is applied: a PATCH of holderIdentity and renewTime.
Acquire(t) ==
    /\ pc[t] = "acquire"
    /\ lease' = [holder |-> Owner(t), age |-> Stamp(t)]
    /\ Written(t)

\* The create is applied, or refused with 409 because the lease exists by now.
Create(t) ==
    /\ pc[t] = "create"
    /\ \/ /\ lease.holder = NoLease
          /\ lease' = [holder |-> Owner(t), age |-> Stamp(t)]
          /\ Written(t)
       \/ /\ lease.holder # NoLease
          /\ Lost(t)
          /\ UNCHANGED <<lease, faults, clean>>

\* The answer to the write arrives.
Ack(t) ==
    /\ pc[t] = "ack"
    /\ Won(t)
    /\ UNCHANGED <<lease, rel, faults, clean, deposed>>

\* Any request of the pass fails: refused, or applied with its answer lost ("ack").
ApiError(t) ==
    /\ pc[t] \in InFlight
    /\ Fault(Owner(t))
    /\ Lost(t)
    /\ UNCHANGED lease

-----------------------------------------------------------------------------
(* Process life: start of the operator, shutdown, crash, restart.          *)

\* wait_until_leader returns; run_operator spawns its own loop.
StartOperator(r) ==
    /\ leader[Gate(r)] /\ ~OperatorRuns(r)
    /\ pc' = [pc EXCEPT ![Flag(r)] = "sleep"]
    /\ UNCHANGED <<lease, timer, lag, leader, rel, faults, clean, deposed>>

\* The signal lowers the flag.  SIGTERM leaves both loops running; SIGINT also ends
\* the flag loop (ctrl_c).
Shutdown(r) ==
    /\ OperatorRuns(r) /\ rel[r] = "no"
    /\ Fault(r)
    /\ rel' = [rel EXCEPT ![r] = "get"]
    /\ leader' = [leader EXCEPT ![Flag(r)] = FALSE]
    /\ deposed' = [deposed EXCEPT ![Flag(r)] = 0]
    /\ \/ pc' = pc /\ lag' = lag
       \/ pc' = [pc EXCEPT ![Flag(r)] = "stopped"] /\ lag' = [lag EXCEPT ![Flag(r)] = 0]
    /\ UNCHANGED <<lease, timer>>

\* release_leader_lease reads the lease and stops unless it is the holder.
ReleaseGet(r) ==
    /\ rel[r] = "get"
    /\ \/ /\ lease.holder = r
          /\ rel' = [rel EXCEPT ![r] = "patch"]
          /\ UNCHANGED <<pc, timer, lag, leader, deposed>>
       \/ Exit(r)   \* not the holder, or the GET failed
    /\ UNCHANGED <<lease, faults, clean>>

\* It clears holderIdentity, whoever holds the lease by now; an error is ignored.
ReleasePatch(r) ==
    /\ rel[r] = "patch"
    /\ \/ lease' = [lease EXCEPT !.holder = NoHolder]
       \/ lease' = lease
    /\ Exit(r)
    /\ UNCHANGED <<faults, clean>>

Crash(r) ==
    /\ pc[Gate(r)] # "down"
    /\ Fault(r)
    /\ Exit(r)
    /\ UNCHANGED lease

\* The kubelet starts the container again, under the same identity.
Restart(r) ==
    /\ pc[Gate(r)] = "down"
    /\ pc' = [pc EXCEPT ![Gate(r)] = "sleep"]
    /\ UNCHANGED <<lease, timer, lag, leader, rel, faults, clean, deposed>>

-----------------------------------------------------------------------------
\* Time passes, unless a sleep has ended or a request has used up its time.
Tick ==
    /\ \A t \in Tasks :
          /\ pc[t] = "sleep" => timer[t] > 0
          /\ pc[t] \in InFlight => lag[t] < MaxLatency
    /\ lease' = [lease EXCEPT !.age = Older(lease.age)]
    /\ timer' = [t \in Tasks |-> IF pc[t] = "sleep" THEN timer[t] - 1 ELSE timer[t]]
    /\ lag' = [t \in Tasks |-> IF pc[t] \in InFlight THEN lag[t] + 1 ELSE lag[t]]
    /\ deposed' = [t \in Tasks |->
                     IF leader[t] /\ lease.holder # Owner(t) THEN deposed[t] + 1 ELSE 0]
    /\ UNCHANGED <<pc, leader, rel, faults, clean>>

Election(t) == Wake(t) \/ GetLease(t) \/ Renew(t) \/ Acquire(t) \/ Create(t) \/ Ack(t)
Release(r) == ReleaseGet(r) \/ ReleasePatch(r)

Next ==
    \/ Tick
    \/ \E t \in Tasks : Election(t) \/ ApiError(t)
    \/ \E r \in Replicas :
          StartOperator(r) \/ Shutdown(r) \/ Release(r) \/ Crash(r) \/ Restart(r)

\* Loops are scheduled, requests are answered, the kubelet restarts containers.
Fairness ==
    /\ WF_vars(Tick)
    /\ \A t \in Tasks : WF_vars(Election(t))
    /\ \A r \in Replicas :
          WF_vars(StartOperator(r)) /\ WF_vars(Release(r)) /\ WF_vars(Restart(r))

Spec == Init /\ [][Next]_vars
FairSpec == Spec /\ Fairness

-----------------------------------------------------------------------------
TypeOK ==
    /\ lease \in [holder : Replicas \cup {NoHolder, NoLease}, age : Int]
    /\ pc \in [Tasks -> Steps]
    /\ timer \in [Tasks -> Nat]
    /\ lag \in [Tasks -> Nat]
    /\ leader \in [Tasks -> BOOLEAN]
    /\ rel \in [Replicas -> {"no", "get", "patch"}]
    /\ faults \in 0..MaxFaults
    /\ clean \in [Replicas -> BOOLEAN]
    /\ deposed \in [Tasks -> Nat]

\* The margin the constants of the code leave for latency and clock skew.
RenewalMargin ==
    \A r, q \in Replicas :
        RenewInterval + 2 * MaxLatency + Skew[q] - Skew[r] <= LeaseDuration

\* A loop that believes to lead while the lease names somebody else learns better
\* within one sleep and the two passes around it (run_leader_election).
SplitBrainIsBounded ==
    \A t \in Tasks : deposed[t] <= RenewInterval + 2 * MaxLatency

\* Nobody takes the lease from a holder that has met no fault and that nobody
\* was racing when it wrote the lease (the expiry test of try_acquire_or_renew).
HealthyHolderKeepsLease ==
    [][\A r \in Replicas : lease.holder = r /\ clean[r] => lease'.holder = r]_vars

\* What makes SplitBrainIsBounded inductive: how long a belief may have outlived the
\* lease at each point of the loop.
DeposedInv ==
    \A t \in Tasks :
        /\ lag[t] <= MaxLatency
        /\ (~leader[t] \/ lease.holder = Owner(t)) => deposed[t] = 0
        /\ pc[t] \in {"stopped", "down"} => ~leader[t]
        /\ pc[t] \notin InFlight => lag[t] = 0
        /\ leader[t] /\ pc[t] = "sleep" => deposed[t] + timer[t] <= RenewInterval + MaxLatency
        /\ pc[t] \in InFlight => deposed[t] <= RenewInterval + MaxLatency + lag[t]
        /\ pc[t] \in {"renew", "ack"} => deposed[t] <= lag[t]

\* The lease is no older than the schedule of loop t, which is going to renew it, allows.
OnSchedule(t) ==
    /\ pc[t] \in {"sleep", "get", "renew", "ack"}
    /\ pc[t] = "ack" => lease.age <= Stamp(t)
    /\ pc[t] = "sleep" => lease.age + timer[t] <= RenewInterval + MaxLatency - Skew[Owner(t)]
    /\ pc[t] \in {"get", "renew"} => lease.age <= RenewInterval + MaxLatency + Stamp(t)

\* What makes HealthyHolderKeepsLease inductive: nobody else has a write under way, and
\* the loop of the holder that wrote last, whichever it was, is on schedule.
CleanHolderInv ==
    \A r \in Replicas : lease.holder = r /\ clean[r] =>
        Uncontested(r) /\ (OnSchedule(Gate(r)) \/ OnSchedule(Flag(r)))

\* The operator of a replica starts after its gate has seen the lease, which is never
\* deleted: the gate of a running operator never tries to create it.
LeaseExistsInv ==
    /\ \A t \in Tasks :
          leader[t] \/ pc[t] \in {"renew", "acquire", "ack"} => lease.holder # NoLease
    /\ \A r \in Replicas :
          /\ OperatorRuns(r) => lease.holder # NoLease
          /\ pc[Gate(r)] = "create" => ~leader[Gate(r)] /\ ~OperatorRuns(r)

\* Once faults cease, one replica ends up leader for good, and it alone.
OneLeaderInTheEnd ==
    <>[](\E r \in Replicas :
            /\ lease.holder = r /\ leader[Flag(r)]
            /\ \A q \in Replicas \ {r} : ~leader[Flag(q)])
=============================================================================
