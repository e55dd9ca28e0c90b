------------------------ MODULE LeaderElectionProofs ------------------------
(* Proofs about LeaderElection, for every set of replicas, every choice of   *)
(* the three intervals, every latency bound and every clock skew.            *)
EXTENDS LeaderElection, TLAPS

\* The two loops of a replica, and that there are no others.
LEMMA TaskFacts ==
    /\ \A t \in Tasks : /\ Owner(t) \in Replicas
                        /\ t = Gate(Owner(t)) \/ t = Flag(Owner(t))
                        /\ IsGate(t) <=> t = Gate(Owner(t))
    /\ \A r \in Replicas : /\ Gate(r) \in Tasks /\ Flag(r) \in Tasks
                           /\ Owner(Gate(r)) = r /\ Owner(Flag(r)) = r
                           /\ Gate(r) # Flag(r)
BY DEF Tasks, Owner, Gate, Flag, IsGate

\* The history bit a write leaves in clean is a truth value.
LEMMA UncontestedIsBoolean ==
    \A r : Uncontested(r) \in BOOLEAN
BY DEF Uncontested

\* The end of a process keeps the types.
LEMMA ExitKeepsTypes ==
    ASSUME TypeOK, NEW r \in Replicas, Exit(r)
    PROVE  /\ pc' \in [Tasks -> Steps] /\ timer' \in [Tasks -> Nat]
           /\ lag' \in [Tasks -> Nat] /\ leader' \in [Tasks -> BOOLEAN]
           /\ rel' \in [Replicas -> {"no", "get", "patch"}]
           /\ deposed' \in [Tasks -> Nat]
<1>1. pc' \in [Tasks -> Steps]
  BY DEF TypeOK, Steps, Exit
<1>2. timer' \in [Tasks -> Nat] /\ lag' \in [Tasks -> Nat] /\ deposed' \in [Tasks -> Nat]
  BY DEF TypeOK, Exit
<1>3. leader' \in [Tasks -> BOOLEAN]
  BY Zenon DEF TypeOK, Exit
<1>4. rel' \in [Replicas -> {"no", "get", "patch"}]
  BY DEF TypeOK, Exit
<1> QED BY <1>1, <1>2, <1>3, <1>4

\* So does a lost pass, whether the process goes on or not.
LEMMA LostKeepsTypes ==
    ASSUME TypeOK, NEW t \in Tasks, Lost(t)
    PROVE  /\ pc' \in [Tasks -> Steps] /\ timer' \in [Tasks -> Nat]
           /\ lag' \in [Tasks -> Nat] /\ leader' \in [Tasks -> BOOLEAN]
           /\ rel' \in [Replicas -> {"no", "get", "patch"}]
           /\ deposed' \in [Tasks -> Nat]
<1>1. CASE Exit(Owner(t))
  BY <1>1, ExitKeepsTypes, TaskFacts
<1>2. CASE Retry(t)
  BY <1>2, TimingAssumption DEF TypeOK, Steps, Retry
<1> QED BY <1>1, <1>2 DEF Lost

\* And a write, with the history it leaves.
LEMMA WrittenKeepsTypes ==
    ASSUME TypeOK, NEW t \in Tasks, Written(t)
    PROVE  /\ pc' \in [Tasks -> Steps] /\ timer' \in [Tasks -> Nat]
           /\ lag' \in [Tasks -> Nat] /\ leader' \in [Tasks -> BOOLEAN]
           /\ rel' \in [Replicas -> {"no", "get", "patch"}]
           /\ faults' \in 0..MaxFaults
           /\ clean' \in [Replicas -> BOOLEAN]
           /\ deposed' \in [Tasks -> Nat]
<1>1. clean' \in [Replicas -> BOOLEAN]
  BY TaskFacts, UncontestedIsBoolean DEF TypeOK, Written
<1> QED BY <1>1, TaskFacts DEF TypeOK, Steps, Written

\* Every step of the election keeps the variables in their types.
THEOREM TypeCorrect == Spec => []TypeOK
<1>1. Init => TypeOK
  BY TimingAssumption DEF Init, TypeOK, Steps
<1>2. TypeOK /\ [Next]_vars => TypeOK'
  <2> SUFFICES ASSUME TypeOK, [Next]_vars PROVE TypeOK'
    OBVIOUS
  <2> USE TimingAssumption, TaskFacts
  <2>1. CASE Tick
    BY <2>1 DEF Tick, Older, AgeCap, InFlight, TypeOK, Steps
  <2>2. ASSUME NEW t \in Tasks, Election(t) PROVE TypeOK'
    <3>0. Stamp(t) \in Int
      BY DEF TypeOK, Stamp
    <3>1. CASE Wake(t)
      BY <3>1 DEF Wake, TypeOK, Steps
    <3>2. CASE GetLease(t)
      <4>1. CASE Lost(t) /\ UNCHANGED <<lease, faults, clean>>
        BY <4>1, LostKeepsTypes DEF TypeOK
      <4>2. CASE /\ \E s \in {"create", "renew", "acquire"} : pc' = [pc EXCEPT ![t] = s]
                 /\ UNCHANGED <<lease, timer, lag, leader, rel, faults, clean, deposed>>
        BY <4>2 DEF TypeOK, Steps
      <4> QED BY <3>2, <4>1, <4>2 DEF GetLease
    <3>3. CASE Renew(t)
      BY <3>0, <3>3, WrittenKeepsTypes DEF Renew, TypeOK
    <3>4. CASE Acquire(t)
      BY <3>0, <3>4, WrittenKeepsTypes DEF Acquire, TypeOK
    <3>5. CASE Create(t)
      <4>1. CASE Lost(t) /\ UNCHANGED <<lease, faults, clean>>
        BY <4>1, LostKeepsTypes DEF TypeOK
      <4>2. CASE lease' = [holder |-> Owner(t), age |-> Stamp(t)] /\ Written(t)
        BY <3>0, <4>2, WrittenKeepsTypes DEF TypeOK
      <4> QED BY <3>5, <4>1, <4>2 DEF Create
    <3>6. CASE Ack(t)
      BY <3>6 DEF Ack, Won, TypeOK, Steps
    <3> QED BY <2>2, <3>1, <3>2, <3>3, <3>4, <3>5, <3>6 DEF Election
  <2>3. ASSUME NEW t \in Tasks, ApiError(t) PROVE TypeOK'
    BY <2>3, LostKeepsTypes DEF ApiError, Fault, TypeOK
  <2>4. ASSUME NEW r \in Replicas, StartOperator(r) PROVE TypeOK'
    BY <2>4 DEF StartOperator, TypeOK, Steps
  <2>5. ASSUME NEW r \in Replicas, Shutdown(r) PROVE TypeOK'
    BY <2>5 DEF Shutdown, Fault, TypeOK, Steps
  <2>6. ASSUME NEW r \in Replicas, Release(r) PROVE TypeOK'
    <3>1. CASE ReleaseGet(r)
      <4>1. CASE Exit(r)
        BY <3>1, <4>1, ExitKeepsTypes DEF ReleaseGet, TypeOK
      <4>2. CASE /\ rel' = [rel EXCEPT ![r] = "patch"]
                 /\ UNCHANGED <<pc, timer, lag, leader, deposed>>
        BY <3>1, <4>2 DEF ReleaseGet, TypeOK
      <4> QED BY <3>1, <4>1, <4>2 DEF ReleaseGet
    <3>2. CASE ReleasePatch(r)
      BY <3>2, ExitKeepsTypes DEF ReleasePatch, TypeOK
    <3> QED BY <2>6, <3>1, <3>2 DEF Release
  <2>7. ASSUME NEW r \in Replicas, Crash(r) PROVE TypeOK'
    BY <2>7, ExitKeepsTypes DEF Crash, Fault, TypeOK
  <2>8. ASSUME NEW r \in Replicas, Restart(r) PROVE TypeOK'
    BY <2>8 DEF Restart, TypeOK, Steps
  <2>9. CASE UNCHANGED vars
    BY <2>9 DEF vars, TypeOK
  <2> QED BY <2>1, <2>2, <2>3, <2>4, <2>5, <2>6, <2>7, <2>8, <2>9 DEF Next
<1> QED BY <1>1, <1>2, PTL DEF Spec

-----------------------------------------------------------------------------
\* A process that ends, and a loop that gives up, take their beliefs with them.
LEMMA ExitKeepsDeposed ==
    ASSUME TypeOK, NEW r \in Replicas, Exit(r), NEW p \in Tasks, DeposedInv!(p),
           lease'.holder = lease.holder \/ lease'.holder = NoHolder
    PROVE  DeposedInv!(p)'
<1>1. CASE Owner(p) = r
  <2>1. /\ pc'[p] = "down" /\ timer'[p] = 0 /\ lag'[p] = 0
        /\ leader'[p] = FALSE /\ deposed'[p] = 0
    BY <1>1 DEF Exit
  <2> QED BY <2>1, TimingAssumption DEF InFlight
<1>2. CASE Owner(p) # r
  <2>1. /\ pc'[p] = pc[p] /\ timer'[p] = timer[p] /\ lag'[p] = lag[p]
        /\ leader'[p] = leader[p] /\ deposed'[p] = deposed[p]
    BY <1>2 DEF Exit
  <2> QED BY <2>1, TaskFacts, ReplicasAssumption DEF InFlight
<1> QED BY <1>1, <1>2

LEMMA LostKeepsDeposed ==
    ASSUME TypeOK, NEW t \in Tasks, Lost(t), NEW p \in Tasks, DeposedInv!(p),
           lease' = lease
    PROVE  DeposedInv!(p)'
<1>1. CASE Exit(Owner(t))
  BY <1>1, ExitKeepsDeposed, TaskFacts
<1>2. CASE Retry(t)
  BY <1>2, TimingAssumption DEF TypeOK, Retry, InFlight
<1> QED BY <1>1, <1>2 DEF Lost

\* How long a belief can have outlived the lease, at every point of a loop.
LEMMA DeposedInvStep ==
    ASSUME TypeOK, DeposedInv, [Next]_vars
    PROVE  DeposedInv'
<1> USE TimingAssumption, ReplicasAssumption, TaskFacts DEF InFlight
<1> SUFFICES ASSUME NEW p \in Tasks PROVE DeposedInv!(p)'
  BY DEF DeposedInv
<1>0. DeposedInv!(p)
  BY DEF DeposedInv
<1>1. CASE Tick
  BY <1>0, <1>1 DEF TypeOK, Tick, Steps
<1>2. ASSUME NEW t \in Tasks, Election(t) PROVE DeposedInv!(p)'
  <2>1. CASE Wake(t)
    BY <1>0, <2>1 DEF TypeOK, Wake
  <2>2. CASE GetLease(t)
    <3>1. CASE Lost(t)
      BY <1>0, <2>2, <3>1, LostKeepsDeposed DEF GetLease
    <3>2. CASE ~Lost(t)
      BY <1>0, <2>2, <3>2 DEF TypeOK, GetLease
    <3> QED BY <3>1, <3>2
  <2>3. CASE Renew(t)
    BY <1>0, <2>3 DEF TypeOK, Renew, Written
  <2>4. CASE Acquire(t)
    BY <1>0, <2>4 DEF TypeOK, Acquire, Written
  <2>5. CASE Create(t)
    <3>1. CASE Lost(t) /\ lease' = lease
      BY <1>0, <3>1, LostKeepsDeposed
    <3>2. CASE lease' = [holder |-> Owner(t), age |-> Stamp(t)] /\ Written(t)
      BY <1>0, <2>5, <3>2 DEF TypeOK, Create, Written
    <3> QED BY <2>5, <3>1, <3>2 DEF Create
  <2>6. CASE Ack(t)
    BY <1>0, <2>6 DEF TypeOK, Ack, Won
  <2> QED BY <1>2, <2>1, <2>2, <2>3, <2>4, <2>5, <2>6 DEF Election
<1>3. ASSUME NEW t \in Tasks, ApiError(t) PROVE DeposedInv!(p)'
  BY <1>0, <1>3, LostKeepsDeposed DEF ApiError
<1>4. ASSUME NEW r \in Replicas, StartOperator(r) PROVE DeposedInv!(p)'
  BY <1>0, <1>4 DEF TypeOK, StartOperator, OperatorRuns
<1>5. ASSUME NEW r \in Replicas, Shutdown(r) PROVE DeposedInv!(p)'
  BY <1>0, <1>5 DEF TypeOK, Shutdown, Fault
<1>6. ASSUME NEW r \in Replicas, Release(r) PROVE DeposedInv!(p)'
  <2>1. CASE ReleaseGet(r)
    <3>1. CASE Exit(r)
      BY <1>0, <2>1, <3>1, ExitKeepsDeposed DEF ReleaseGet
    <3>2. CASE ~Exit(r)
      BY <1>0, <2>1, <3>2 DEF ReleaseGet
    <3> QED BY <3>1, <3>2
  <2>2. CASE ReleasePatch(r)
    BY <1>0, <2>2, ExitKeepsDeposed DEF ReleasePatch, TypeOK
  <2> QED BY <1>6, <2>1, <2>2 DEF Release
<1>7. ASSUME NEW r \in Replicas, Crash(r) PROVE DeposedInv!(p)'
  BY <1>0, <1>7, ExitKeepsDeposed DEF Crash
<1>8. ASSUME NEW r \in Replicas, Restart(r) PROVE DeposedInv!(p)'
  BY <1>0, <1>8 DEF TypeOK, Restart
<1>9. CASE UNCHANGED vars
  BY <1>0, <1>9 DEF vars
<1> QED BY <1>1, <1>2, <1>3, <1>4, <1>5, <1>6, <1>7, <1>8, <1>9 DEF Next

\* Before the first pass no loop believes to lead, so none has outlived a lease.
LEMMA SplitBrainInit == Init => DeposedInv
<1> SUFFICES ASSUME Init, NEW t \in Tasks PROVE DeposedInv!(t)
  BY DEF DeposedInv
<1>1. /\ lag[t] = 0 /\ deposed[t] = 0 /\ timer[t] = 0
      /\ leader[t] = FALSE /\ pc[t] \in {"sleep", "down"}
  BY DEF Init
<1> QED BY <1>1, TimingAssumption DEF InFlight

\* Split brain ends: no belief outlives the lease by more than one sleep and the two
\* passes around it, for any number of replicas.
THEOREM SplitBrainBound == Spec => []SplitBrainIsBounded
<1>1. Init => DeposedInv
  BY SplitBrainInit
<1>2. TypeOK /\ DeposedInv /\ [Next]_vars => DeposedInv'
  BY DeposedInvStep
<1>3. TypeOK /\ DeposedInv => SplitBrainIsBounded
  <2> SUFFICES ASSUME TypeOK, DeposedInv, NEW t \in Tasks
               PROVE  deposed[t] <= RenewInterval + 2 * MaxLatency
    BY DEF SplitBrainIsBounded
  <2> QED BY TimingAssumption DEF TypeOK, DeposedInv, InFlight, Steps
<1> QED BY <1>1, <1>2, <1>3, TypeCorrect, PTL DEF Spec
-----------------------------------------------------------------------------
\* The lease is there from before an operator starts, and stays.
LEMMA LeaseExistsInvStep ==
    ASSUME TypeOK, DeposedInv, LeaseExistsInv, [Next]_vars
    PROVE  LeaseExistsInv'
<1> DEFINE Others == /\ \A t \in Tasks :
                          leader'[t] \/ pc'[t] \in {"renew", "acquire", "ack"} =>
                             leader[t] \/ pc[t] \in {"renew", "acquire", "ack"}
                     /\ \A r \in Replicas :
                          /\ pc'[Flag(r)] # "down" => pc[Flag(r)] # "down"
                          /\ pc'[Gate(r)] = "create" => pc[Gate(r)] = "create"
<1> USE TaskFacts, ReplicasAssumption
<1>a. ASSUME Others, lease'.holder = lease.holder \/ lease'.holder = NoHolder
      PROVE  LeaseExistsInv'
  BY <1>a DEF LeaseExistsInv, OperatorRuns
<1>b. ASSUME NEW r \in Replicas, Exit(r) PROVE Others
  BY <1>b DEF TypeOK, Exit
<1>c. ASSUME NEW t \in Tasks, pc[t] # "down", Lost(t) PROVE Others
  <2>1. CASE Exit(Owner(t))
    BY <1>b, <2>1
  <2>2. CASE Retry(t)
    <3>1. pc'[t] = "sleep" /\ leader'[t] = FALSE
      BY <2>2 DEF TypeOK, Retry
    <3>2. \A q \in Tasks \ {t} : pc'[q] = pc[q] /\ leader'[q] = leader[q]
      BY <2>2 DEF TypeOK, Retry
    <3> QED BY <1>c, <3>1, <3>2
  <2> QED BY <1>c, <2>1, <2>2 DEF Lost
<1>d. ASSUME NEW t \in Tasks, pc[t] \in {"renew", "acquire", "create"}, Written(t),
             lease'.holder \in {lease.holder, Owner(t)},
             lease.holder = NoLease => lease'.holder = Owner(t)
      PROVE  LeaseExistsInv'
  BY <1>d DEF TypeOK, Written, LeaseExistsInv, OperatorRuns
<1> HIDE DEF Others
<1>1. CASE Tick
  BY <1>1 DEF Tick, LeaseExistsInv, OperatorRuns
<1>2. ASSUME NEW t \in Tasks, Election(t) PROVE LeaseExistsInv'
  <2>1. CASE Wake(t)
    BY <2>1 DEF TypeOK, Wake, LeaseExistsInv, OperatorRuns
  <2>2. CASE GetLease(t)
    <3>1. CASE Lost(t)
      BY <1>a, <1>c, <2>2, <3>1 DEF GetLease
    <3>2. CASE ~Lost(t)
      BY <2>2, <3>2 DEF TypeOK, GetLease, LeaseExistsInv, OperatorRuns
    <3> QED BY <3>1, <3>2
  <2>3. CASE Renew(t)
    BY <1>d, <2>3 DEF TypeOK, Renew, LeaseExistsInv
  <2>4. CASE Acquire(t)
    BY <1>d, <2>4 DEF TypeOK, Acquire, LeaseExistsInv
  <2>5. CASE Create(t)
    <3>1. CASE Lost(t) /\ lease' = lease
      BY <1>a, <1>c, <2>5, <3>1 DEF Create
    <3>2. CASE lease' = [holder |-> Owner(t), age |-> Stamp(t)] /\ Written(t)
      BY <1>d, <2>5, <3>2 DEF Create
    <3> QED BY <2>5, <3>1, <3>2 DEF Create
  <2>6. CASE Ack(t)
    BY <2>6 DEF TypeOK, Ack, Won, LeaseExistsInv, OperatorRuns
  <2> QED BY <1>2, <2>1, <2>2, <2>3, <2>4, <2>5, <2>6 DEF Election
<1>3. ASSUME NEW t \in Tasks, ApiError(t) PROVE LeaseExistsInv'
  BY <1>a, <1>c, <1>3 DEF ApiError, InFlight
<1>4. ASSUME NEW r \in Replicas, StartOperator(r) PROVE LeaseExistsInv'
  BY <1>4 DEF TypeOK, StartOperator, LeaseExistsInv, OperatorRuns
<1>5. ASSUME NEW r \in Replicas, Shutdown(r) PROVE LeaseExistsInv'
  BY <1>5 DEF TypeOK, Shutdown, LeaseExistsInv, OperatorRuns
<1>6. ASSUME NEW r \in Replicas, Release(r) PROVE LeaseExistsInv'
  <2>1. CASE Exit(r)
    BY <1>6, <1>a, <1>b, <2>1 DEF TypeOK, Release, ReleaseGet, ReleasePatch
  <2>2. CASE ~Exit(r)
    BY <1>6, <2>2 DEF Release, ReleaseGet, ReleasePatch, LeaseExistsInv, OperatorRuns
  <2> QED BY <2>1, <2>2
<1>7. ASSUME NEW r \in Replicas, Crash(r) PROVE LeaseExistsInv'
  BY <1>a, <1>b, <1>7 DEF Crash
<1>8. ASSUME NEW r \in Replicas, Restart(r) PROVE LeaseExistsInv'
  BY <1>8 DEF TypeOK, Restart, DeposedInv, LeaseExistsInv, OperatorRuns
<1>9. CASE UNCHANGED vars
  BY <1>9 DEF vars, LeaseExistsInv, OperatorRuns
<1> QED BY <1>1, <1>2, <1>3, <1>4, <1>5, <1>6, <1>7, <1>8, <1>9 DEF Next

\* A loop that no step touches stays on schedule.
LEMMA UntouchedOnSchedule ==
    ASSUME NEW w \in Tasks, OnSchedule(w), lease' = lease,
           pc'[w] = pc[w], timer'[w] = timer[w], lag'[w] = lag[w]
    PROVE  OnSchedule(w)'
BY DEF OnSchedule, Stamp

\* A write of its own puts the schedule of the holder on the loop that wrote.
LEMMA WrittenKeepsClean ==
    ASSUME TypeOK, CleanHolderInv, NEW t \in Tasks, Written(t),
           pc[t] \in {"renew", "acquire", "create"},
           lease.holder = NoLease \/ pc[t] # "create",
           lease'.age = Stamp(t),
           lease'.holder \in {lease.holder, Owner(t)},
           NEW p \in Replicas, lease'.holder = p, clean'[p]
    PROVE  Uncontested(p)' /\ (OnSchedule(Gate(p))' \/ OnSchedule(Flag(p))')
<1> USE TaskFacts, ReplicasAssumption, TimingAssumption
<1>1. Owner(t) = p
  <2> SUFFICES ASSUME Owner(t) # p PROVE FALSE
    OBVIOUS
  <2>1. lease.holder = p /\ clean[p]
    BY DEF TypeOK, Written
  <2>2. Uncontested(p)
    BY <2>1 DEF CleanHolderInv
  <2> QED BY <2>1, <2>2 DEF Uncontested
<1>2. Uncontested(p)
  BY <1>1 DEF TypeOK, Written
<1>3. Uncontested(p)'
  BY <1>1, <1>2 DEF TypeOK, Written, Uncontested
<1>4. OnSchedule(t)'
  <2>0. pc'[t] = "ack" /\ lag' = lag
    BY DEF TypeOK, Written
  <2>1. Stamp(t)' = Stamp(t) /\ Stamp(t) \in Int
    BY <2>0 DEF TypeOK, Stamp
  <2>2. lease'.age <= Stamp(t)'
    BY <2>1
  <2> QED BY <2>0, <2>2 DEF OnSchedule
<1> QED BY <1>1, <1>3, <1>4

\* The end or the failed pass of another replica does not touch a clean holder.
LEMMA OthersLeave ==
    ASSUME TypeOK, NEW r \in Replicas, NEW p \in Replicas \ {r}, lease' = lease,
           Exit(r) \/ \E t \in Tasks : Owner(t) = r /\ Retry(t),
           Uncontested(p), OnSchedule(Gate(p)) \/ OnSchedule(Flag(p))
    PROVE  Uncontested(p)' /\ (OnSchedule(Gate(p))' \/ OnSchedule(Flag(p))')
<1> USE TaskFacts
<1>1. ASSUME NEW w \in Tasks, Owner(w) = p
      PROVE  pc'[w] = pc[w] /\ timer'[w] = timer[w] /\ lag'[w] = lag[w]
  <2>1. CASE Exit(r)
    BY <1>1, <2>1 DEF Exit
  <2>2. ASSUME NEW t \in Tasks, Owner(t) = r, Retry(t)
        PROVE  pc'[w] = pc[w] /\ timer'[w] = timer[w] /\ lag'[w] = lag[w]
    BY <1>1, <2>2 DEF TypeOK, Retry
  <2> QED BY <2>1, <2>2
<1>2. Uncontested(p)'
  <2>1. CASE Exit(r)
    BY <2>1 DEF TypeOK, Exit, Uncontested
  <2>2. ASSUME NEW t \in Tasks, Owner(t) = r, Retry(t) PROVE Uncontested(p)'
    BY <2>2 DEF TypeOK, Retry, Uncontested
  <2> QED BY <2>1, <2>2
<1>3. \A w \in Tasks : Owner(w) = p /\ OnSchedule(w) => OnSchedule(w)'
  BY <1>1, UntouchedOnSchedule
<1> QED BY <1>2, <1>3

\* The lease of a clean holder is as young as its schedule promises, and every other
\* replica that looks at it finds it valid, if the margin allows for it.
LEMMA CleanHolderInvStep ==
    ASSUME TypeOK, DeposedInv, LeaseExistsInv, CleanHolderInv, [Next]_vars, RenewalMargin
    PROVE  CleanHolderInv'
<1> USE TimingAssumption, ReplicasAssumption, TaskFacts
<1> SUFFICES ASSUME NEW p \in Replicas, lease'.holder = p, clean'[p]
             PROVE  Uncontested(p)' /\ (OnSchedule(Gate(p))' \/ OnSchedule(Flag(p))')
  BY DEF CleanHolderInv
<1> DEFINE Goal == Uncontested(p)' /\ (OnSchedule(Gate(p))' \/ OnSchedule(Flag(p))')
<1>a. ASSUME lease.holder = p, clean[p] 
      PROVE  Uncontested(p) /\ \E w \in Tasks : Owner(w) = p /\ OnSchedule(w)
  BY <1>a DEF CleanHolderInv
<1>b. ASSUME lease.holder = p, clean[p], NEW t \in Tasks, Owner(t) # p PROVE ~Expired(t)
  <2>1. PICK w \in Tasks : Owner(w) = p /\ OnSchedule(w)
    BY <1>a, <1>b
  <2>2. /\ lag[t] \in Nat /\ lag[w] \in Nat /\ lag[w] <= MaxLatency /\ timer[w] \in Nat
        /\ lease.age \in Int /\ Skew[p] \in Int /\ Skew[Owner(t)] \in Int
    BY DEF TypeOK, DeposedInv
  <2>3. lease.age <= RenewInterval + 2 * MaxLatency - Skew[p]
    BY <2>1, <2>2 DEF OnSchedule, Stamp
  <2>4. RenewInterval + 2 * MaxLatency + Skew[Owner(t)] - Skew[p] <= LeaseDuration
    BY DEF RenewalMargin
  <2> QED BY <2>2, <2>3, <2>4 DEF Expired, Stamp
<1>c. ASSUME lease.holder = p, clean[p], lease' = lease,
             NEW t \in Tasks, Lost(t), Owner(t) # p \/ pc[t] = "create"
      PROVE  Goal
  <2>0. Uncontested(p) /\ (OnSchedule(Gate(p)) \/ OnSchedule(Flag(p)))
    BY <1>c DEF CleanHolderInv
  <2>1. CASE Owner(t) # p
    BY <1>c, <2>0, <2>1, OthersLeave DEF Lost
  <2>2. CASE Owner(t) = p
    <3>1. Retry(t)
      BY <1>c, <2>2 DEF LeaseExistsInv, Lost
    <3>2. PICK w \in Tasks : Owner(w) = p /\ OnSchedule(w)
      BY <1>a, <1>c
    <3>3. w # t
      BY <1>c, <2>2, <3>2 DEF OnSchedule
    <3>4. OnSchedule(w)'
      BY <1>c, <3>1, <3>2, <3>3, UntouchedOnSchedule DEF TypeOK, Retry
    <3>5. Uncontested(p)'
      BY <2>0, <3>1 DEF TypeOK, Retry, Uncontested
    <3> QED BY <3>2, <3>4, <3>5
  <2> QED BY <2>1, <2>2
<1>1. CASE Tick
  <2>1. PICK w \in Tasks : Owner(w) = p /\ OnSchedule(w)
    BY <1>1, <1>a DEF TypeOK, Tick
  <2>2. OnSchedule(w)'
    BY <1>1, <2>1 DEF TypeOK, Tick, OnSchedule, Stamp, InFlight, Older
  <2>3. Uncontested(p)'
    BY <1>1, <1>a DEF TypeOK, Tick, Uncontested
  <2> QED BY <2>1, <2>2, <2>3
<1>2. ASSUME NEW t \in Tasks, Election(t) PROVE Goal
  <2>1. CASE Wake(t)
    <3>1. PICK w \in Tasks : Owner(w) = p /\ OnSchedule(w)
      BY <1>a, <2>1 DEF Wake
    <3>2. OnSchedule(w)'
      BY <2>1, <3>1 DEF TypeOK, DeposedInv, InFlight, Wake, OnSchedule, Stamp
    <3>3. Uncontested(p)'
      BY <1>a, <2>1 DEF TypeOK, Wake, Uncontested
    <3> QED BY <3>1, <3>2, <3>3
  <2>2. CASE GetLease(t)
    <3>0. lease.holder = p /\ clean[p] /\ lease' = lease
      BY <2>2 DEF GetLease
    <3>1. CASE lease.holder # Owner(t) /\ Lost(t)
      BY <1>c, <3>0, <3>1
    <3>2. CASE lease.holder = Owner(t) /\ pc' = [pc EXCEPT ![t] = "renew"]
               /\ UNCHANGED <<timer, lag, rel>>
      <4>1. PICK w \in Tasks : Owner(w) = p /\ OnSchedule(w)
        BY <1>a, <3>0
      <4>2. OnSchedule(w)'
        BY <2>2, <3>0, <3>2, <4>1 DEF TypeOK, GetLease, OnSchedule, Stamp
      <4>3. Uncontested(p)'
        BY <1>a, <3>0, <3>2 DEF TypeOK, Uncontested
      <4> QED BY <4>1, <4>2, <4>3
    <3> QED BY <1>b, <2>2, <3>0, <3>1, <3>2 DEF GetLease
  <2>3. CASE Renew(t)
    <3>1. pc[t] = "renew" /\ Written(t) /\ lease'.age = Stamp(t)
          /\ lease'.holder \in {lease.holder, Owner(t)}
      BY <2>3 DEF TypeOK, Renew
    <3> QED BY <3>1, WrittenKeepsClean
  <2>4. CASE Acquire(t)
    BY <2>4, WrittenKeepsClean DEF Acquire
  <2>5. CASE Create(t)
    <3>1. CASE Lost(t) /\ UNCHANGED <<lease, clean>>
      BY <1>c, <2>5, <3>1 DEF Create
    <3>2. CASE lease.holder = NoLease /\ lease' = [holder |-> Owner(t), age |-> Stamp(t)]
               /\ Written(t)
      BY <2>5, <3>2, WrittenKeepsClean DEF Create
    <3> QED BY <2>5, <3>1, <3>2 DEF Create
  <2>6. CASE Ack(t)
    <3>1. PICK w \in Tasks : Owner(w) = p /\ OnSchedule(w)
      BY <1>a, <2>6 DEF Ack
    <3>2. OnSchedule(w)'
      BY <2>6, <3>1 DEF TypeOK, DeposedInv, Ack, Won, OnSchedule, Stamp
    <3>3. Uncontested(p)'
      BY <1>a, <2>6 DEF TypeOK, Ack, Won, Uncontested
    <3> QED BY <3>1, <3>2, <3>3
  <2> QED BY <1>2, <2>1, <2>2, <2>3, <2>4, <2>5, <2>6 DEF Election
<1>3. ASSUME NEW t \in Tasks, ApiError(t) PROVE Goal
  <2>1. Owner(t) # p /\ clean[p] /\ lease' = lease /\ Lost(t)
    BY <1>3 DEF TypeOK, ApiError, Fault
  <2> QED BY <1>c, <2>1
<1>4. ASSUME NEW r \in Replicas, StartOperator(r) PROVE Goal
  <2>1. PICK w \in Tasks : Owner(w) = p /\ OnSchedule(w)
    BY <1>a, <1>4 DEF StartOperator
  <2>2. w # Flag(r)
    BY <1>4, <2>1 DEF StartOperator, OperatorRuns, OnSchedule
  <2>3. OnSchedule(w)'
    BY <1>4, <2>1, <2>2, UntouchedOnSchedule DEF TypeOK, StartOperator
  <2>4. Uncontested(p)'
    BY <1>a, <1>4 DEF TypeOK, StartOperator, Uncontested
  <2> QED BY <2>1, <2>3, <2>4
<1>5. ASSUME NEW r \in Replicas, Shutdown(r) PROVE Goal
  <2>1. r # p /\ clean[p] /\ lease' = lease
    BY <1>5 DEF TypeOK, Shutdown, Fault
  <2>2. PICK w \in Tasks : Owner(w) = p /\ OnSchedule(w)
    BY <1>a, <2>1
  <2>3. OnSchedule(w)'
    BY <1>5, <2>1, <2>2, UntouchedOnSchedule DEF TypeOK, Shutdown
  <2>4. Uncontested(p)'
    BY <1>a, <1>5, <2>1 DEF TypeOK, Shutdown, Uncontested
  <2> QED BY <2>2, <2>3, <2>4
<1>6. ASSUME NEW r \in Replicas, Release(r) PROVE Goal
  <2>0. lease.holder = p /\ clean[p] /\ lease' = lease
    <3>1. CASE lease' = lease
      BY <1>6, <3>1 DEF Release, ReleaseGet, ReleasePatch
    <3>2. CASE lease' = [lease EXCEPT !.holder = NoHolder]
      BY <3>2 DEF TypeOK
    <3> QED BY <1>6, <3>1, <3>2 DEF Release, ReleaseGet, ReleasePatch
  <2>1. Uncontested(p) /\ (OnSchedule(Gate(p)) \/ OnSchedule(Flag(p)))
    BY <2>0 DEF CleanHolderInv
  <2>2. r # p
    BY <1>6, <2>1 DEF Release, ReleaseGet, ReleasePatch, Uncontested
  <2>3. Exit(r)
    BY <1>6, <2>0, <2>2 DEF Release, ReleaseGet, ReleasePatch
  <2> QED BY <2>0, <2>1, <2>2, <2>3, OthersLeave
<1>7. ASSUME NEW r \in Replicas, Crash(r) PROVE Goal
  <2>1. r # p /\ clean[p] /\ lease' = lease /\ Exit(r)
    BY <1>7 DEF TypeOK, Crash, Fault
  <2>2. Uncontested(p) /\ (OnSchedule(Gate(p)) \/ OnSchedule(Flag(p)))
    BY <2>1 DEF CleanHolderInv
  <2> QED BY <2>1, <2>2, OthersLeave
<1>8. ASSUME NEW r \in Replicas, Restart(r) PROVE Goal
  <2>1. PICK w \in Tasks : Owner(w) = p /\ OnSchedule(w)
    BY <1>a, <1>8 DEF Restart
  <2>2. w # Gate(r)
    BY <1>8, <2>1 DEF Restart, OnSchedule
  <2>3. OnSchedule(w)'
    BY <1>8, <2>1, <2>2, UntouchedOnSchedule DEF TypeOK, Restart
  <2>4. Uncontested(p)'
    BY <1>a, <1>8 DEF TypeOK, Restart, Uncontested
  <2> QED BY <2>1, <2>3, <2>4
<1>9. CASE UNCHANGED vars
  <2>1. PICK w \in Tasks : Owner(w) = p /\ OnSchedule(w)
    BY <1>a, <1>9 DEF vars
  <2>2. OnSchedule(w)'
    BY <1>9, <2>1, UntouchedOnSchedule DEF vars
  <2>3. Uncontested(p)'
    BY <1>a, <1>9 DEF vars, Uncontested
  <2> QED BY <2>1, <2>2, <2>3
<1> QED BY <1>1, <1>2, <1>3, <1>4, <1>5, <1>6, <1>7, <1>8, <1>9 DEF Next

\* With a sufficient margin, no step ever takes the lease from a clean holder
\* (lease_expired in both loops of the election).
THEOREM HealthyHolder == RenewalMargin /\ Spec => HealthyHolderKeepsLease
<1> SUFFICES ASSUME RenewalMargin PROVE Spec => HealthyHolderKeepsLease
  OBVIOUS
<1>1. Init => DeposedInv /\ LeaseExistsInv /\ CleanHolderInv
  <2>1. Init => LeaseExistsInv
    BY TaskFacts DEF Init, LeaseExistsInv, OperatorRuns
  <2>2. Init => CleanHolderInv
    BY ReplicasAssumption DEF Init, CleanHolderInv
  <2> QED BY <2>1, <2>2, SplitBrainInit
<1>2. TypeOK /\ DeposedInv /\ LeaseExistsInv /\ CleanHolderInv /\ [Next]_vars
        => DeposedInv' /\ LeaseExistsInv' /\ CleanHolderInv'
  BY DeposedInvStep, LeaseExistsInvStep, CleanHolderInvStep
<1>3. ASSUME TypeOK, CleanHolderInv, [Next]_vars, NEW r \in Replicas,
             lease.holder = r, clean[r]
      PROVE  lease'.holder = r
  <2> USE TaskFacts, ReplicasAssumption
  <2>0. Uncontested(r)
    BY <1>3 DEF CleanHolderInv
  <2>1. ASSUME NEW t \in Tasks, Election(t) PROVE lease'.holder = r
    <3>1. CASE Renew(t)
      BY <1>3, <2>0, <3>1 DEF TypeOK, Uncontested, Renew
    <3>2. CASE Acquire(t)
      BY <1>3, <2>0, <3>2 DEF TypeOK, Uncontested, Acquire
    <3> QED BY <1>3, <2>1, <3>1, <3>2 DEF Election, Wake, GetLease, Create, Ack
  <2>2. ASSUME NEW q \in Replicas, Release(q) PROVE lease'.holder = r
    BY <1>3, <2>0, <2>2 DEF Release, ReleaseGet, ReleasePatch, Uncontested
  <2>3. CASE Tick
    BY <1>3, <2>3 DEF TypeOK, Tick
  <2> QED BY <1>3, <2>1, <2>2, <2>3
          DEF Next, ApiError, StartOperator, Shutdown, Crash, Restart, vars
<1>4. TypeOK /\ CleanHolderInv /\ [Next]_vars
        => [\A r \in Replicas : lease.holder = r /\ clean[r] => lease'.holder = r]_vars
  BY <1>3
<1> QED BY <1>1, <1>2, <1>4, TypeCorrect, PTL DEF Spec, HealthyHolderKeepsLease
=============================================================================
