--------------------- MODULE LedgerCloseDispatcherProofs ---------------------
(***************************************************************************)
(* Proofs about LedgerCloseDispatcher, for any number of hooks, channels   *)
(* of any capacity, and any number of retries, failures and crashes: the   *)
(* type invariant and the order of delivery.  Order rests on OrderInv: the *)
(* endpoint, the worker, the channel and the poll loop of a hook hold      *)
(* ledgers in this order, and only the loop adds new ones.                 *)
(***************************************************************************)
EXTENDS LedgerCloseDispatcher, TLAPS

\* The last ledger the poll loop has handed to hook h.
Upto(h) == IF event = 0 THEN seen ELSE IF h \in left THEN event - 1 ELSE event

\* Accepted ledger p, worker's ledger j (0: none), channel c and handed ledger u, in order.
Ordered(p, j, c, u) ==
    /\ p <= u /\ j <= u /\ (j # 0 => p <= j)
    /\ \A i \in 1..Len(c) : p < c[i] /\ j < c[i] /\ c[i] <= u
    /\ \A i, k \in 1..Len(c) : i < k => c[i] < c[k]

OrderInv == \A h \in Hooks : Ordered(posted[h], job[h].ledger, chan[h], Upto(h))

-----------------------------------------------------------------------------
(* What the operations on a channel do to the order.                       *)

\* Ledgers are positive.
LEMMA LedgersTyped == \A n \in Ledgers : n \in Nat /\ n > 0
BY DispatcherAssumption DEF Ledgers

\* An event goes behind everything its hook has been handed before.
LEMMA AppendOrdered ==
    ASSUME NEW p \in Nat, NEW j \in Nat, NEW c \in Seq(Ledgers), NEW e \in Ledgers,
           Ordered(p, j, c, e - 1)
    PROVE  Ordered(p, j, Append(c, e), e)
<1>1. /\ Len(Append(c, e)) = Len(c) + 1 /\ Len(c) \in Nat
      /\ Append(c, e)[Len(c) + 1] = e
      /\ \A i \in 1..Len(c) : Append(c, e)[i] = c[i] /\ c[i] \in Nat
  BY LedgersTyped
<1>2. e \in Nat /\ e > 0
  BY LedgersTyped
<1>3. \A i \in 1..Len(c) : p < c[i] /\ j < c[i] /\ c[i] < e
  BY <1>1, <1>2 DEF Ordered
<1>4. \A i \in 1..(Len(c) + 1) : i \in 1..Len(c) \/ i = Len(c) + 1
  BY <1>1
<1>5. p < e /\ j < e
  BY <1>2 DEF Ordered
<1>6. \A i \in 1..(Len(c) + 1) :
         p < Append(c, e)[i] /\ j < Append(c, e)[i] /\ Append(c, e)[i] <= e
  BY <1>1, <1>2, <1>3, <1>4, <1>5
<1>7. \A i, k \in 1..(Len(c) + 1) : i < k => Append(c, e)[i] < Append(c, e)[k]
  BY <1>1, <1>2, <1>3, <1>4 DEF Ordered
<1> QED
  BY <1>1, <1>2, <1>5, <1>6, <1>7 DEF Ordered

\* The worker takes the oldest event of the channel.
LEMMA ReceiveOrdered ==
    ASSUME NEW p \in Nat, NEW c \in Seq(Ledgers), NEW u \in Nat, c # <<>>,
           Ordered(p, 0, c, u)
    PROVE  Ordered(p, Head(c), Tail(c), u)
<1>1. /\ Len(c) \in Nat \ {0} /\ Head(c) = c[1]
      /\ Len(Tail(c)) = Len(c) - 1
      /\ \A i \in 1..(Len(c) - 1) : Tail(c)[i] = c[i + 1]
      /\ \A i \in 1..Len(c) : c[i] \in Nat
  BY LedgersTyped
<1>2. \A i \in 1..(Len(c) - 1) : i + 1 \in 1..Len(c) /\ 1 < i + 1
  BY <1>1
<1>3. 1 \in 1..Len(c)
  BY <1>1
<1>4. p < c[1] /\ c[1] <= u
  BY <1>3 DEF Ordered
<1>5. \A i \in 1..(Len(c) - 1) : p < c[i + 1] /\ c[1] < c[i + 1] /\ c[i + 1] <= u
  BY <1>2, <1>3 DEF Ordered
<1>6. \A i, k \in 1..(Len(c) - 1) : i < k => c[i + 1] < c[k + 1]
  BY <1>2, <1>1 DEF Ordered
<1>7. p <= u /\ c[1] <= u /\ p <= c[1]
  BY <1>1, <1>3, <1>4
<1> QED
  BY <1>1, <1>5, <1>6, <1>7 DEF Ordered

\* The loop goes on to later ledgers only.
LEMMA LaterOrdered ==
    ASSUME NEW p \in Nat, NEW j \in Nat, NEW c \in Seq(Ledgers), NEW u \in Nat, NEW v \in Nat,
           u <= v, Ordered(p, j, c, u)
    PROVE  Ordered(p, j, c, v)
<1>1. Len(c) \in Nat /\ \A i \in 1..Len(c) : c[i] \in Nat
  BY LedgersTyped
<1> QED
  BY <1>1 DEF Ordered

\* A hook that holds nothing is in order.
LEMMA EmptyOrdered == \A u \in Nat : Ordered(0, 0, <<>>, u)
BY DEF Ordered

-----------------------------------------------------------------------------
(* Types.                                                                  *)

\* What the order needs of the types, for one hook.
LEMMA HookTyped ==
    ASSUME TypeOK, NEW h \in Hooks
    PROVE  /\ posted[h] \in Nat /\ job[h].ledger \in Nat /\ chan[h] \in Seq(Ledgers)
           /\ seen \in Nat /\ event \in Nat /\ target \in Nat /\ horizon \in Nat
           /\ Upto(h) \in Nat
<1>1. /\ posted[h] \in Nat /\ job[h] \in Jobs /\ chan[h] \in Seq(Ledgers)
      /\ seen \in Nat /\ target \in Nat /\ horizon \in Nat
  BY DispatcherAssumption DEF TypeOK
<1>2. event \in Nat /\ job[h].ledger \in Nat
  BY <1>1, DispatcherAssumption DEF TypeOK, Jobs
<1> QED
  BY <1>1, <1>2 DEF Upto

\* Settling ledgers keeps the history typed.
LEMMA SettleTyped ==
    ASSUME TypeOK, NEW H, NEW L \in SUBSET Ledgers, Settle(H, L)
    PROVE  settled' \in [Hooks -> SUBSET Ledgers]
BY DEF TypeOK, Settle

\* The head of an event keeps the types.
LEMMA ListTyped ==
    ASSUME TypeOK, NEW seq \in Ledgers, List(seq)
    PROVE  /\ event' = seq /\ left' \subseteq Hooks /\ faults' \in 0..MaxFaults
           /\ settled' \in [Hooks -> SUBSET Ledgers]
<1>1. {seq} \in SUBSET Ledgers
  OBVIOUS
<1>2. CASE left' = enabled /\ Settle(Hooks \ enabled, {seq}) /\ UNCHANGED faults
  BY <1>1, <1>2, SettleTyped DEF List, TypeOK
<1>3. CASE left' = {} /\ Settle(Hooks, {seq}) /\ Fault
  BY <1>1, <1>3, SettleTyped, DispatcherAssumption DEF List, TypeOK, Fault
<1> QED
  BY <1>2, <1>3 DEF List

\* The process starts typed.
LEMMA InitTyped == Init => TypeOK
<1> SUFFICES ASSUME Init PROVE TypeOK
  OBVIOUS
<1>1. NoJob \in Jobs
  BY DispatcherAssumption DEF NoJob, Jobs
<1>2. NewStatus \in [delivered : Nat, failed : Nat, last : 0..MaxLedger]
  BY DispatcherAssumption DEF NewStatus
<1>3. <<>> \in Seq(Ledgers) /\ Len(<<>>) = 0
  OBVIOUS
<1> QED
  BY <1>1, <1>2, <1>3, DispatcherAssumption DEF Init, TypeOK

Inv == TypeOK /\ OrderInv

\* An event of the poll loop, the first one or a later one: every hook is handed no
\* ledger before those it has.
LEMMA ListPreserves ==
    ASSUME Inv, NEW seq \in Ledgers, List(seq), target' \in 0..MaxLedger, seq <= target',
           \A h \in Hooks : Upto(h) <= seq - 1,
           UNCHANGED <<horizon, enabled, seen, chan, job, status, posted>>
    PROVE  Inv'
<1>1. /\ event' = seq /\ left' \subseteq Hooks /\ faults' \in 0..MaxFaults
      /\ settled' \in [Hooks -> SUBSET Ledgers]
  BY ListTyped DEF Inv
<1>2. seq \in Nat /\ seq > 0 /\ target' \in Nat
  BY LedgersTyped, DispatcherAssumption
<1>3. TypeOK'
  BY <1>1, <1>2 DEF Inv, TypeOK
<1>4. ASSUME NEW h \in Hooks
      PROVE  Ordered(posted[h], job[h].ledger, chan[h], Upto(h))'
  <2>1. /\ posted[h] \in Nat /\ job[h].ledger \in Nat /\ chan[h] \in Seq(Ledgers)
        /\ Upto(h) \in Nat
    BY HookTyped DEF Inv
  <2>2. Upto(h)' \in Nat /\ Upto(h) <= Upto(h)'
    BY <1>1, <1>2, <2>1 DEF Upto
  <2>3. Ordered(posted[h], job[h].ledger, chan[h], Upto(h)')
    BY <2>1, <2>2, LaterOrdered DEF Inv, OrderInv
  <2> QED
    BY <2>3
<1> QED
  BY <1>3, <1>4 DEF Inv, OrderInv

\* The first event after a poll follows the last ledger seen.
LEMMA PollPreserves ==
    ASSUME Inv, Poll
    PROVE  Inv'
<1>1. /\ horizon \in 0..MaxLedger /\ seen \in 0..MaxLedger /\ horizon > seen /\ event = 0
      /\ target' = horizon /\ List(seen + 1)
      /\ UNCHANGED <<horizon, enabled, seen, chan, job, status, posted>>
  BY DEF Inv, TypeOK, Poll, FirstOf
<1>2. /\ seen + 1 \in Ledgers /\ target' \in 0..MaxLedger /\ seen + 1 <= target'
      /\ \A h \in Hooks : Upto(h) <= (seen + 1) - 1
  BY <1>1, DispatcherAssumption DEF Ledgers, Upto
<1> QED
  BY <1>1, <1>2, ListPreserves

\* The next event of a poll follows the one all hooks have been handed.
LEMMA NextEventPreserves ==
    ASSUME Inv, NextEvent
    PROVE  Inv'
<1>1. /\ target \in 0..MaxLedger /\ event \in 0..target /\ event # 0 /\ event < target
      /\ left = {} /\ target' = target /\ List(event + 1)
      /\ UNCHANGED <<horizon, enabled, seen, chan, job, status, posted>>
  BY DEF Inv, TypeOK, NextEvent
<1>2. /\ event + 1 \in Ledgers /\ event + 1 <= target'
      /\ \A h \in Hooks : Upto(h) <= (event + 1) - 1
  BY <1>1, DispatcherAssumption DEF Ledgers, Upto
<1> QED
  BY <1>1, <1>2, ListPreserves

\* At the end of a poll the last ledger seen is the last one handed out.
LEMMA EndPollPreserves ==
    ASSUME Inv, EndPoll
    PROVE  Inv'
<1>1. /\ event # 0 /\ left = {} /\ event = target
      /\ seen' = target /\ target' = 0 /\ event' = 0
      /\ UNCHANGED <<horizon, enabled, left, chan, job, status, faults, posted, settled>>
  BY DEF EndPoll
<1>2. TypeOK'
  BY <1>1, DispatcherAssumption DEF Inv, TypeOK
<1>3. \A h \in Hooks : Upto(h)' = Upto(h)
  BY <1>1 DEF Upto
<1> QED
  BY <1>1, <1>2, <1>3 DEF Inv, OrderInv

\* A hook is handed the event, or it is dropped; the others are not concerned.
LEMMA SendToWorkerPreserves ==
    ASSUME Inv, NEW g \in Hooks, SendToWorker(g)
    PROVE  Inv'
<1>1. /\ event # 0 /\ g \in left /\ left' = left \ {g}
      /\ chan' = [chan EXCEPT ![g] = Sent(g)]
      /\ UNCHANGED <<horizon, enabled, seen, target, event, job, status, faults, posted>>
      /\ Settle(IF Len(chan[g]) < Capacity THEN {} ELSE {g}, {event})
  BY DEF SendToWorker
<1>2. event \in Ledgers /\ TypeOK
  BY <1>1, DispatcherAssumption DEF Inv, TypeOK, Ledgers
<1>3. settled' \in [Hooks -> SUBSET Ledgers]
  <2>1. {event} \in SUBSET Ledgers
    BY <1>2
  <2> QED
    BY <1>1, <1>2, <2>1, SettleTyped
<1>4. Sent(g) \in Seq(Ledgers) /\ Len(Sent(g)) <= Capacity
  <2>1. chan[g] \in Seq(Ledgers) /\ Len(chan[g]) <= Capacity /\ Len(chan[g]) \in Nat
    BY <1>2 DEF TypeOK
  <2>2. Append(chan[g], event) \in Seq(Ledgers) /\ Len(Append(chan[g], event)) = Len(chan[g]) + 1
    BY <1>2, <2>1
  <2> QED
    BY <2>1, <2>2, DispatcherAssumption DEF Sent
<1>5. TypeOK'
  BY <1>1, <1>2, <1>3, <1>4 DEF TypeOK
<1>6. ASSUME NEW h \in Hooks
      PROVE  Ordered(posted[h], job[h].ledger, chan[h], Upto(h))'
  <2>1. /\ posted[h] \in Nat /\ job[h].ledger \in Nat /\ chan[h] \in Seq(Ledgers)
        /\ Upto(h) \in Nat /\ Ordered(posted[h], job[h].ledger, chan[h], Upto(h))
    BY HookTyped DEF Inv, OrderInv
  <2>2. CASE h # g
    <3>1. Upto(h)' = Upto(h) /\ chan'[h] = chan[h]
      BY <1>1, <1>2, <2>2 DEF Upto, TypeOK
    <3> QED
      BY <1>1, <2>1, <3>1
  <2>3. CASE h = g
    <3>1. Upto(h) = event - 1 /\ Upto(h)' = event /\ chan'[h] = Sent(h)
      BY <1>1, <1>2, <2>3 DEF Upto, TypeOK
    <3>2. Ordered(posted[h], job[h].ledger, Append(chan[h], event), event)
      BY <1>2, <2>1, <3>1, AppendOrdered
    <3>3. event \in Nat /\ event - 1 \in Nat /\ event - 1 <= event
      BY <1>2, LedgersTyped
    <3>4. Ordered(posted[h], job[h].ledger, chan[h], event)
      BY <2>1, <3>1, <3>3, LaterOrdered
    <3>5. Ordered(posted[h], job[h].ledger, Sent(h), event)
      BY <3>2, <3>4 DEF Sent
    <3> QED
      BY <1>1, <3>1, <3>5
  <2> QED
    BY <2>2, <2>3
<1> QED
  BY <1>5, <1>6 DEF Inv, OrderInv

-----------------------------------------------------------------------------
(* The worker of a hook.  The other hooks are not concerned.               *)

\* A step that changes what hook g alone holds keeps the order if it does for g.
LEMMA OneHookOrdered ==
    ASSUME OrderInv, NEW g \in Hooks, UNCHANGED loop,
           \A h \in Hooks \ {g} : /\ posted'[h] = posted[h] /\ chan'[h] = chan[h]
                                  /\ job'[h].ledger = job[h].ledger,
           Ordered(posted'[g], job'[g].ledger, chan'[g], Upto(g))
    PROVE  OrderInv'
<1>1. \A h \in Hooks : Upto(h)' = Upto(h)
  BY DEF Upto, loop
<1> QED
  BY <1>1 DEF OrderInv

\* The worker starts on the oldest event of its channel.
LEMMA ReceivePreserves ==
    ASSUME Inv, NEW g \in Hooks, Receive(g)
    PROVE  Inv'
<1> DEFINE j == [ledger |-> Head(chan[g]), attempt |-> 1, phase |-> "none"]
<1>1. /\ job[g].ledger = 0 /\ chan[g] # <<>>
      /\ job' = [job EXCEPT ![g] = j] /\ chan' = [chan EXCEPT ![g] = Tail(chan[g])]
      /\ UNCHANGED <<horizon, enabled, loop, status, faults, posted, settled>>
  BY DEF Receive
<1>2. /\ posted[g] \in Nat /\ chan[g] \in Seq(Ledgers) /\ Upto(g) \in Nat
      /\ Ordered(posted[g], 0, chan[g], Upto(g))
  BY <1>1, HookTyped DEF Inv, OrderInv
<1>3. /\ Head(chan[g]) \in Ledgers /\ Tail(chan[g]) \in Seq(Ledgers)
      /\ Len(Tail(chan[g])) = Len(chan[g]) - 1 /\ Len(chan[g]) \in Nat
      /\ Len(chan[g]) <= Capacity
  BY <1>1, <1>2 DEF Inv, TypeOK
<1>4. j \in Jobs /\ j.ledger = Head(chan[g])
  BY <1>3, DispatcherAssumption DEF Jobs, Ledgers
<1> HIDE DEF j
<1>5. Len(Tail(chan[g])) <= Capacity
  BY <1>3, DispatcherAssumption
<1>6. TypeOK'
  BY <1>1, <1>3, <1>4, <1>5 DEF Inv, TypeOK, loop
<1>7. /\ job'[g] = j /\ chan'[g] = Tail(chan[g]) /\ posted' = posted
      /\ \A h \in Hooks \ {g} : chan'[h] = chan[h] /\ job'[h] = job[h]
  BY <1>1 DEF Inv, TypeOK
<1>8. Ordered(posted[g], Head(chan[g]), Tail(chan[g]), Upto(g))
  BY <1>1, <1>2, ReceiveOrdered
<1> QED
  BY <1>1, <1>4, <1>6, <1>7, <1>8, OneHookOrdered DEF Inv

\* An accepted event is at least as late as the one accepted before.
LEMMA PostSucceedsPreserves ==
    ASSUME Inv, NEW g \in Hooks, PostSucceeds(g)
    PROVE  Inv'
<1>1. /\ job[g].ledger # 0
      /\ job' = [job EXCEPT ![g] = [job[g] EXCEPT !.phase = "Delivered"]]
      /\ posted' = [posted EXCEPT ![g] = job[g].ledger]
      /\ Settle({g}, {job[g].ledger})
      /\ UNCHANGED <<horizon, enabled, loop, chan, status, faults>>
  BY DEF PostSucceeds, Posting
<1>2. job[g] \in Jobs /\ TypeOK
  BY DEF Inv, TypeOK
<1>3. /\ job[g].ledger \in 0..MaxLedger /\ job[g].ledger \in Ledgers
      /\ [job[g] EXCEPT !.phase = "Delivered"] \in Jobs
      /\ [job[g] EXCEPT !.phase = "Delivered"].ledger = job[g].ledger
  BY <1>1, <1>2, DispatcherAssumption DEF Jobs, Ledgers
<1>4. settled' \in [Hooks -> SUBSET Ledgers]
  <2>1. {job[g].ledger} \in SUBSET Ledgers
    BY <1>3
  <2> QED
    BY <1>1, <1>2, <2>1, SettleTyped
<1>5. TypeOK'
  BY <1>1, <1>2, <1>3, <1>4 DEF TypeOK, loop
<1>6. /\ posted'[g] = job[g].ledger /\ job'[g].ledger = job[g].ledger
      /\ \A h \in Hooks \ {g} : posted'[h] = posted[h] /\ job'[h] = job[h]
  BY <1>1, <1>2, <1>3 DEF TypeOK
<1>7. Ordered(posted[g], job[g].ledger, chan[g], Upto(g))
  BY DEF Inv, OrderInv
<1>8. Ordered(job[g].ledger, job[g].ledger, chan[g], Upto(g))
  BY <1>3, <1>7, LedgersTyped DEF Ordered
<1> QED
  BY <1>1, <1>5, <1>6, <1>8, OneHookOrdered DEF Inv

\* A failed attempt leaves the event with its worker.
LEMMA PostFailsPreserves ==
    ASSUME Inv, NEW g \in Hooks, PostFails(g)
    PROVE  Inv'
<1>1. /\ job[g].ledger # 0
      /\ posted' \in {posted, [posted EXCEPT ![g] = job[g].ledger]}
      /\ Fault /\ AfterFailure(g)
      /\ UNCHANGED <<horizon, enabled, loop, chan, status>>
  BY DEF PostFails, Posting, AfterFailure
<1>2. job[g] \in Jobs /\ TypeOK
  BY DEF Inv, TypeOK
<1>3. job[g].ledger \in 0..MaxLedger /\ job[g].ledger \in Ledgers
  BY <1>1, <1>2, DispatcherAssumption DEF Jobs, Ledgers
<1>4. PICK j \in Jobs : job' = [job EXCEPT ![g] = j] /\ j.ledger = job[g].ledger
  <2>1. CASE job[g].attempt <= MaxRetries
    <3>1. job' = [job EXCEPT ![g] = [job[g] EXCEPT !.attempt = job[g].attempt + 1]]
      BY <1>1, <2>1 DEF AfterFailure
    <3>2. /\ [job[g] EXCEPT !.attempt = job[g].attempt + 1] \in Jobs
          /\ [job[g] EXCEPT !.attempt = job[g].attempt + 1].ledger = job[g].ledger
      BY <1>2, <2>1, DispatcherAssumption DEF Jobs
    <3> QED
      BY <3>1, <3>2
  <2>2. CASE ~(job[g].attempt <= MaxRetries)
    <3>1. job' = [job EXCEPT ![g] = [job[g] EXCEPT !.phase = "Failed"]]
      BY <1>1, <2>2 DEF AfterFailure
    <3>2. /\ [job[g] EXCEPT !.phase = "Failed"] \in Jobs
          /\ [job[g] EXCEPT !.phase = "Failed"].ledger = job[g].ledger
      BY <1>2 DEF Jobs
    <3> QED
      BY <3>1, <3>2
  <2> QED
    BY <2>1, <2>2
<1>5. settled' \in [Hooks -> SUBSET Ledgers]
  <2>1. {job[g].ledger} \in SUBSET Ledgers
    BY <1>3
  <2>2. settled' = settled \/ Settle({g}, {job[g].ledger})
    BY <1>1 DEF AfterFailure
  <2> QED
    BY <1>2, <2>1, <2>2, SettleTyped DEF TypeOK
<1>6. posted' \in [Hooks -> 0..MaxLedger] /\ faults' \in 0..MaxFaults
  <2>1. posted \in [Hooks -> 0..MaxLedger] /\ faults \in 0..MaxFaults
    BY <1>2 DEF TypeOK
  <2>2. posted' \in [Hooks -> 0..MaxLedger]
    BY <1>1, <1>3, <2>1
  <2> QED
    BY <1>1, <2>1, <2>2, DispatcherAssumption DEF Fault
<1>7. TypeOK'
  BY <1>1, <1>2, <1>4, <1>5, <1>6 DEF TypeOK, loop
<1>8. /\ posted'[g] \in {posted[g], job[g].ledger} /\ job'[g].ledger = job[g].ledger
      /\ \A h \in Hooks \ {g} : posted'[h] = posted[h] /\ job'[h] = job[h]
  <2>1. posted \in [Hooks -> 0..MaxLedger] /\ job \in [Hooks -> Jobs]
    BY <1>2 DEF TypeOK
  <2>2. job'[g] = j /\ \A h \in Hooks \ {g} : job'[h] = job[h]
    BY <1>4, <2>1
  <2>3. /\ posted'[g] \in {posted[g], job[g].ledger}
        /\ \A h \in Hooks \ {g} : posted'[h] = posted[h]
    BY <1>1, <2>1
  <2> QED
    BY <1>4, <2>2, <2>3
<1>9. Ordered(posted[g], job[g].ledger, chan[g], Upto(g))
  BY DEF Inv, OrderInv
<1>10. Ordered(posted'[g], job[g].ledger, chan[g], Upto(g))
  BY <1>3, <1>8, <1>9, LedgersTyped DEF Ordered
<1> QED
  BY <1>1, <1>7, <1>8, <1>10, OneHookOrdered DEF Inv

\* The worker is done with its event.
LEMMA PatchStatusPreserves ==
    ASSUME Inv, NEW g \in Hooks, PatchStatus(g)
    PROVE  Inv'
<1> DEFINE S == [delivered : Nat, failed : Nat, last : 0..MaxLedger]
<1>1. /\ job' = [job EXCEPT ![g] = NoJob]
      /\ \/ status' = [status EXCEPT ![g] = Counted(status[g], job[g])] /\ UNCHANGED faults
         \/ status' = [status EXCEPT ![g] = Counted(NewStatus, job[g])] /\ Fault
         \/ UNCHANGED status /\ Fault
      /\ UNCHANGED <<horizon, enabled, loop, chan, posted, settled>>
  BY DEF PatchStatus
<1>2. job[g] \in Jobs /\ status[g] \in S /\ NewStatus \in S /\ NoJob \in Jobs /\ TypeOK
  BY DispatcherAssumption DEF Inv, TypeOK, NewStatus, NoJob, Jobs
<1>3. \A s \in S : Counted(s, job[g]) \in S
  <2> TAKE s \in S
  <2> DEFINE n == s.delivered + 1
             l == job[g].ledger
  <2>1. n \in Nat /\ l \in 0..MaxLedger
    BY <1>2 DEF Jobs
  <2> HIDE DEF n, l
  <2>2. [s EXCEPT !.delivered = n, !.last = l] \in S
    BY <2>1
  <2>3. [s EXCEPT !.failed = s.failed + 1] \in S
    OBVIOUS
  <2> QED
    BY <2>2, <2>3 DEF Counted, n, l
<1> HIDE DEF S
<1>4. status' \in [Hooks -> S] /\ faults' \in 0..MaxFaults
  <2>1. status \in [Hooks -> S] /\ faults \in 0..MaxFaults
    BY <1>2 DEF TypeOK, S
  <2>2. faults' \in 0..MaxFaults
    BY <1>1, <2>1, DispatcherAssumption DEF Fault
  <2>3. Counted(status[g], job[g]) \in S /\ Counted(NewStatus, job[g]) \in S
    BY <1>2, <1>3
  <2> QED
    BY <1>1, <2>1, <2>2, <2>3
<1>5. TypeOK'
  BY <1>1, <1>2, <1>4 DEF TypeOK, loop, S
<1>6. job'[g].ledger = 0 /\ \A h \in Hooks \ {g} : job'[h] = job[h]
  BY <1>1, <1>2 DEF TypeOK, NoJob
<1>7. /\ posted[g] \in Nat /\ job[g].ledger \in Nat /\ chan[g] \in Seq(Ledgers)
      /\ Upto(g) \in Nat /\ Ordered(posted[g], job[g].ledger, chan[g], Upto(g))
  BY HookTyped DEF Inv, OrderInv
<1>8. Ordered(posted[g], 0, chan[g], Upto(g))
  <2>1. \A i \in 1..Len(chan[g]) : chan[g][i] \in Nat /\ 0 < chan[g][i]
    BY <1>7, LedgersTyped
  <2> QED
    BY <1>7, <2>1 DEF Ordered
<1> QED
  BY <1>1, <1>5, <1>6, <1>8, OneHookOrdered DEF Inv

-----------------------------------------------------------------------------
(* Outside, and the theorems.                                              *)

\* Horizon and the user touch nothing a hook holds.
LEMMA OutsidePreserves ==
    ASSUME Inv, CloseLedger \/ \E h \in Hooks : SetEnabled(h)
    PROVE  Inv'
<1>1. UNCHANGED <<loop, chan, job, status, posted, settled>>
  BY DEF CloseLedger, SetEnabled
<1>2. TypeOK'
  <2>1. CASE CloseLedger
    BY <1>1, <2>1, DispatcherAssumption DEF CloseLedger, Inv, TypeOK, loop
  <2>2. ASSUME NEW h \in Hooks, SetEnabled(h) PROVE TypeOK'
    BY <1>1, <2>2, DispatcherAssumption DEF SetEnabled, Fault, Inv, TypeOK, loop
  <2> QED
    BY <2>1, <2>2
<1>3. \A h \in Hooks : Upto(h)' = Upto(h)
  BY <1>1 DEF Upto, loop
<1> QED
  BY <1>1, <1>2, <1>3 DEF Inv, OrderInv

\* A new process starts with nothing.
LEMMA CrashPreserves ==
    ASSUME Inv, Crash
    PROVE  Inv'
<1>1. /\ Fault /\ seen' = 0 /\ target' = 0 /\ event' = 0 /\ left' = {}
      /\ chan' = [h \in Hooks |-> <<>>] /\ job' = [h \in Hooks |-> NoJob]
      /\ posted' = [h \in Hooks |-> 0]
      /\ UNCHANGED <<horizon, enabled, status, settled>>
  BY DEF Crash
<1>2. NoJob \in Jobs /\ NoJob.ledger = 0
  BY DispatcherAssumption DEF NoJob, Jobs
<1>3. <<>> \in Seq(Ledgers) /\ Len(<<>>) = 0
  OBVIOUS
<1>4. TypeOK'
  BY <1>1, <1>2, <1>3, DispatcherAssumption DEF Inv, TypeOK, Fault
<1>5. OrderInv'
  BY <1>1, <1>2, EmptyOrdered DEF OrderInv, Upto
<1> QED
  BY <1>4, <1>5 DEF Inv

\* Before the first poll nobody holds a ledger.
LEMMA InitInv == Init => Inv
<1> SUFFICES ASSUME Init PROVE Inv
  OBVIOUS
<1>1. NoJob.ledger = 0
  BY DEF NoJob
<1>2. OrderInv
  BY <1>1, EmptyOrdered DEF Init, OrderInv, Upto
<1> QED
  BY <1>2, InitTyped DEF Inv

\* Every step keeps the types and the order.
LEMMA NextInv == Inv /\ [Next]_vars => Inv'
<1> SUFFICES ASSUME Inv, [Next]_vars PROVE Inv'
  OBVIOUS
<1>1. CASE Dispatch
  BY <1>1, PollPreserves, SendToWorkerPreserves, NextEventPreserves, EndPollPreserves
     DEF Dispatch
<1>2. ASSUME NEW h \in Hooks, Work(h) \/ PostFails(h) PROVE Inv'
  BY <1>2, ReceivePreserves, PostSucceedsPreserves, PatchStatusPreserves, PostFailsPreserves
     DEF Work
<1>3. CASE CloseLedger \/ \E h \in Hooks : SetEnabled(h)
  BY <1>3, OutsidePreserves
<1>4. CASE Crash
  BY <1>4, CrashPreserves
<1>5. CASE UNCHANGED vars
  <2>1. UNCHANGED <<horizon, enabled, seen, target, event, left, chan, job, status, faults,
                    posted, settled>>
    BY <1>5 DEF vars, loop
  <2> QED
    BY <2>1 DEF Inv, TypeOK, OrderInv, Upto
<1> QED
  BY <1>1, <1>2, <1>3, <1>4, <1>5 DEF Next

\* Types and order hold throughout.
LEMMA Invariance == Spec => []Inv
BY InitInv, NextInv, PTL DEF Spec

\* The loop, the channels and the workers keep their types: no channel holds more than
\* CHANNEL_CAPACITY events and no event is posted more than maxRetries + 1 times.
THEOREM TypeCorrect == Spec => []TypeOK
<1>1. Inv => TypeOK
  BY DEF Inv
<1> QED
  BY <1>1, Invariance, PTL

\* "Ordered delivery per subscription": whatever is retried, given up or dropped, an
\* endpoint that has accepted a ledger never gets an earlier one from the same process.
THEOREM DeliveryOrder == Spec => DeliveredInOrder
<1>1. ASSUME Inv, [Next]_vars, NEW h \in Hooks, posted'[h] # 0
      PROVE  posted'[h] >= posted[h]
  <2>1. /\ posted[h] \in Nat /\ job[h].ledger \in Nat
        /\ job[h].ledger # 0 => posted[h] <= job[h].ledger
    BY <1>1, HookTyped DEF Inv, OrderInv, Ordered
  <2>2. posted'[h] = posted[h] \/ (job[h].ledger # 0 /\ posted'[h] = job[h].ledger)
    <3>1. ASSUME NEW g \in Hooks, PostSucceeds(g) \/ PostFails(g)
          PROVE  posted'[h] = posted[h] \/ (job[h].ledger # 0 /\ posted'[h] = job[h].ledger)
      BY <1>1, <3>1 DEF PostSucceeds, PostFails, Posting, Inv, TypeOK
    <3>2. CASE Crash
      BY <1>1, <3>2 DEF Crash
    <3>3. CASE /\ ~Crash
               /\ \A g \in Hooks : ~PostSucceeds(g) /\ ~PostFails(g)
      <4>1. posted' = posted
        BY <1>1, <3>3 DEF Next, Dispatch, Work, Poll, SendToWorker, NextEvent, EndPoll, Receive,
           PatchStatus, CloseLedger, SetEnabled, vars
      <4> QED
        BY <4>1
    <3> QED
      BY <3>1, <3>2, <3>3
  <2> QED
    BY <2>1, <2>2
<1>2. Inv /\ [Next]_vars
        => [\A h \in Hooks : posted'[h] # 0 => posted'[h] >= posted[h]]_vars
  BY <1>1
<1> QED
  BY <1>2, Invariance, PTL DEF Spec, DeliveredInOrder
=============================================================================
