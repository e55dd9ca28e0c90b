------------------------ MODULE LedgerCloseDispatcher ------------------------
(***************************************************************************)
(* Delivery of ledger-close events (ledger_close_dispatcher.rs): a loop    *)
(* polls Horizon for its latest ledger and dispatches one event for every  *)
(* ledger since the last it saw to the subscribed LedgerCloseWebhooks.     *)
(* Each subscription has a bounded channel and a worker that posts the     *)
(* events with retries and records the outcome in the status.              *)
(*                                                                         *)
(* Everything but the status lives in the process and is lost with it.     *)
(***************************************************************************)
EXTENDS Naturals, Sequences, FiniteSets

CONSTANTS
    Hooks,       \* the LedgerCloseWebhooks
    Capacity,    \* CHANNEL_CAPACITY
    MaxRetries,  \* spec.maxRetries
    MaxLedger,   \* bound on the ledgers of Horizon
    MaxFaults    \* bound on failed requests, crashes and changes by the user

ASSUME DispatcherAssumption ==
    /\ Capacity \in Nat \ {0} /\ MaxRetries \in Nat
    /\ MaxLedger \in Nat \ {0} /\ MaxFaults \in Nat

VARIABLES
    horizon,   \* the latest ledger of Horizon
    enabled,   \* hooks that are enabled and subscribe to LedgerClose
    seen,      \* last_seen_seq
    target,    \* the ledger the poll returned, while its events are dispatched, or 0
    event,     \* the ledger of the event that is dispatched, or 0
    left,      \* hooks of its list that have not got it yet
    chan,      \* the channel of each hook
    job,       \* what its worker is at: the ledger (0: none), the attempt, the outcome
    status,    \* the status of each hook
    faults,
    posted,    \* history: last ledger the endpoint of each hook accepted in this process
    settled    \* history: ledgers each hook need not wait for any more

loop == <<seen, target, event, left>>
vars == <<horizon, enabled, loop, chan, job, status, faults, posted, settled>>

Ledgers == 1..MaxLedger
NoJob == [ledger |-> 0, attempt |-> 0, phase |-> "none"]
NewStatus == [delivered |-> 0, failed |-> 0, last |-> 0]

Init ==
    /\ horizon \in 0..1 /\ enabled = Hooks
    /\ seen = 0 /\ target = 0 /\ event = 0 /\ left = {}
    /\ chan = [h \in Hooks |-> <<>>] /\ job = [h \in Hooks |-> NoJob]
    /\ status = [h \in Hooks |-> NewStatus]
    /\ faults = 0 /\ posted = [h \in Hooks |-> 0] /\ settled = [h \in Hooks |-> {}]

Fault == faults < MaxFaults /\ faults' = faults + 1

\* The ledgers L are no longer waited for by the hooks in H.
Settle(H, L) == settled' = [h \in Hooks |-> IF h \in H THEN settled[h] \cup L ELSE settled[h]]

-----------------------------------------------------------------------------
(* The poll loop.                                                          *)

\* Mutant of FirstOf: only the latest ledger gets an event.
FirstOfLatest(seq) == seq

\* The first event after a poll; the ledgers that were skipped get one each.
FirstOf(seq) == seen + 1

\* The head of dispatch_ledger_close: the hooks are listed, or the event gets nowhere.
List(seq) ==
    /\ event' = seq
    /\ \/ left' = enabled /\ Settle(Hooks \ enabled, {seq}) /\ UNCHANGED faults
       \/ left' = {} /\ Settle(Hooks, {seq}) /\ Fault

Poll ==
    /\ event = 0 /\ horizon > seen
    /\ target' = horizon
    /\ List(FirstOf(horizon))
    /\ UNCHANGED <<horizon, enabled, seen, chan, job, status, posted>>

\* Mutant of Sent: the channel is unbounded.
SentUnbounded(h) == Append(chan[h], event)

\* try_send: an event that does not fit is dropped.
Sent(h) == IF Len(chan[h]) < Capacity THEN Append(chan[h], event) ELSE chan[h]

\* ensure_worker and send_to_worker.
SendToWorker(h) ==
    /\ event # 0 /\ h \in left
    /\ left' = left \ {h}
    /\ chan' = [chan EXCEPT ![h] = Sent(h)]
    /\ Settle(IF Len(chan[h]) < Capacity THEN {} ELSE {h}, {event})
    /\ UNCHANGED <<horizon, enabled, seen, target, event, job, status, faults, posted>>

NextEvent ==
    /\ event # 0 /\ left = {} /\ event < target
    /\ List(event + 1)
    /\ UNCHANGED <<horizon, enabled, seen, target, chan, job, status, posted>>

EndPoll ==
    /\ event # 0 /\ left = {} /\ event = target
    /\ seen' = target /\ target' = 0 /\ event' = 0
    /\ UNCHANGED <<horizon, enabled, left, chan, job, status, faults, posted, settled>>

-----------------------------------------------------------------------------
(* The worker of a subscription.                                           *)

Receive(h) ==
    /\ job[h].ledger = 0 /\ chan[h] # <<>>
    /\ job' = [job EXCEPT ![h] = [ledger |-> Head(chan[h]), attempt |-> 1, phase |-> "none"]]
    /\ chan' = [chan EXCEPT ![h] = Tail(@)]
    /\ UNCHANGED <<horizon, enabled, loop, status, faults, posted, settled>>

Posting(h) == job[h].ledger # 0 /\ job[h].phase = "none"

\* The endpoint accepts the event and the answer arrives.
PostSucceeds(h) ==
    /\ Posting(h)
    /\ job' = [job EXCEPT ![h].phase = "Delivered"]
    /\ posted' = [posted EXCEPT ![h] = job[h].ledger]
    /\ Settle({h}, {job[h].ledger})
    /\ UNCHANGED <<horizon, enabled, loop, chan, status, faults>>

\* Mutant of AfterFailure: a failed event goes to the end of the channel.
AfterFailureRequeue(h) ==
    /\ chan' = [chan EXCEPT ![h] = IF Len(@) < Capacity THEN Append(@, job[h].ledger) ELSE @]
    /\ job' = [job EXCEPT ![h] = NoJob]
    /\ UNCHANGED settled

\* The next attempt, or the end of the attempts.
AfterFailure(h) ==
    /\ IF job[h].attempt <= MaxRetries
       THEN job' = [job EXCEPT ![h].attempt = @ + 1] /\ UNCHANGED settled
       ELSE job' = [job EXCEPT ![h].phase = "Failed"] /\ Settle({h}, {job[h].ledger})
    /\ UNCHANGED chan

\* The attempt fails; the endpoint may have accepted the event all the same.
PostFails(h) ==
    /\ Posting(h)
    /\ Fault
    /\ posted' \in {posted, [posted EXCEPT ![h] = job[h].ledger]}
    /\ AfterFailure(h)
    /\ UNCHANGED <<horizon, enabled, loop, status>>

\* The status with the outcome of the job counted in.
Counted(s, j) ==
    IF j.phase = "Delivered" THEN [s EXCEPT !.delivered = @ + 1, !.last = j.ledger]
    ELSE [s EXCEPT !.failed = @ + 1]

\* patch_webhook_status: a get that fails counts as an empty status, and the error of
\* the patch is logged.
PatchStatus(h) ==
    /\ job[h].phase # "none"
    /\ \/ status' = [status EXCEPT ![h] = Counted(@, job[h])] /\ UNCHANGED faults
       \/ status' = [status EXCEPT ![h] = Counted(NewStatus, job[h])] /\ Fault
       \/ UNCHANGED status /\ Fault
    /\ job' = [job EXCEPT ![h] = NoJob]
    /\ UNCHANGED <<horizon, enabled, loop, chan, posted, settled>>

-----------------------------------------------------------------------------
(* Outside.                                                                *)

CloseLedger ==
    /\ horizon < MaxLedger /\ horizon' = horizon + 1
    /\ UNCHANGED <<enabled, loop, chan, job, status, faults, posted, settled>>

\* The user switches a subscription off or on.
SetEnabled(h) ==
    /\ Fault
    /\ enabled' = IF h \in enabled THEN enabled \ {h} ELSE enabled \cup {h}
    /\ UNCHANGED <<horizon, loop, chan, job, status, posted, settled>>

\* The process dies and a new one starts.
Crash ==
    /\ Fault
    /\ seen' = 0 /\ target' = 0 /\ event' = 0 /\ left' = {}
    /\ chan' = [h \in Hooks |-> <<>>] /\ job' = [h \in Hooks |-> NoJob]
    /\ posted' = [h \in Hooks |-> 0]
    /\ UNCHANGED <<horizon, enabled, status, settled>>

Work(h) == Receive(h) \/ PostSucceeds(h) \/ PatchStatus(h)
Dispatch == Poll \/ (\E h \in Hooks : SendToWorker(h)) \/ NextEvent \/ EndPoll

Next ==
    \/ Dispatch \/ CloseLedger \/ Crash
    \/ \E h \in Hooks : Work(h) \/ PostFails(h) \/ SetEnabled(h)

\* The loop and the workers are tasks of the runtime and go on as long as the process.
Spec == Init /\ [][Next]_vars /\ WF_vars(Dispatch) /\ \A h \in Hooks : WF_vars(Work(h))

-----------------------------------------------------------------------------
Jobs == [ledger : 0..MaxLedger, attempt : 0..MaxRetries + 1,
         phase : {"none", "Delivered", "Failed"}]

TypeOK ==
    /\ horizon \in 0..MaxLedger /\ enabled \subseteq Hooks
    /\ seen \in 0..MaxLedger /\ target \in 0..MaxLedger /\ event \in 0..target
    /\ left \subseteq Hooks
    /\ chan \in [Hooks -> Seq(Ledgers)] /\ \A h \in Hooks : Len(chan[h]) <= Capacity
    /\ job \in [Hooks -> Jobs]
    /\ status \in [Hooks -> [delivered : Nat, failed : Nat, last : 0..MaxLedger]]
    /\ faults \in 0..MaxFaults
    /\ posted \in [Hooks -> 0..MaxLedger] /\ settled \in [Hooks -> SUBSET Ledgers]

\* "Ordered delivery per subscription": within a process an endpoint that accepts a
\* ledger gets the same or a later one next, whatever was retried, failed or dropped
\* in between.
DeliveredInOrder ==
    [][\A h \in Hooks : posted'[h] # 0 => posted'[h] >= posted[h]]_vars

\* "At-least-once semantics": every ledger Horizon closes is accepted by every endpoint
\* unless the hook was off or could not be listed, its channel full or its retries used up.
EveryLedgerSettled ==
    \A h \in Hooks, n \in Ledgers : horizon >= n ~> n \in settled[h]
==============================================================================
