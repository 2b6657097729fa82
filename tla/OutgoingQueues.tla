--------------------------- MODULE OutgoingQueues ---------------------------
(***************************************************************************)
(* The federation sender's queue for ONE destination server                *)
(* (federationsender/queue): SendEvent, SendEDU and RetryServer calls, the *)
(* destinationQueue objects that getQueue makes, the backgroundSend worker *)
(* of each, the persisted associations they share and crashes of the       *)
(* process.                                                                *)
(*                                                                         *)
(* A PDU or EDU is one element of PDUs or EDUs and stands for its receipt  *)
(* too.  The counters of ServerStatistics are reduced to what the queues   *)
(* read: whether the server is blacklisted and whether its backoff         *)
(* interval is still running; whether a Failure call counts depends there  *)
(* on the CAS on backoffStarted and is a free choice here.                 *)
(***************************************************************************)
EXTENDS Integers, Sequences, FiniteSets

CONSTANTS
  PDUs, EDUs,             \* what is to be sent to the destination
  Queues,                 \* bound: destinationQueue objects alive at once
  MaxPerTransaction,      \* maxPDUsPerTransaction = maxEDUsPerTransaction
  MaxInMemory,            \* maxPDUsInMemory = maxEDUsInMemory
  FailuresUntilBlacklist, \* consecutive counted failures that blacklist
  MaxRetries,             \* bound: calls of RetryServer
  MaxCrashes,             \* bound: crashes of the process
  PromptCallers,          \* no call takes queueIdleTimeout between two steps
  NoQueue, Retry, Hydrate

Items == PDUs \cup EDUs
Kinds == {"pdu", "edu"}
KindOf(i) == IF i \in PDUs THEN "pdu" ELSE "edu"
ItemsOf(k) == IF k = "pdu" THEN PDUs ELSE EDUs

Elements(s) == {s[j] : j \in DOMAIN s}
Distinct(s) == \A i, j \in DOMAIN s : s[i] = s[j] => i = j
Orders(S) == {s \in [1..Cardinality(S) -> S] : Distinct(s)}

\* A call in progress is named by the item it sends, or by what it does.
Calls == Items \cup {Retry, Hydrate}

\* Inc() >= threshold: a threshold of 0 acts at the first failure, as 1 does.
Limit == IF FailuresUntilBlacklist = 0 THEN 1 ELSE FailuresUntilBlacklist

ASSUME KindsDisjoint == PDUs \cap EDUs = {} /\ Retry \notin Items /\ Hydrate \notin Items
ASSUME LimitsPositive ==
  /\ MaxPerTransaction \in Nat \ {0}
  /\ MaxInMemory \in Nat \ {0}
  /\ FailuresUntilBlacklist \in Nat
ASSUME ItemsFinite == IsFiniteSet(Items)
ASSUME NoQueueIsNone == NoQueue \notin Queues

VARIABLES
  \* persisted
  rows,          \* federationsender_queue_pdus / _edus rows of the destination
  blacklisted,   \* federationsender_blacklist and its copy in memory
  \* the destination
  received,      \* what the destination has accepted
  \* ServerStatistics of the destination
  backoff, failures,
  \* OutgoingQueues.queues[destination]
  queueMap,
  \* each destinationQueue
  running, overflowed, notify, backingOff, pending, toSend,
  spawned,       \* backgroundSend goroutines that have not reached their CAS
  wpc,           \* where the running backgroundSend is
  \* each call
  cpc, cq,
  retries, crashes

stats == <<blacklisted, backoff, failures>>
queueVars == <<running, overflowed, notify, backingOff, pending, toSend, spawned, wpc>>
callVars == <<cpc, cq>>
vars == <<rows, received, stats, queueMap, queueVars, callVars,
          retries, crashes>>

Empty == [k \in Kinds |-> <<>>]

Init ==
  /\ rows = {} /\ received = {}
  /\ blacklisted = FALSE /\ backoff = FALSE /\ failures = 0
  /\ queueMap = NoQueue
  /\ running = [q \in Queues |-> FALSE]
  /\ overflowed = [q \in Queues |-> FALSE]
  /\ notify = [q \in Queues |-> FALSE]
  /\ backingOff = [q \in Queues |-> FALSE]
  /\ pending = [q \in Queues |-> Empty]
  /\ toSend = [q \in Queues |-> Empty]
  /\ spawned = [q \in Queues |-> 0]
  /\ wpc = [q \in Queues |-> "none"]
  /\ cpc = [c \in Calls |-> "idle"]
  /\ cq = [c \in Calls |-> NoQueue]
  /\ retries = 0 /\ crashes = 0

-----------------------------------------------------------------------------
(* Statistics of the destination, see ServerStatistics *)

Success ==
  /\ blacklisted' = FALSE /\ backoff' = FALSE /\ failures' = 0

\* The failure counts and is the last one tolerated ...
FailureBlacklists ==
  /\ failures < Limit
  /\ failures' = failures + 1
  /\ failures' >= Limit
  /\ blacklisted' = TRUE
  /\ UNCHANGED backoff

\* ... or it counts, or it does not, and starts or finds a backoff interval.
FailureBacksOff ==
  /\ failures' \in {failures, failures + 1}
  /\ failures' > failures => failures' < Limit
  /\ backoff' = (backoff \/ ~blacklisted)
  /\ UNCHANGED blacklisted

Failure == FailureBlacklists \/ FailureBacksOff

\* Requests that other parts of the sender make to the same server.
OtherRequest ==
  /\ Success \/ Failure
  /\ UNCHANGED <<rows, received, queueMap, queueVars, callVars, retries, crashes>>

BackoffElapses ==
  /\ backoff /\ backoff' = FALSE
  /\ UNCHANGED <<rows, received, blacklisted, failures, queueMap,
                 queueVars, callVars, retries, crashes>>

-----------------------------------------------------------------------------
(* Calls: SendEvent, SendEDU, RetryServer and the hydration after a start *)

\* A destinationQueue object that nothing refers to any more.
Unused(q) ==
  /\ wpc[q] = "none" /\ spawned[q] = 0 /\ queueMap # q
  /\ \A c \in Calls : cq[c] # q

Step(c, step) == cpc' = [cpc EXCEPT ![c] = step]
Finish(c) == Step(c, "done") /\ cq' = [cq EXCEPT ![c] = NoQueue]

\* getQueue's result for a blacklisted server is nil: the call ends there.
NoQueueFor(c) ==
  /\ blacklisted
  /\ Finish(c)
  /\ UNCHANGED <<queueMap, queueVars>>

\* Mutant: the queue in the map is used again.
getQueue_Reuse(c, step) ==
  /\ ~blacklisted
  /\ \E q \in Queues :
       /\ queueMap = q \/ (queueMap = NoQueue /\ Unused(q))
       /\ queueMap' = q
       /\ cq' = [cq EXCEPT ![c] = q]
  /\ Step(c, step)
  /\ UNCHANGED queueVars

\* Otherwise getQueue always allocates: its test "!ok || oq != nil" holds with
\* and without an entry in the map.
getQueue(c, step) ==
  /\ ~blacklisted
  /\ \E q \in Queues :
       /\ Unused(q)
       /\ queueMap' = q
       /\ running' = [running EXCEPT ![q] = FALSE]
       /\ overflowed' = [overflowed EXCEPT ![q] = FALSE]
       /\ notify' = [notify EXCEPT ![q] = FALSE]
       /\ backingOff' = [backingOff EXCEPT ![q] = FALSE]
       /\ pending' = [pending EXCEPT ![q] = Empty]
       /\ toSend' = [toSend EXCEPT ![q] = Empty]
       /\ cq' = [cq EXCEPT ![c] = q]
  /\ Step(c, step)
  /\ UNCHANGED <<spawned, wpc>>

\* SendEvent and SendEDU for this destination: find the queue ...
SendBegin(i) ==
  /\ cpc[i] = "idle"
  /\ NoQueueFor(i) \/ getQueue(i, "assoc")
  /\ UNCHANGED <<rows, received, stats, retries, crashes>>

\* ... persist the association, or give up when that fails ...
Associate(i) ==
  /\ cpc[i] = "assoc"
  /\ \/ rows' = rows \cup {i} /\ Step(i, "append") /\ UNCHANGED cq
     \/ Finish(i) /\ UNCHANGED rows
  /\ UNCHANGED <<received, stats, queueMap, queueVars, retries, crashes>>

\* ... then, unless blacklisted by now, put it in memory if there is room ...
AppendPending(i) ==
  /\ cpc[i] = "append"
  /\ IF blacklisted
       THEN Finish(i) /\ UNCHANGED <<pending, overflowed>>
       ELSE /\ LET q == cq[i] k == KindOf(i) IN
               IF Len(pending[q][k]) < MaxInMemory
                 THEN /\ pending' = [pending EXCEPT ![q][k] = Append(@, i)]
                      /\ UNCHANGED overflowed
                 ELSE /\ overflowed' = [overflowed EXCEPT ![q] = TRUE]
                      /\ UNCHANGED pending
            /\ Step(i, "wake") /\ UNCHANGED cq
  /\ UNCHANGED <<rows, received, stats, queueMap, running, notify,
                 backingOff, toSend, spawned, wpc, retries, crashes>>

\* wakeQueueIfNeeded.  The interrupt of a backoff is not an action: the queue
\* a call wakes is never backing off (WakeFindsNoBackoff).
wakeQueueIfNeeded(c) ==
  /\ cpc[c] = "wake"
  /\ LET q == cq[c] IN
     spawned' = [spawned EXCEPT ![q] = IF running[q] THEN @ ELSE @ + 1]
  /\ IF c \in Items THEN Step(c, "notify") /\ UNCHANGED cq ELSE Finish(c)
  /\ UNCHANGED <<rows, received, stats, queueMap, running, overflowed,
                 notify, backingOff, pending, toSend, wpc, retries, crashes>>

\* The non-blocking send on notify, a channel of capacity one.
Notify(i) ==
  /\ cpc[i] = "notify"
  /\ notify' = [notify EXCEPT ![cq[i]] = TRUE]
  /\ Finish(i)
  /\ UNCHANGED <<rows, received, stats, queueMap, running, overflowed,
                 backingOff, pending, toSend, spawned, wpc, retries, crashes>>

RetryServer ==
  /\ cpc[Retry] \in {"idle", "done"}
  /\ retries < MaxRetries
  /\ retries' = retries + 1
  /\ NoQueueFor(Retry) \/ getQueue(Retry, "wake")
  /\ UNCHANGED <<rows, received, stats, crashes>>

\* Five seconds after a start, the servers that have rows are woken.
HydrateQueues ==
  /\ cpc[Hydrate] = "idle"
  /\ \/ rows # {} /\ (NoQueueFor(Hydrate) \/ getQueue(Hydrate, "wake"))
     \/ rows = {} /\ Finish(Hydrate) /\ UNCHANGED <<queueMap, queueVars>>
  /\ UNCHANGED <<rows, received, stats, retries, crashes>>

-----------------------------------------------------------------------------
(* backgroundSend, the worker of queue q *)

At(q, step) == wpc[q] = step
Go(q, step) == wpc' = [wpc EXCEPT ![q] = step]

\* running.CAS(false, true) and overflowed.Store(true).
BackgroundStart(q) ==
  /\ spawned[q] > 0
  /\ spawned' = [spawned EXCEPT ![q] = @ - 1]
  /\ running' = [running EXCEPT ![q] = TRUE]
  /\ IF running[q]
       THEN UNCHANGED <<overflowed, wpc>>
       ELSE overflowed' = [overflowed EXCEPT ![q] = TRUE] /\ Go(q, "top")
  /\ UNCHANGED <<rows, received, stats, queueMap, notify, backingOff,
                 pending, toSend, callVars, retries, crashes>>

\* Mutant: neither the limit nor the selection accounts for what is held.
Fetched_Again(k, s) ==
  IF Len(s) < MaxInMemory
    THEN UNION {Orders(S) : S \in {R \in SUBSET (rows \cap ItemsOf(k)) :
                                       Cardinality(R) <= MaxInMemory}}
    ELSE {<<>>}

\* What GetPendingPDUs / GetPendingEDUs may add to a list that holds s: the
\* rows selected, at most as many as there is room for, without those already
\* held, in any order; nothing when the query fails.
Fetched(k, s) ==
  LET room == MaxInMemory - Len(s)
      mine == rows \cap ItemsOf(k)
      selections == {S \in SUBSET mine :
                       Cardinality(S) = IF Cardinality(mine) < room
                                          THEN Cardinality(mine) ELSE room}
  IN IF room > 0
       THEN {<<>>} \cup UNION {Orders(S \ Elements(s)) : S \in selections}
       ELSE {<<>>}

getPendingFromDatabase(q) ==
  \E new \in [pdu : Fetched("pdu", pending[q]["pdu"]),
              edu : Fetched("edu", pending[q]["edu"])] :
    LET now == [k \in Kinds |-> pending[q][k] \o new[k]] IN
    /\ pending' = [pending EXCEPT ![q] = now]
    /\ overflowed' = [overflowed EXCEPT ![q] = \E k \in Kinds : Len(now[k]) >= MaxInMemory]
    /\ notify' = [notify EXCEPT ![q] = @ \/ \E k \in Kinds : new[k] # <<>>]

\* The top of the loop.
LoopTop(q) ==
  /\ At(q, "top")
  /\ IF overflowed[q]
       THEN getPendingFromDatabase(q)
       ELSE UNCHANGED <<pending, overflowed, notify>>
  /\ Go(q, "select")
  /\ UNCHANGED <<rows, received, stats, queueMap, running, backingOff,
                 toSend, spawned, callVars, retries, crashes>>

Notified(q) ==
  /\ At(q, "select")
  /\ notify[q]
  /\ notify' = [notify EXCEPT ![q] = FALSE]
  /\ Go(q, "info")
  /\ UNCHANGED <<rows, received, stats, queueMap, running, overflowed,
                 backingOff, pending, toSend, spawned, callVars, retries, crashes>>

\* queueIdleTimeout passes without a notification.
IdleTimeout(q) ==
  /\ At(q, "select")
  /\ ~notify[q]
  /\ PromptCallers => \A c \in Calls : cq[c] # q
  /\ Go(q, "stop")
  /\ UNCHANGED <<rows, received, stats, queueMap, running, overflowed,
                 notify, backingOff, pending, toSend, spawned, callVars, retries, crashes>>

\* Mutant: a worker that finds the server backing off gives up.
CheckBackoff_GivesUp(q) ==
  /\ At(q, "info")
  /\ Go(q, IF blacklisted \/ backoff THEN "stop" ELSE "snapshot")
  /\ UNCHANGED <<rows, received, stats, queueMap, running, overflowed, notify,
                 backingOff, pending, toSend, spawned, callVars, retries, crashes>>

\* BackoffInfo: give up when blacklisted, wait when backing off.
CheckBackoff(q) ==
  /\ At(q, "info")
  /\ IF blacklisted
       THEN /\ pending' = [pending EXCEPT ![q] = Empty]
            /\ Go(q, "stop") /\ UNCHANGED backingOff
       ELSE /\ backingOff' = [backingOff EXCEPT ![q] = backoff]
            /\ Go(q, IF backoff THEN "backoff" ELSE "snapshot")
            /\ UNCHANGED pending
  /\ UNCHANGED <<rows, received, stats, queueMap, running, overflowed,
                 notify, toSend, spawned, callVars, retries, crashes>>

\* The worker's own timer, set to the end of the interval it read; the
\* interval may have been cancelled or replaced since.
BackoffDone(q) ==
  /\ At(q, "backoff")
  /\ backingOff' = [backingOff EXCEPT ![q] = FALSE]
  /\ Go(q, "snapshot")
  /\ UNCHANGED <<rows, received, stats, queueMap, running, overflowed,
                 notify, pending, toSend, spawned, callVars, retries, crashes>>

\* Mutant: the batch is the back of the list.
Batch_Back(s) ==
  SubSeq(s, IF Len(s) > MaxPerTransaction THEN Len(s) - MaxPerTransaction + 1 ELSE 1, Len(s))

Batch(s) == SubSeq(s, 1, IF Len(s) > MaxPerTransaction THEN MaxPerTransaction ELSE Len(s))

\* The next transaction takes the front of both lists; with nothing pending
\* nextTransaction sends nothing and the loop starts over.
Snapshot(q) ==
  /\ At(q, "snapshot")
  /\ toSend' = [toSend EXCEPT ![q] = [k \in Kinds |-> Batch(pending[q][k])]]
  /\ Go(q, IF pending[q] = Empty THEN "top" ELSE "sending")
  /\ UNCHANGED <<rows, received, stats, queueMap, running, overflowed,
                 notify, backingOff, pending, spawned, callVars, retries, crashes>>

Sent(q) == Elements(toSend[q]["pdu"]) \cup Elements(toSend[q]["edu"])

\* SendTransaction: the destination accepts and answers ...
SendAnswered(q) ==
  /\ At(q, "sending")
  /\ received' = received \cup Sent(q)
  /\ Go(q, "cleanpdus")
  /\ UNCHANGED <<rows, stats, queueMap, running, overflowed, notify,
                 backingOff, pending, toSend, spawned, callVars, retries, crashes>>

\* Mutant: rows are deleted whether or not the request succeeded.
SendFailed_Cleans(q) ==
  /\ At(q, "sending")
  /\ Failure
  /\ Go(q, "cleanpdus")
  /\ UNCHANGED <<rows, received, queueMap, running, overflowed, notify, backingOff,
                 pending, toSend, spawned, callVars, retries, crashes>>

\* ... or there is an error, whether or not the destination got the request;
\* backgroundSend reports it to the statistics.
SendFailed(q) ==
  /\ At(q, "sending")
  /\ received' \in {received, received \cup Sent(q)}
  /\ Failure
  /\ toSend' = [toSend EXCEPT ![q] = Empty]
  /\ Go(q, "top")
  /\ UNCHANGED <<rows, queueMap, running, overflowed, notify, backingOff, pending,
                 spawned, callVars, retries, crashes>>

\* CleanPDUs, then CleanEDUs; an error is only logged.
CleanPDUs(q) ==
  /\ At(q, "cleanpdus")
  /\ rows' \in {rows, rows \ Elements(toSend[q]["pdu"])}
  /\ Go(q, "cleanedus")
  /\ UNCHANGED <<received, stats, queueMap, running, overflowed, notify,
                 backingOff, pending, toSend, spawned, callVars, retries, crashes>>

CleanEDUs(q) ==
  /\ At(q, "cleanedus")
  /\ rows' \in {rows, rows \ Elements(toSend[q]["edu"])}
  /\ Go(q, "sent")
  /\ UNCHANGED <<received, stats, queueMap, running, overflowed, notify,
                 backingOff, pending, toSend, spawned, callVars, retries, crashes>>

\* statistics.Success(), then the sent items are cut off the fronts.
DropSent(q) ==
  /\ At(q, "sent")
  /\ Success
  /\ pending' = [pending EXCEPT ![q] = [k \in Kinds |->
                   SubSeq(@[k], Len(toSend[q][k]) + 1, Len(@[k]))]]
  /\ toSend' = [toSend EXCEPT ![q] = Empty]
  /\ Go(q, "top")
  /\ UNCHANGED <<rows, received, queueMap, running, overflowed, notify, backingOff,
                 spawned, callVars, retries, crashes>>

\* The deferred calls: running.Store(false), then clearQueue, which deletes
\* the destination's entry whichever queue it names.  Nothing refers to the
\* queue's lists after that.
clearQueue(q) ==
  /\ At(q, "stop")
  /\ running' = [running EXCEPT ![q] = FALSE]
  /\ queueMap' = NoQueue
  /\ overflowed' = [overflowed EXCEPT ![q] = FALSE]
  /\ notify' = [notify EXCEPT ![q] = FALSE]
  /\ pending' = [pending EXCEPT ![q] = Empty]
  /\ Go(q, "none")
  /\ UNCHANGED <<rows, received, stats, backingOff, toSend, spawned, callVars,
                 retries, crashes>>

-----------------------------------------------------------------------------
(* The process dies and starts again: only what is persisted survives.     *)
Crash ==
  /\ crashes < MaxCrashes
  /\ crashes' = crashes + 1
  /\ backoff' = FALSE /\ failures' = 0
  /\ queueMap' = NoQueue
  /\ running' = [q \in Queues |-> FALSE]
  /\ overflowed' = [q \in Queues |-> FALSE]
  /\ notify' = [q \in Queues |-> FALSE]
  /\ backingOff' = [q \in Queues |-> FALSE]
  /\ pending' = [q \in Queues |-> Empty]
  /\ toSend' = [q \in Queues |-> Empty]
  /\ spawned' = [q \in Queues |-> 0]
  /\ wpc' = [q \in Queues |-> "none"]
  /\ cpc' = [c \in Calls |-> IF c \in Items /\ cpc[c] # "idle" THEN "done" ELSE "idle"]
  /\ cq' = [c \in Calls |-> NoQueue]
  /\ UNCHANGED <<rows, received, blacklisted, retries>>

Send(i) == Associate(i) \/ AppendPending(i) \/ wakeQueueIfNeeded(i) \/ Notify(i)

Wake(c) == wakeQueueIfNeeded(c)

Worker(q) ==
  \/ BackgroundStart(q) \/ LoopTop(q) \/ Notified(q) \/ IdleTimeout(q)
  \/ CheckBackoff(q) \/ BackoffDone(q) \/ Snapshot(q) \/ SendAnswered(q)
  \/ SendFailed(q) \/ CleanPDUs(q) \/ CleanEDUs(q) \/ DropSent(q)
  \/ clearQueue(q)

Next ==
  \/ \E i \in Items : SendBegin(i) \/ Send(i)
  \/ RetryServer \/ HydrateQueues \/ \E c \in {Retry, Hydrate} : Wake(c)
  \/ \E q \in Queues : Worker(q)
  \/ OtherRequest \/ BackoffElapses \/ Crash

Spec == Init /\ [][Next]_vars

\* Calls in progress and workers keep running and backoff intervals end.
FairSpec ==
  /\ Spec
  /\ \A i \in Items : WF_vars(Send(i))
  /\ \A c \in {Retry, Hydrate} : WF_vars(Wake(c))
  /\ WF_vars(HydrateQueues)
  /\ \A q \in Queues : WF_vars(Worker(q))
  /\ WF_vars(BackoffElapses)

-----------------------------------------------------------------------------
(* Properties *)

TypeOK ==
  /\ rows \subseteq Items /\ received \subseteq Items
  /\ blacklisted \in BOOLEAN /\ backoff \in BOOLEAN
  /\ failures \in 0..Limit
  /\ queueMap \in Queues \cup {NoQueue}
  /\ running \in [Queues -> BOOLEAN]
  /\ overflowed \in [Queues -> BOOLEAN]
  /\ notify \in [Queues -> BOOLEAN]
  /\ backingOff \in [Queues -> BOOLEAN]
  /\ pending \in [Queues -> [Kinds -> Seq(Items)]]
  /\ toSend \in [Queues -> [Kinds -> Seq(Items)]]
  /\ spawned \in [Queues -> Nat]
  /\ wpc \in [Queues -> {"none", "top", "select", "info", "backoff", "snapshot",
                         "sending", "cleanpdus", "cleanedus", "sent", "stop"}]
  /\ cpc \in [Calls -> {"idle", "assoc", "append", "wake", "notify", "done"}]
  /\ cq \in [Calls -> Queues \cup {NoQueue}]

\* The lists a queue keeps in memory never outgrow their limits, although a
\* call appends to them and the worker refills them from the database.
MemoryBounded == \A q \in Queues, k \in Kinds : Len(pending[q][k]) <= MaxInMemory

\* What a worker cuts off the front of its lists after a transaction is what
\* the transaction carried: nothing changes the fronts while it is in flight.
DropsWhatItSent ==
  \A q \in Queues, k \in Kinds :
    wpc[q] \in {"sending", "cleanpdus", "cleanedus", "sent"} =>
      toSend[q][k] = SubSeq(pending[q][k], 1, Len(toSend[q][k]))

\* No list holds an item twice: a row that is already in memory is skipped
\* when the worker refills its lists from the database.
NoDuplicatesPending == \A q \in Queues, k \in Kinds : Distinct(pending[q][k])

\* A call never finds the queue it wakes backing off, so the send on
\* interruptBackoff, which would block the caller, is never reached.
WakeFindsNoBackoff == \A c \in Calls : cpc[c] = "wake" => ~backingOff[cq[c]]

\* Through crashes, failed requests, lost answers and overlapping workers, the
\* queues behave as an at-least-once outbox: a row is deleted only after the
\* destination received the item.
Outbox == INSTANCE DurableOutbox WITH outbox <- rows, delivered <- received
IsDurableOutbox == Outbox!Spec

\* As long as the destination is never blacklisted and the process does not
\* crash, what a call has put into memory is offered at least once.
Offered(i) == \E q \in Queues : wpc[q] = "sending" /\ i \in Sent(q)
AppendedIsOffered ==
  [](~blacklisted /\ crashes = 0) =>
    \A i \in Items : (cpc[i] = "notify") ~> (Offered(i) \/ i \in received)

\* destinationqueue.go:45-47: the queue "ensures that only one request is in
\* flight to a given destination at a time".  The code does not keep this:
\* getQueue makes a new queue for every call.
OneRequestInFlight ==
  \A q, r \in Queues : wpc[q] = "sending" /\ wpc[r] = "sending" => q = r
=============================================================================
