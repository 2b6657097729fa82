---------------------------- MODULE AppServices ----------------------------
(***************************************************************************)
(* From a client's request to an application service: SendEvent of the     *)
(* client API with its transaction cache, the transaction table and the    *)
(* output log of the roomserver, the consumer that queues events for each  *)
(* interested application service (appservice/consumers), and the worker   *)
(* of each service that sends the queue in transactions                    *)
(* (appservice/workers), for one user who sends to ONE room.               *)
(*                                                                         *)
(* Storage is PostgreSQL and the output log has one partition.  A worker   *)
(* and the consumer have copies of the worker state; they share the        *)
(* condition variable, not the flag EventsReady.  The length of the        *)
(* backoff is left out.                                                    *)
(***************************************************************************)
EXTENDS Integers, Sequences, FiniteSets, FiniteSetsExt, Functions

CONSTANTS
    WorkerStates,  \* the application services, in the order of the configuration
    Txns,          \* transaction IDs of clients
    None,
    BatchSize,     \* events in a transaction (50 in the code)
    MaxRequests,   \* bound: requests of clients, retries included
    MaxEvents,     \* bound: events that are made
    MaxFaults      \* bound: crashes and failed inserts

Services == Range(WorkerStates)

ASSUME AppServicesAssumption ==
    /\ WorkerStates \in Seq(Services) \ {<<>>} /\ Cardinality(Services) = Len(WorkerStates)
    /\ None \notin Txns /\ None \notin Services /\ BatchSize \in Nat \ {0}
    /\ MaxRequests \in Nat /\ MaxEvents \in Nat /\ MaxFaults \in Nat

VARIABLES
    requests,    \* client API: number of requests so far
    waiting,     \* client API: requests that were not in the cache and wait for the mutex of
                 \* the user in the room
    txnsMaps,    \* client API: the transaction IDs in the two maps of the cache, front one first
    txnTable,    \* roomserver: roomserver_transactions
    made,        \* number of events that the roomserver was the first to get
    joined,      \* roomserver: services with a user in the room
    log,         \* output log: room events
    offset,      \* appservice database: number of messages that are done
    consumer,    \* the goroutine that handles the next message
    events,      \* appservice database: appservice_events of each service
    nextID,      \* appservice database: the sequence of IDs
    txnCounter,  \* appservice database: txn_id_counter
    worker,      \* the goroutine of each service
    accepted,    \* each service: transaction IDs it has taken
    delivered,   \* each service: events it has taken
    inserted,    \* history: rows inserted for each service, without the transaction ID
    failed,      \* history: messages whose inserts failed
    leftover,    \* history: rows that a worker found when it started and has not removed
    faults

client == <<requests, waiting, txnsMaps>>
room == <<txnTable, made, joined, log>>
consuming == <<offset, consumer, inserted, failed>>
services == <<accepted, delivered>>
sending == <<txnCounter, worker, services, leftover>>
table == <<events, nextID>>
vars == <<client, room, consuming, sending, table, faults>>

Fault == faults < MaxFaults /\ faults' = faults + 1

-----------------------------------------------------------------------------
(* Events and the output log                                               *)

\* about: the service whose user joins or leaves, None for other events
Event(n, type, about, txn) == [id |-> n, type |-> type, about |-> about, txn |-> txn]

WriteOutputEvents(msg) == log' = Append(log, msg)

\* The other events of the room: the roomserver takes them with no transaction ID, and a
\* message may have state events with the new event (AddStateEvents).
RoomEvent ==
    /\ made < MaxEvents
    /\ \E s \in Services, type \in {"join", "leave"} :
          /\ (type = "leave") = (s \in joined)
          /\ joined' = IF type = "join" THEN joined \cup {s} ELSE joined \ {s}
          /\ \/ /\ made' = made + 1
                /\ WriteOutputEvents(<<Event(made + 1, type, s, None)>>)
             \/ /\ made + 2 <= MaxEvents
                /\ made' = made + 2
                /\ WriteOutputEvents(<<Event(made + 1, "message", None, None),
                                       Event(made + 2, type, s, None)>>)
    /\ UNCHANGED <<client, txnTable, consuming, sending, table, faults>>

-----------------------------------------------------------------------------
(* SendEvent                                                               *)

\* The cache is looked up before the mutex is taken.
FetchTransaction(t) ==
    /\ requests < MaxRequests
    /\ requests' = requests + 1
    /\ waiting' = IF t \in txnsMaps[1] \cup txnsMaps[2] THEN waiting
                  ELSE [waiting EXCEPT ![t] = @ + 1]
    /\ UNCHANGED <<txnsMaps, room, consuming, sending, table, faults>>

AddTransaction(t) == txnsMaps' = [txnsMaps EXCEPT ![1] = @ \cup {t}]

Written(t) == WriteOutputEvents(<<Event(made + 1, "message", None, t)>>)

\* Mutant: a transaction that is already known is stored again.
ProcessRoomEventAgain(t) ==
    /\ made < MaxEvents /\ made' = made + 1
    /\ txnTable' = txnTable \cup {t}
    /\ \/ Written(t) /\ AddTransaction(t) /\ UNCHANGED faults
       \/ Written(t) /\ UNCHANGED txnsMaps /\ Fault
       \/ UNCHANGED <<log, txnsMaps>> /\ Fault

\* The row of the transaction ID is not written in the transaction of StoreEvent, and stays
\* if that fails; the output is written before the transaction that moves the latest events
\* commits.  If the row is there the event is dropped, and the client gets its ID all the same.
ProcessRoomEvent(t) ==
    \/ /\ t \in txnTable
       /\ AddTransaction(t)
       /\ UNCHANGED <<made, txnTable, log, faults>>
    \/ /\ t \notin txnTable
       /\ made < MaxEvents /\ made' = made + 1
       /\ txnTable' = txnTable \cup {t}
       /\ \/ Written(t) /\ AddTransaction(t) /\ UNCHANGED faults
          \/ Written(t) /\ UNCHANGED txnsMaps /\ Fault
          \/ UNCHANGED <<log, txnsMaps>> /\ Fault

\* One request at a time, under the mutex of the user in the room; the event may not be
\* allowed, which ends the request.  A process that stops in between leaves what a failure
\* leaves.
SendEvent(t) ==
    /\ waiting[t] > 0
    /\ waiting' = [waiting EXCEPT ![t] = @ - 1]
    /\ \/ ProcessRoomEvent(t)
       \/ UNCHANGED <<made, txnTable, log, txnsMaps, faults>>
    /\ UNCHANGED <<requests, joined, consuming, sending, table>>

CacheCleanService ==
    /\ txnsMaps # <<{}, {}>>
    /\ txnsMaps' = <<{}, txnsMaps[1]>>
    /\ UNCHANGED <<requests, waiting, room, consuming, sending, table, faults>>

-----------------------------------------------------------------------------
(* ContinualConsumer and OutputRoomEventConsumer                           *)

\* Where the loops of filterRoomserverEvents are: the service, then the event of the message.
NewConsumer == [as |-> 1, ev |-> 1, notify |-> None]

Message == log[offset + 1]
InLoop == offset < Len(log) /\ consumer.as <= Len(WorkerStates)
Service == WorkerStates[consumer.as]
Current == Message[consumer.ev]

Advanced == IF consumer.ev < Len(Message) THEN [consumer EXCEPT !.ev = @ + 1]
            ELSE [consumer EXCEPT !.as = @ + 1, !.ev = 1]
Returned == [consumer EXCEPT !.as = Len(WorkerStates) + 1, !.ev = 1]

\* Membership is looked up in the current state of the room, not in the state at the event.
AppserviceIsInterestedInEvent(s, ev) == ev.about = s \/ s \in joined

InsertEvent(s, ev) ==
    /\ events' = [events EXCEPT ![s] = @ \cup {[id |-> nextID, ev |-> ev, txn |-> -1]}]
    /\ inserted' = [inserted EXCEPT ![s] = Append(@, [id |-> nextID, ev |-> ev])]
    /\ nextID' = nextID + 1

\* An insert that fails ends the handling of the message.
FilterRoomserverEvents ==
    /\ InLoop /\ consumer.notify = None
    /\ \/ /\ ~AppserviceIsInterestedInEvent(Service, Current)
          /\ consumer' = Advanced
          /\ UNCHANGED <<inserted, failed, table, faults>>
       \/ /\ AppserviceIsInterestedInEvent(Service, Current)
          /\ InsertEvent(Service, Current)
          /\ consumer' = [Advanced EXCEPT !.notify = Service]
          /\ UNCHANGED <<failed, faults>>
       \/ /\ AppserviceIsInterestedInEvent(Service, Current)
          /\ Fault
          /\ failed' = failed \cup {offset + 1}
          /\ consumer' = Returned
          /\ UNCHANGED <<inserted, table>>
    /\ UNCHANGED <<client, room, offset, sending>>

\* The broadcast reaches a worker that waits; the flag is set on a copy that nobody reads.
NotifyNewEvents ==
    /\ consumer.notify # None
    /\ worker' = [worker EXCEPT ![consumer.notify].pc = IF @ = "waiting" THEN "select" ELSE @]
    /\ consumer' = [consumer EXCEPT !.notify = None]
    /\ UNCHANGED <<client, room, offset, inserted, failed, txnCounter, services, leftover, table, faults>>

\* Whatever the handler returned.
SetPartitionOffset ==
    /\ offset < Len(log)
    /\ consumer.notify = None /\ ~InLoop
    /\ offset' = offset + 1
    /\ consumer' = NewConsumer
    /\ UNCHANGED <<client, room, inserted, failed, sending, table, faults>>

-----------------------------------------------------------------------------
(* The worker of a service                                                 *)

NewWorker == [pc |-> "start", ready |-> FALSE, txn |-> 0, maxID |-> 0, batch |-> <<>>,
              remaining |-> FALSE]

\* The next round starts with nothing of the last one but the flag.
Again(s, ready) == worker' = [worker EXCEPT ![s] = [NewWorker EXCEPT !.pc = "wait", !.ready = ready]]

\* Events that are left over from before the start make the worker go on without a wait.
StartWorker(s) ==
    /\ worker[s].pc = "start"
    /\ Again(s, events[s] # {})
    /\ leftover' = [leftover EXCEPT ![s] = {r.id : r \in events[s]}]
    /\ UNCHANGED <<client, room, consuming, txnCounter, services, table, faults>>

WaitForNewEvents(s) ==
    /\ worker[s].pc = "wait"
    /\ worker' = [worker EXCEPT ![s].pc = IF worker[s].ready THEN "select" ELSE "waiting"]
    /\ UNCHANGED <<client, room, consuming, txnCounter, services, leftover, table, faults>>

\* What the query may return: every row once, ORDER BY txn_id DESC, id ASC.
Before(r, q) == r.txn > q.txn \/ (r.txn = q.txn /\ r.id < q.id)
Rows(s) == {rows \in [1..Cardinality(events[s]) -> events[s]] :
               /\ Range(rows) = events[s]
               /\ \A i, j \in DOMAIN rows : i < j => Before(rows[i], rows[j])}

\* The loop returns at the first row with another transaction ID, or, if the rows have none
\* yet, at the first one beyond the limit.
Processed(rows, limit) ==
    LET returns == {i \in 1..Len(rows) : \/ rows[i].txn # rows[1].txn
                                         \/ rows[i].txn = -1 /\ i > limit}
    IN  Min({Len(rows) + 1} \cup returns) - 1

\* With no rows the results keep their zero values.
Results(rows, processed, counted, remaining) ==
    [txn       |-> IF rows = <<>> THEN 0 ELSE rows[1].txn,
     maxID     |-> Max({0} \cup {rows[i].id : i \in 1..counted}),
     batch     |-> [i \in 1..processed |-> rows[i].ev],
     remaining |-> remaining]

\* Mutant: one event more than the limit is taken.
RetrieveEventsOneMore(rows) ==
    LET n == Processed(rows, BatchSize + 1) IN Results(rows, n, n, n < Len(rows))

\* Mutant: a row counts for maxID before the limit is checked.
RetrieveEventsCountsOneMore(rows) ==
    LET n == Processed(rows, BatchSize)
    IN  Results(rows, n, Processed(rows, BatchSize + 1), n < Len(rows))

\* Mutant: the events beyond the limit are not reported.
RetrieveEventsForgetsRest(rows) ==
    LET n == Processed(rows, BatchSize) IN Results(rows, n, n, FALSE)

RetrieveEvents(rows) ==
    LET n == Processed(rows, BatchSize) IN Results(rows, n, n, n < Len(rows))

\* The first half of createTransaction.
GetEventsWithAppServiceID(s) ==
    /\ worker[s].pc = "select"
    /\ \E rows \in Rows(s) :
          LET read == RetrieveEvents(rows)
          IN  worker' = [worker EXCEPT ![s] = [pc |-> IF read.txn = -1 THEN "number" ELSE "send",
                                               ready |-> worker[s].ready, txn |-> read.txn,
                                               maxID |-> read.maxID, batch |-> read.batch,
                                               remaining |-> read.remaining]]
    /\ UNCHANGED <<client, room, consuming, txnCounter, services, leftover, table, faults>>

GetLatestTxnID(s) ==
    /\ worker[s].pc = "number"
    /\ txnCounter' = txnCounter + 1
    /\ worker' = [worker EXCEPT ![s].txn = txnCounter + 1, ![s].pc = "mark"]
    /\ UNCHANGED <<client, room, consuming, services, leftover, table, faults>>

UpdateTxnIDForEvents(s) ==
    /\ worker[s].pc = "mark"
    /\ events' = [events EXCEPT ![s] =
          {[r EXCEPT !.txn = IF r.id <= worker[s].maxID THEN worker[s].txn ELSE @] : r \in @}]
    /\ worker' = [worker EXCEPT ![s].pc = "send"]
    /\ UNCHANGED <<client, room, consuming, txnCounter, services, leftover, nextID, faults>>

\* What a service does with a transaction: one whose ID it knows is not taken again, and
\* one without events (ID 0) changes nothing.
TakeTransaction(s) ==
    /\ accepted' = IF worker[s].batch = <<>> THEN accepted
                   ELSE [accepted EXCEPT ![s] = @ \cup {worker[s].txn}]
    /\ delivered' = IF worker[s].txn \in accepted[s] THEN delivered
                    ELSE [delivered EXCEPT ![s] = @ \o worker[s].batch]

\* Sent and answered with OK; the worker clears its own flag if nothing remains.
SendOK(s) ==
    /\ worker[s].pc = "send"
    /\ TakeTransaction(s)
    /\ worker' = [worker EXCEPT ![s].pc = "remove", ![s].ready = @ /\ worker[s].remaining]
    /\ UNCHANGED <<client, room, consuming, txnCounter, leftover, table, faults>>

\* No answer or another one, whether or not the service has taken the transaction: after the
\* backoff the worker waits for new events.
SendFails(s) ==
    /\ worker[s].pc = "send"
    /\ TakeTransaction(s) \/ UNCHANGED services
    /\ Again(s, worker[s].ready)
    /\ UNCHANGED <<client, room, consuming, txnCounter, leftover, table, faults>>

RemoveEventsBeforeAndIncludingID(s) ==
    /\ worker[s].pc = "remove"
    /\ events' = [events EXCEPT ![s] = {r \in @ : r.id > worker[s].maxID}]
    /\ leftover' = [leftover EXCEPT ![s] = {id \in @ : id > worker[s].maxID}]
    /\ Again(s, worker[s].ready)
    /\ UNCHANGED <<client, room, consuming, txnCounter, services, nextID, faults>>

-----------------------------------------------------------------------------
\* The process stops and starts again: what is in memory is lost.
Lost ==
    /\ Fault
    /\ waiting' = [t \in Txns |-> 0] /\ txnsMaps' = <<{}, {}>>
    /\ consumer' = NewConsumer
    /\ worker' = [s \in Services |-> NewWorker] /\ leftover' = [s \in Services |-> {}]
    /\ UNCHANGED <<requests, room, inserted, failed, txnCounter, services, table>>

\* Mutant: the consumer starts one message too far.
RestartOneFurther ==
    /\ Lost
    /\ offset' = Min({offset + 1, Len(log)})

\* The consumer goes on with the message after the last one whose offset was stored.  An
\* error of the appservice database in a worker or in SetPartitionOffset ends the process
\* as well.
Restart ==
    /\ Lost
    /\ UNCHANGED offset

Init ==
    /\ requests = 0 /\ waiting = [t \in Txns |-> 0] /\ txnsMaps = <<{}, {}>>
    /\ txnTable = {} /\ made = 0 /\ joined = Services
    /\ log = <<>> /\ offset = 0
    /\ consumer = NewConsumer
    /\ events = [s \in Services |-> {}] /\ nextID = 1 /\ txnCounter = 0
    /\ worker = [s \in Services |-> NewWorker]
    /\ accepted = [s \in Services |-> {}] /\ delivered = [s \in Services |-> <<>>]
    /\ inserted = [s \in Services |-> <<>>] /\ failed = {}
    /\ leftover = [s \in Services |-> {}] /\ faults = 0

Consume == FilterRoomserverEvents \/ NotifyNewEvents \/ SetPartitionOffset

Work(s) ==
    \/ StartWorker(s) \/ WaitForNewEvents(s) \/ GetEventsWithAppServiceID(s)
    \/ GetLatestTxnID(s) \/ UpdateTxnIDForEvents(s) \/ SendOK(s) \/ SendFails(s)
    \/ RemoveEventsBeforeAndIncludingID(s)

Next ==
    \/ RoomEvent \/ CacheCleanService \/ Consume \/ Restart
    \/ \E t \in Txns : FetchTransaction(t) \/ SendEvent(t)
    \/ \E s \in Services : Work(s)

\* A worker that can go on goes on, and a service that is sent a transaction again and
\* again answers one of them with OK.
Fairness == \A s \in Services : WF_vars(Work(s)) /\ SF_vars(SendOK(s))

Spec == Init /\ [][Next]_vars /\ Fairness

-----------------------------------------------------------------------------
(* Properties                                                              *)

EventIDs == 1..MaxEvents

\* The variables have their types, and IDs that were taken are below their sequences.
TypeOK ==
    /\ requests \in 0..MaxRequests /\ \A t \in Txns : waiting[t] \in 0..requests
    /\ \A m \in 1..2 : txnsMaps[m] \subseteq Txns
    /\ txnTable \subseteq Txns /\ made \in 0..MaxEvents /\ joined \subseteq Services
    /\ offset \in 0..Len(log) /\ failed \subseteq 1..Len(log)
    /\ consumer.as \in 1..(Len(WorkerStates) + 1) /\ consumer.notify \in Services \cup {None}
    /\ InLoop => consumer.ev \in 1..Len(Message)
    /\ \A s \in Services :
          /\ \A r \in events[s] : r.ev.id \in EventIDs /\ r.id < nextID /\ r.txn <= txnCounter
          /\ worker[s].pc \in {"start", "wait", "waiting", "select", "number", "mark", "send",
                               "remove"}
          /\ worker[s].txn <= txnCounter /\ Len(worker[s].batch) <= BatchSize
          /\ worker[s].maxID < nextID
          /\ accepted[s] \subseteq 0..txnCounter

\* What a service has taken is the beginning of what was inserted for it, in that order, and
\* the rows that it has not taken are the rest: through answers that are lost, batches, and
\* restarts between the request and the deletion, no row is lost, sent in two transactions or
\* overtaken.
DeliversInOrder ==
    \A s \in Services :
        LET taken == Len(delivered[s])
            rest == (taken + 1)..Len(inserted[s])
        IN  /\ taken <= Len(inserted[s])
            /\ \A i \in 1..taken : delivered[s][i] = inserted[s][i].ev
            /\ {[id |-> r.id, ev |-> r.ev] : r \in {q \in events[s] : q.txn \notin accepted[s]}}
                 = {inserted[s][i] : i \in rest}

\* The consumer never passes a membership event of a service's user that it has not
\* inserted, whenever the process stops, unless an insert for the message failed.
ConsumedIsInserted ==
    \A i \in (1..offset) \ failed, s \in Services : \A j \in 1..Len(log[i]) :
        log[i][j].about = s => \E k \in 1..Len(inserted[s]) : inserted[s][k].ev = log[i][j]

\* However often a client repeats a request, one event with its transaction ID is output:
\* also if the cache has lost the response, two requests run at once or one of them fails
\* halfway.
OnePerTransaction ==
    \A i, j \in 1..Len(log) : log[i][1].txn # None /\ log[i][1].txn = log[j][1].txn => i = j

\* What a worker finds when it starts is sent, in as many batches and after as many
\* failures as it takes.
LeftoverIsSent == \A s \in Services : leftover[s] # {} ~> leftover[s] = {}
=============================================================================
