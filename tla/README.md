# Dendrite in TLA+

Dendrite is a Matrix homeserver: a set of components (room server, sync API,
federation sender, key server, ...) that talk through request/response APIs and
through logs (Kafka or an in-process replacement). This directory holds TLA+
models of the parts of it where concurrency, failures and restarts decide
whether it is correct, TLC configurations that check them on small instances,
and TLAPS proofs of the properties that matter most, for every instance.

Nine state machines are modelled: the statistics and the outgoing queues of the
federation sender; the input workers and the event processing of the room
server; the streams, notifier and long-polling requests of the sync API; device
lists between two servers; the memberships of users in a room of another server;
inbound federation transactions; and the way from a client's request to an
application service.

Source paths are relative to `src/`. `PROJECT.json` maps each definition to the
lines it models and lists components, runs, mutants, hazards and theorems.

## How the parts interact

    clients              other servers                     other servers
       |                      |                                  ^
       | AppServices          | FederationInbound                |
       | Memberships          | Memberships, DeviceLists         |
       v                      v                                  |
    RoomInput ----> RoomEvents ----> output log --+--> OutgoingQueues
    one worker      one event at a                |    ServerStatistics
    per room        time                          |    one destination
                                                  |
                                                  +--> SyncStreams ----> clients
                                                  |
                                                  +--> AppServices ----> services

- `RoomInput` guarantees what the other modules take for granted:
  `processRoomEvent` runs once at a time for a room. This is theorem
  `ProcessedOneAtATime`.
- `RoomEvents` takes `processRoomEvent` apart into its transactions and writes
  the output log. `ReceiverInStep` states what a component that follows the log
  may rely on. `Memberships`, `FederationInbound` and `AppServices` are
  compositions of several components around it, in which an event is processed
  in one step, or fails between two of them where that makes a difference.
- `OutgoingQueues` reads two bits of `ServerStatistics`, blacklisted and backing
  off. Whether a failure counts is decided there by a compare-and-swap, and is a
  free choice in `OutgoingQueues`, which therefore allows more behaviours.
- `AppServices` and `SyncStreams` both have the log consumer of `internal`: the
  offset moves after the handler, whatever it returned, and a restart delivers
  the message again.

## Modules

### ServerStatistics

Models `federationsender/statistics/statistics.go` for one remote server. Every
atomic access of `Failure` and `Success` is an action, so two calls interleave
as goroutines do: `FailureBegin` is the CAS on `backoffStarted`, `FailureInc`
and `FailureIncLast` are `backoffCount.Inc()` with its two outcomes,
`FailureStoreUntil` stores the interval, and so on to `SuccessDbRemove`. The
goroutine that `Failure` starts is `TimerBegin` (it reads `backoffUntil`) and
`TimerFires`. `CancelInterrupt` is the non-blocking send that ends it early.
`Tick` lets time pass: instants are kept as the seconds left until them.

### OutgoingQueues and DurableOutbox

`OutgoingQueues` models `federationsender/queue` for one destination. A call
goes through `SendBegin` (`getQueue`), `Associate` (the row), `AppendPending`
(the list in memory), `wakeQueueIfNeeded` and `Notify`. A worker goes through
`BackgroundStart`, `LoopTop`, `Notified` or `IdleTimeout`, `CheckBackoff`,
`BackoffDone`, `Snapshot`, `SendAnswered` or `SendFailed`, `CleanPDUs`,
`CleanEDUs` and `DropSent`. Each is a stretch of the code between two points
where another goroutine can run. The request may be received although the answer
is lost. `Crash` keeps the rows and the blacklist and loses the rest, and
`HydrateQueues` is the start from the database. `OtherRequest` stands for the
requests outside the queues that report to the same statistics.

`DurableOutbox` is what the sender promises: an accepted item stays in the outbox
until it has been delivered. The refinement maps `outbox` to the rows and
`delivered` to what the destination has received.

### RoomInput

Models `roomserver/internal/input/input.go`. `EnsureWorker` is the CAS on
`running`, `SendTask` the send on the buffered channel, `Return` the end of
`wg.Wait()`. A worker is `Receive`, `Process`, `IdleTimeout` (it leaves the
loop) and `Stop` (the deferred `running.Store(false)`). With SQLite all rooms
share one worker (`Concurrent = FALSE`).

### RoomEvents

Models `processRoomEvent` for one room as the transactions it is made of: `Begin`
stores the event, `Link` records its references, `SetState` calculates the state
before it, and `UpdateLatestEvents` moves extremities, current state and
memberships and writes the output entry. `CommitFails` writes the entry and
loses the transaction. `Fail` is an error or a crash between any two of them;
any input may be sent again afterwards. An input can be new, old, an outlier or
one that carries its state and rewrites the room. `view` is a receiver that
applies the rule documented for `LastSentEventID`.

State resolution belongs to gomatrixserverlib and is a fixed preference (`Rank`)
among the events of a key. Auth verdicts are free choices within `Rejectable`
and `SoftFailable`.

### SyncStreams

Models `syncapi` for one device and five streams: room events, receipts,
invites, to-device messages and account data. A consumer stores a row
(`OnMessage`), advances its provider (`Advance`) and tells the notifier
(`OnNew`). A request goes through `OnIncomingSyncRequest`, `GetListener`,
`GetNotifyChannel`, `WakeUp` or `GiveUp`, one `ReadStream` or `ReadFails` per
stream in the order of the code, `CleanSendToDevice`, and `Respond` or
`ResponseLost`. `Restart` rebuilds providers and notifier from the tables.
Empty streams may be swept whenever the code may do so.

### DeviceLists

Models both ends of the device list protocol: `keyserver/internal` and its
storage, the key change consumer of the federation sender, and the route that
hands out a list. On the remote server an upload reads the existing keys, stores
the new ones under the next stream ID of the user (`StoreLocalDeviceKeys`) and
announces them (`EmitDeviceKeyChanges`, `OnKeyChange`). Updates are lost,
duplicated and reordered on the way. On this server `Update` checks the
predecessor under the lock of the user and then stores and announces the update
(`StoreUpdate`, `ProduceUpdate`) or marks the list stale (`MarkStale`).
`AssignChannel`, `Poke` and `Return` are `notifyWorkers`. A pass of the worker
is `TakePoke`, `LoadStaleDeviceLists`, then for each user `GetUserDevices` (or
`GetUserDevicesFails`), `ReadExistingKeys`, `StoreFetchedList`, `MarkFresh`,
`EmitFetchedList` and `NextUser`, then `EndPass`, which may leave the server to
the restarter (`RestarterTake`, `RestarterSend`). `Restart` loses everything
that is not in a table, and `StartNext` is `Start`.

### Memberships

Users of one server ("local") and a room of another one ("resident"), where a
member invites, kicks, bans and unbans them. It composes the client API
(`membership.go`), the performers and the membership updater of the room server,
the federation sender (`perform.go`) and the federation API (`join.go`,
`leave.go`, `invite.go`) of both servers.

A join is `PerformJoin` (which decides between a local and a federated one),
then `BuildJoin` and `InputRoomEvents`, or `LoadJoins`, `StoreJoins`,
`MakeJoin`, `SendJoin` and `SendEventWithState` (or `ProcessJoinFails`). A leave
is `PerformLeave` and `InputRoomEvents`, or, for an invite, `MakeLeave`,
`SendLeave` and `RetireInvite`. The member's requests are `PerformInvite`,
`SendKick`, `SendUnban` and `SendBan`. An invite goes through `IsAlreadyJoined`,
`CommitInvite` and `OutputInvite` on the local server before `InputRequest` puts
it into the room. Events travel in order each way (`net`, `ReceiveEvent`).

`state` is the current membership event of each user as each server sees it, and
`tab` the row of the membership table with the active and retired invites of the
invites table. `SetToInvite`, `SetToJoin` and `SetToLeave` are the methods of the
membership updater. The auth rules and state resolution (`Allowed`,
`ResolveConflict`) belong to gomatrixserverlib and are reduced to what tells
membership events apart: kicks and bans before others, then by age.

### FederationInbound

Models `federationapi/routing/send.go` for one room and several origins, each of
which sends its transactions in order and repeats one that is not answered. A
handler takes a PDU through `ProcessEvent` (which prev and auth events are
missing), `RetrieveMissingAuthEvents`, and either `SendNewEvent` or
`GetMissingEvents`, `LookupStates`, `SendExtremity` and `SendRest`. `Skip` is an
error of one PDU, after which the transaction goes on. `ProcessEDUs` ends it.
`GiveUp` is an origin that stops waiting while the handler works on.

The graph is a constant. Other servers know all of it and answer truthfully;
their answer to `/get_missing_events` is what `ScanEventTree` of this code base
would give, with its limit. An event may not be found when the state is fetched
(`lost`), and every query and every input may fail (`Fails`, `InputFails`).
`ScanEventTree` walks the graph level by level (`within`) and gives every set
that the walk can end with: whole levels, and of the last level any events up to
the limit, since the database decides which ones come first. `TrueBefore`, the
state before an event by the whole graph, is a recursive function, and its
equation is a named assumption that TLC evaluates (`StateAssumption`).

### AppServices

From a client to an application service, through four components. `SendEvent`
of the client API looks into the transaction cache (`FetchTransaction`), waits
for the mutex and hands the event to the room server, where `ProcessRoomEvent`
looks the transaction ID up, stores its row and writes the output log.
`CacheCleanService` ages the cache. The consumer is at a position of the two
loops of `filterRoomserverEvents`, over the services and over the events of the
message. `FilterRoomserverEvents` is one turn: it inserts an event that the
service is interested in, and an insert that fails leaves both loops
(`Returned`). `NotifyNewEvents` wakes the worker of the service and
`SetPartitionOffset` moves the offset. A worker is `StartWorker`, `WaitForNewEvents`,
`GetEventsWithAppServiceID`, `GetLatestTxnID`, `UpdateTxnIDForEvents`, `SendOK`
or `SendFails`, and `RemoveEventsBeforeAndIncludingID`. `Rows` is what the query
returns in the order it asks for, `Processed` how far the loop over it gets, and
`RetrieveEvents` the results.

The consumer and the worker have copies of `ApplicationServiceWorkerState`, as in
the code: they share the condition variable and not the flag `EventsReady`. What
a service does with a transaction is external (`TakeTransaction`): it ignores an
ID that it has taken before, as the Matrix specification asks of it.

The `*Proofs` modules hold the theorems, the `MC*` modules the instances.

## Runs

| Run | Configuration | Result |
|---|---|---|
| `server_statistics` | `ServerStatistics.cfg` | passes: one backoff goroutine, a counter that stops at the threshold, every backoff ends |
| `outgoing_queues` | `OutgoingQueues.cfg` | passes: refinement of the outbox, bounded lists without duplicates, only what was sent is dropped, no caller blocks on an interrupt |
| `outgoing_queues_offered` | `OutgoingQueuesOffered.cfg` | passes: what a call put into memory is offered to the destination |
| `room_input` | `RoomInput.cfg` | passes: one worker per lane, request order, complete returns, served lanes drain |
| `room_events` | `RoomEvents.cfg` | passes: extremities, state, memberships and log stay consistent |
| `sync_streams` | `SyncStreams.cfg` | passes: nothing is missed, everything is received in the end |
| `sync_to_device` | `SyncStreamsToDevice.cfg` | passes: deleted only once received, no lost wake-up, tokens survive restarts |
| `device_lists` | `DeviceLists.cfg` | passes: no stale list is forgotten and each is fetched in the end, waits are answered, stored keys are announced |
| `device_lists_fresh` | `DeviceListsFresh.cfg` | violated: an older list overwrites an update and counts as fresh |
| `memberships` | `MCMemberships.cfg` | passes: membership and invites tables agree, invites are announced, no join stays marked as running, the resident server's rows follow its state |
| `federation_inbound` | `MCFederationInbound.cfg` | passes: the state kept for an event is right, an answered transaction is done with, every transaction is answered |
| `app_services` | `MCAppServices.cfg` | passes: one event per transaction ID, ordered delivery across failures and restarts, no message skipped, leftover events are sent |

Each property of a passing run has a mutant in `PROJECT.json`, a plausible bug in
one mapped definition that makes TLC report that property violated.

## Bounds, and why they are enough

- **ServerStatistics.** Two callers, threshold 2, two successes. The races are
  between two calls, or a call and the backoff goroutine; threshold 2 has a
  failure that backs off and one that blacklists. There is one timer identity
  more than may be live, so that a second one would show.
- **OutgoingQueues.** Two PDUs, two queue objects, one item per transaction and
  two in memory, so that a list can hold more than a transaction takes. One
  retry, one crash, one failure until the blacklist. PDUs and queues are
  symmetric. The liveness run has one EDU, two failures until the blacklist and
  no symmetry. It sets `PromptCallers`: no call takes as long as the idle
  timeout (30 s) between two of its steps.
- **RoomInput.** Two calls of up to two events for one room and a channel of two,
  so that a full channel, a stopped worker and a restarted one all occur.
  Deadlock is not checked: calls that have returned leave nothing to do.
- **RoomEvents.** A room of six events that forks three ways and merges, with a
  join, a leave, an invite, two messages and an event that may be rejected
  (`MCRoomEvents`). Each arrives any number of times and in any order; two of
  them also as an old event or an outlier, and the merge also with state.
  Nothing else is bounded.
- **SyncStreams.** All five streams, one request, two updates and one fault. Two
  open requests, three updates and two faults for the to-device stream, whose
  rows are deleted. `FailingReads` has no `pdu`, see below.
- **DeviceLists.** One user with one device, two stream IDs, one call next to
  `Start`, the worker and the restarter, a worker channel of one, and one fault.
  Two stream IDs give an update with a predecessor, a gap and a duplicate. The
  theorems cover more users, calls and devices.
- **Memberships.** Two users, two concurrent client requests, one request of the
  member, three membership events and one fault, in a public room. Three events
  give invite, join and kick of one user, and two users give a room that the
  server is in while a user is not. Users and requests are symmetric. The
  theorems cover the rest.
- **FederationInbound.** A room of eight events that forks into a branch of three
  and one of two and merges, with a conflict over the topic; three origins with
  four transactions, two handlers, one fault, and a limit of 3 where the code
  has 20. The limit is below the length of the gap, so that a gap is closed with
  a state in the middle. This is a fixed graph; the theorems cover the others.
- **AppServices.** One service, one transaction ID that is sent twice, two
  events, one event per transaction and one fault. Two rows and a batch of one
  make a queue that takes more than one transaction. Services share nothing but
  the counters of IDs and the order of the loop.

Deadlock is not checked in the last four: a bounded number of uploads, events or
requests comes to an end.

## Fairness

- `ServerStatistics`: a started call, a started goroutine and the clock go on.
  Nobody is forced to make a call.
- `OutgoingQueues`: started calls and workers go on and backoff intervals end.
  A worker's `select` always has a timer.
- `RoomInput`: callers and workers go on. The idle timer of a worker makes
  `IdleTimeout` one of the things a waiting worker may do.
- `SyncStreams`: consumers finish a message they began, request goroutines go on,
  and the client keeps asking. The `select` of a request has a timer. Nothing
  is assumed about new messages, and faults are bounded.
- `DeviceLists`: the worker, the restarter, `Start` and started calls go on. The
  restarter wakes up by a timer.
- `FederationInbound`: handlers go on, and an origin that waits for nothing sends
  its next transaction, or the same one again.
- `AppServices`: a worker that is not waiting goes on, and a service that is
  sent transactions for ever answers one of them (strong fairness of `SendOK`,
  about the service and not about this code).

Apart from that last one all of it is weak fairness on the steps of one
goroutine, which is what the Go scheduler and its timers give. No choice between
two ready cases of a `select` is assumed to be fair. `Memberships` and
`RoomEvents` have no liveness properties.

## Proofs

TLAPS checks every theorem below for all values of the constants, from the named
`ASSUME`s of the modules, which TLC evaluates in the runs.

**OutgoingQueuesProofs**: `ImplementsOutbox`, `MemoryIsBounded`,
`DropsOnlySent`, `WakeNeverBlocks`, `HeldOnce`, `Typed`. The key is that whatever
a queue holds in memory has a row or has been received. That set only grows,
because a row is deleted only for what a worker has an answer for. The invariant
also says that the batch in flight is the front of the list. `WakeNeverBlocks`
and `HeldOnce` rest on `OwnQueue`: `getQueue` makes a queue object for every
call, and until the call has woken it nobody else knows of it.

**FederationProofs**: `KeptStateIsRight`, `AnswersAreTrue`, `InboundTypes`,
`StateIsSettled` about `FederationInbound`; `OneTimer`, `CounterBounded`,
`StatisticsTypes` about `ServerStatistics`.

The inbound theorems hold for any finite graph without cycles
(`AcyclicAssumption`: among any events there is one whose prev events are not
among them), any origins, transactions, handlers, limit and number of faults,
and any preference of state resolution that decides between events of one key
(`RankAssumption`). A handler acts on what it read some steps ago while others
change the room, so the properties are not inductive. The invariant has two
parts. `RoomInv` adds to `StateIsRight` what a handler has in hand at each step
(`InHand`) and `KnowsState`: the state that was looked up for the oldest event
of a gap is right, or has a hole, or comes after one. It stays right while
others work because states do not change once they are kept. `TransactionInv`
adds to `AnsweredIsDone` that an origin waits for the request with its current
transaction, and that what a request still has to do is the end of its
transaction, with a result for all that came before (`Remains`). Each action is
first reduced to an `Effect`: the room gains events, at most one event gains its
state (`Stores`), and the handler goes on or is done with its event. Two lemmas
then show that any effect keeps the invariant. TLC checked both parts on the
states of the run before they were proved. `StateIsSettled` is an action
property from the same lemmas: a later transaction, a retry or a filled gap
never changes a state that is kept. That induction along the graph is possible
without an induction theorem is due to `AcyclicAssumption`: a set of
counterexamples has an oldest member.

Neither `OneTimer` nor `CounterBounded` is inductive. The invariant adds
ownership: from the CAS that sets `backoffStarted` to the store that unsets it,
one goroutine owns the backoff (first the caller, then the goroutine it starts),
and the owner finds the counter below the count that blacklists. The counter
reaches that count only on the path that leaves the flag set without an owner.
`StatisticsTypes` also needs that a power of two is a natural number, which the
provers do not know; it is the assumption `DurationAssumption`.

**RoomInputProofs**: `ProcessedOneAtATime`, `ProcessedInOrder`,
`ReturnsComplete`, `Typed`. The invariant follows a task: not yet sent, in its lane's
channel, held by its lane's worker, or answered. Along finished tasks, held task
and channel, the tasks of a request have increasing indices, so none is in two
places; a lane with a worker has `running` set, so the CAS never starts a second
one; and the wait group counts the tasks without a result.

**RoomEventsProofs**: `Types`, `Incomparable`, `ReceiverFollows`,
`TipsAreExtremities`, `MembershipAgrees`, for any event graph. The invariant adds
what each step of `processRoomEvent` may rely on (`Progress`). The main lemma,
`TransactionEffect`, says that the output entry describes the change from the
old state to a new snapshot. `MembershipsOfDelta` says that
`updateMemberships` turns the table of one snapshot into that of the other.
The last two theorems hold until the state is rewritten; the properties say so.

**SyncStreamsProofs**: `Typed`, `TokensAreKnown`, `ClientMissesNothing`,
`DeletedIsReceived`, `WakeUpsAreKept`. First come the lemmas about tokens, tables
and positions, then the invariants of the requests. The invariant has a chain of
positions (notifier, provider, newest row, where only the update that a consumer
is working on may be missing), no token ahead of its provider, and the promise
of each token: all of the device's updates up to it were received or are in the
response. `ClientMissesNothing` and `DeletedIsReceived` assume that reads of
room events do not fail, `WakeUpsAreKept` that there is no account data stream;
the code does not keep the promises otherwise, as described below.

**DeviceListsProofs**: `Typed`, `StaleListsAreAttended`, `WaitsAreAnswered`,
`StoredKeysAreAnnounced`. The invariant says who attends to a stale list: a call
that is about to poke, a message in the channel, a pass that has the user ahead
of it, the retries, the restarter, or `Start`. It also says where each channel
is known, so that the one that `assignChannel` gives out is either the one a pass
will close or one that it made itself.

**MembershipsProofs**: `TablesAgree`, `InvitesAnnounced`, `JoinsReleased`,
`RowsFollowState`, `TypeCorrect`, for any users, concurrent requests, events and
faults. The invariant adds that the rows of the resident server follow its
state (`Tables`) and what the calls and the request hold at each point (`Busy`).
The tables of the two servers change in one place, `UpdateMembership`: lemma
`UpdateMembershipFacts` says what it does to a row, and every action that touches
a table cites it. `ActiveInviteMeansInvited` is inductive only together with the
early returns: a row that says "leave" has no active invite, so that a second
leave may return without retiring one.

**AppServicesProofs**: `DeliveredInOrder`, `ConsumedNotLost`, `SentOnce`,
`TypeCorrect`, for any list of services, transaction IDs, batch size, events and
faults. The consumer adds rows while the worker is between two statements, and
the worker acts on what it read some steps ago, so ordered delivery is not
inductive. The invariant has two parts for each service. `Queued` is about the
tables: IDs increase along what was inserted, at most one transaction ID is in
the table and its rows come before those without one, and the rows whose
transaction the service has not taken are what was inserted after what it took.
`Knows` says what the worker may rely on at each step. For example, at "mark"
its batch is the next piece of what was inserted and no row has a transaction ID
yet, so `id <= maxID` selects exactly that batch whatever was inserted
meanwhile; at "remove" every row up to `maxID` has been taken. The lemmas of
the first half state what each statement does to one queue (`InsertKeepsQueued`,
`MarkKeepsKnows`, `TakeKeepsQueued`, `ReadSome`, ...); the second half applies
them to the steps of the specification. For the consumer, `PassedIsInserted` says
that what the loops have passed of the current message was inserted. TLC checked this invariant before it was
proved, on all states of one service with three events and batches of two.

### Model-checked only

Liveness under fairness is outside TLAPS's reach: `TimerEnds`,
`AppendedIsOffered`, `ServedLaneDrains`, `EventuallyReceived`,
`StaleIsRefreshed`, `NoOriginIsWedged`, `LeftoverIsSent`. Every invariant, every
action property and the refinement that the runs check are proved, but for
`FreshIsLatest`, which the code does not keep. Some are proved under the provisos
said above.

Induction over data is outside its reach too. Where a proof needs what a
recursive definition or a power computes, that fact is one of the assumptions
named above, and TLC evaluates it for the constants of the run: `StateAssumption`
and `DurationAssumption`. What `ScanEventTree` returns is not used beyond its
being a set of events.

The type invariants of the other modules are proved; where no run names one, TLC
does not check it as well.

## Where code and comments disagree

Run `device_lists_fresh` shows one disagreement:

- `keyserver/internal/device_list_update.go:424`: `updateDeviceList` stores the
  fetched list and marks it fresh without the lock of the user. An update that
  arrives after the fetch is undone. The comment at lines 57-58 says: "Once the
  list has been fetched, the per-user lock is acquired and the updater stores the
  latest list along with the latest stream ID."

Five more are stated as properties that the code does not keep. No
configuration here checks them; TLC refutes each with the module, specification
and constants given.

1. `BackoffFlagUnset` (`MCServerStatistics`, `FairStatisticsSpec`; one caller, threshold 2,
   two successes). The failure that blacklists leaves `backoffStarted` set, and
   `Success` does not unset it, so that later failures are not counted.
   `statistics.go:112-115`: "start a goroutine which will wait out the backoff
   and unset the backoffStarted flag when done".
2. `OneRequestInFlight` (`MCOutgoingQueues`, `Spec`; two PDUs, no EDUs, two
   queues, limits of 1, no retry, no crash, `PromptCallers`). `getQueue` makes a
   new queue on every call (`queue.go:157`, `!ok || oq != nil`).
   `destinationqueue.go:45-47`: a queue "ensures that only one request is in
   flight to a given destination at a time".
3. `EveryCallReturns` (`MCRoomInput`, `FairSpec`; two callers, two rooms,
   `Concurrent = FALSE`, capacity 1, one event, deadlock unchecked). A call that
   dispatches while the worker is between its idle timeout and
   `running.Store(false)` waits until another event arrives. `input.go:126-128`:
   "Each task that we dispatch will call Done on this wait group so that we know
   when all of our events have been processed."
4. `RejectedTakesNoExtremity` (`MCRoomEvents`, `Spec`; `MCLocal` inputs, `r`
   rejectable). References of rejected events are recorded (`storage.go:590`), so
   that the next accepted event gives up an extremity that only a rejected event
   follows. `input_events.go:181`: "We stop here if the event is rejected: We've
   stored it but won't update forward extremities or notify anyone about it."
5. `ReceiptsNotMissed` (`MCSyncStreams`, `Spec`; `EventsAndReceipts`, one request,
   no failing reads, two updates, one fault). The receipt position is
   initialised from the PDU stream (`streams.go:72`); receipts below it are not
   sent after a restart. `notifier.go:30-32` is about preventing races
   "resulting in missed events".

### Met while modelling

These behaviours of the code are in the models, where they are not said to be
left out. The properties are stated so that they hold next to them.

Federation sender

- `statistics.go:145`: the backoff goroutine may read the previous interval.
- `destinationqueue.go:262-264`: the worker waits for a notification with items
  left in memory. `destinationqueue.go:439-440` says that it will retry.
- `federationsender/internal/perform.go:53-63`: `Load` and `Store` of the running
  joins are two steps, so two joins of the same user can run.

Room server

- `latest_events_updater.go:112`: the RoomInfo cache keeps the new snapshot when
  the commit fails. The cache is left out of `RoomEvents`.
- `input_latest_events.go:305-312`: a referenced event with state empties the
  extremities. `output.go:135-138`: the deltas of the state before an event are
  empty on the shortcuts. `input_membership.go:104-117`: memberships stay as they
  were across a rewrite.
- `perform_invite.go:94-99`: the check that the user is not joined yet races a
  join. `perform_invite.go:205`: the entry for the log is written after the
  commit, so a crash in between loses the announcement (`unwritten`) and the
  entry can follow the one that retires the invite.
- `input_events.go:127`: the transaction ID is looked up and stored in separate
  transactions, and `InsertTransaction` is given a `txn` that it does not use. A
  retry that runs concurrently is answered with the ID of an event that is never
  stored (`transactions_table.go:37`: "Required to return event ID to client on a
  duplicate request."), and a retry after a failed store is answered with success
  although nothing was sent.

Memberships across servers

- The servers can disagree about a membership for good: a `send_join` that
  crosses a ban is answered with 200 although the join is soft-failed; a kick
  that arrives while the room is unknown is dropped; so is a leave that a quick
  rejoin overtakes. `ResidentRowsFollowState` is about the resident server only.
- An invite leaves the event of the membership row at 0, so a kick of an invited
  user is refused; a ban after a leave leaves the row as it was, so an unban is
  refused.

Sync API

- `notifier.go:127-135`: `OnNewAccountData` broadcasts the bare update, so the
  device's stream position falls back for the other streams and a request may
  sleep until its timer. `NoLostWakeUp` is stated for a server without that
  stream.
- `stream_pdu.go:150-168`: the incremental PDU sync returns `to` when a read
  fails. The model has this when `pdu` is in `FailingReads`.
- `stream_pdu.go:100-106`: an error for one room of a complete sync leaves the
  room out of the response.
- `stream_accountdata.go:37,63`: the complete sync reads its position after its
  data. This is why `Exact` leaves account data out.

Federation API

- `send.go:266`: `isProcessingErrorFatal` compares errors that have been wrapped,
  so it never matches and a failing database is reported per PDU; the comment at
  `send.go:255-257` expects the transaction to be retried.
- An event that is pushed while another transaction stores its prev event is
  dropped ("didn't return any prev_events"), and an event is answered for
  without an error although it was stored without its state. `AnsweredIsDone`
  allows for both.
- An event behind a gap is stored as an old event and never becomes a forward
  extremity.

Key server

- `keyserver/internal/internal.go:491`: a change of the display name stores a key
  that was read outside the transaction. `internal.go:503`: a crash between store
  and emit loses the announcement. Devices that a fetched list removes are not
  announced.
- `internal.go:548-556`: the `continue` of `uploadOneTimeKeys` belongs to the
  inner loop. `internal.go:274`: the map of a domain is reset for each of its
  users. Both are outside the model.

Logs and application services

- `internal/consumers.go:106-139`: handler errors are dropped while the offset
  advances; one goroutine per partition calls handlers that `clientapi.go:73-75`
  calls unsafe for that.
- `NotifyNewEvents` sets `EventsReady` on a copy, so a worker that is not waiting
  misses the wake-up: what it did not see, and a transaction that failed while
  the worker's own flag was unset, wait for the next broadcast. The comment at
  `transaction_scheduler.go:109-110` says "Keep sending until none are left".
  `LeftoverIsSent` is about the events that the flag does cover.
- A stop between the insert and the offset inserts an event twice. A worker that
  is woken when no rows are left sends an empty transaction with ID 0.

## Not modelled

- State resolution, auth rules and signatures (gomatrixserverlib), SQL, JSON,
  HTTP and configuration. What the models need of the first two is reduced to a
  fixed preference, as described above.
- `mediaapi`, `eduserver`, `userapi`, `signingkeyserver`, `setup`, `cmd`: I/O, or
  single operations on a table without a protocol between them. The two
  exceptions are the timers of the typing cache (`eduserver/cache/cache.go:140`)
  and the map of running downloads (`mediaapi/routing/download.go:580`).
- In modelled components: `ForServer` (`statistics.go:49`), the reference counts
  of the queue's JSON blobs, the RoomInfo cache, redactions (`storage.go:737`),
  backfill, peeking, aliases, server ACLs, creating rooms, registration and user
  interactive auth, one-time keys, typing, device list and peek streams,
  filters, room state in sync responses, and several partitions of one topic (an
  ID of the events table can then be skipped, since rows are removed by
  `id <= maxID`).

Most of the source is storage code in two dialects, request parsing, routing and
configuration. It has no state machine of its own, and the models see it as the
transactions and the answers it provides.
