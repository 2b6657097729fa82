---------------------------- MODULE DeviceLists ----------------------------
(***************************************************************************)
(* How one server follows the device lists of the users of another one.    *)
(*                                                                         *)
(* The remote server stores uploaded device keys under a stream ID per     *)
(* user, puts them on its key change topic, and its federation sender      *)
(* turns each into an m.device_list_update EDU.  This server either        *)
(* applies an update whose predecessor it has, or marks the list as stale  *)
(* and pokes the worker of that domain, which fetches the whole list.      *)
(* The worker works on the table without the per-user lock.                *)
(*                                                                         *)
(* Sources: keyserver/internal, keyserver/storage, keyserver/producers,    *)
(* federationsender/consumers/keychange.go, federationapi/routing.         *)
(***************************************************************************)
EXTENDS Integers, FiniteSets

CONSTANTS
    Users,       \* users of the remote server whose lists are followed
    Devices,     \* device IDs
    Keys,        \* non-empty KeyJSON values
    Uploads,     \* concurrent key uploads on the remote server
    Calls,       \* concurrent Update and ManualUpdate calls on this server
    Starter,     \* the goroutine that runs DeviceListUpdater.Start
    Capacity,    \* of workerChans (10 in the code)
    MaxStream,   \* bound: stream IDs the remote server assigns to a user
    MaxFaults    \* bound: failing operations and restarts of this server

ASSUME DeviceListsAssumption ==
    /\ Capacity \in Nat \ {0} /\ MaxStream \in Nat /\ MaxFaults \in Nat
    /\ Starter \notin Calls /\ "no user" \notin Users
    /\ Keys \cap {"deleted", "no row"} = {}

\* The KeyJSON of a deleted device, and the absence of a row.
Deleted == "deleted"
NoRow == [key |-> "no row", stream |-> 0]

VARIABLES
    remote,      \* keyserver_device_keys of the remote server
    upload,      \* its uploads in progress
    net,         \* update EDUs on their way
    rows,        \* keyserver_device_keys of this server
    stale,       \* keyserver_stale_device_lists
    announced,   \* what was put on this server's key change topic
    unannounced, \* history: users with a stored list whose announcement was lost
    call,        \* Update, ManualUpdate and Start calls in progress
    channel,     \* userIDToChan
    closed,      \* closed channels that somebody still waits on
    poked,       \* messages in the worker's channel
    worker,      \* processServer in progress
    retrying,    \* whether retries has the server
    restarter,   \* whether the restarter is about to send the server
    starting,    \* users that Start has yet to notify about
    faults

origin == <<remote, upload>>
updater == <<call, channel, closed, poked, worker, retrying, restarter, starting>>
tables == <<rows, stale, announced, unannounced>>
vars == <<origin, net, tables, updater, faults>>

Threads == Calls \cup {Starter}

\* A channel is named by a number that nobody uses at the time it is made.
ChannelIDs == 1 .. Cardinality(Users) + Cardinality(Threads)
NoChannel == 0

KeyValues == Keys \cup {Deleted}
Rows == [key : KeyValues, stream : 0..MaxStream] \cup {NoRow}
Updates == [user : Users, device : Devices, key : KeyValues, stream : 1..MaxStream]
NoUser == "no user"

\* Threads that are not running; local variables have no value then.
NoUpdate == [user |-> NoUser, device |-> NoUser, key |-> Deleted, stream |-> 0]
IdleCall == [pc |-> "idle", user |-> NoUser, ev |-> NoUpdate, channel |-> NoChannel]
NoResponse == [devices |-> {}, key |-> [d \in Devices |-> Deleted], stream |-> 0]
IdleWorker == [pc |-> "idle", users |-> {}, todo |-> {}, user |-> NoUser, resp |-> NoResponse,
               existing |-> NoResponse.key, failed |-> FALSE]
IdleUpload == [pc |-> "idle", user |-> NoUser, device |-> NoUser, stream |-> 0,
               existing |-> Deleted, key |-> Deleted]

-----------------------------------------------------------------------------
(* The table of device keys: one row per user and device.                  *)

MaxStreamID(list) ==
    LET streams == {list[d].stream : d \in {e \in Devices : list[e] # NoRow}}
    IN IF streams = {} THEN 0 ELSE CHOOSE m \in streams : \A s \in streams : s <= m

SelectMaxStreamIDForUser(u) == MaxStreamID(remote[u])

\* SELECT COUNT( * ): rows are counted, not stream IDs.
CountStreamIDsForUser(u, streams) ==
    Cardinality({d \in Devices : rows[u][d] # NoRow /\ rows[u][d].stream \in streams})

PrevIDsExists(u, prev) == CountStreamIDsForUser(u, prev) = Cardinality(prev)

\* Only rows with a key are selected.
SelectBatchDeviceKeys(list) == {d \in Devices : list[d].key \in Keys}

SelectDeviceKeysJSON(u) ==
    [d \in Devices |-> IF rows[u][d] = NoRow THEN Deleted ELSE rows[u][d].key]

\* The answer to /user/devices: the stream ID is the largest of the selected
\* rows, so that of a deletion is not among them.
QueryDeviceMessages(u) ==
    LET live == SelectBatchDeviceKeys(remote[u])
        kept == [d \in Devices |-> IF d \in live THEN remote[u][d] ELSE NoRow]
    IN [devices |-> live, key |-> [d \in Devices |-> kept[d].key], stream |-> MaxStreamID(kept)]

-----------------------------------------------------------------------------
(* The remote server.                                                      *)

\* uploadLocalDeviceKeys reads the existing key, outside the transaction
\* that stores the new one.  A display name update stores what it read.
UploadLocalDeviceKeys(p, u, d, k, onlyDisplayName) ==
    /\ upload[p].pc = "idle"
    /\ SelectMaxStreamIDForUser(u) < MaxStream
    /\ upload' = [upload EXCEPT ![p] =
         [pc |-> "store", user |-> u, device |-> d, stream |-> 0,
          existing |-> IF remote[u][d] = NoRow THEN Deleted ELSE remote[u][d].key,
          key |-> IF ~onlyDisplayName THEN k
                  ELSE IF remote[u][d] = NoRow THEN Deleted ELSE remote[u][d].key]]
    /\ UNCHANGED <<remote, net, tables, updater, faults>>

StoreLocalDeviceKeys(p) ==
    LET u == upload[p].user
        stream == SelectMaxStreamIDForUser(u) + 1
    IN /\ upload[p].pc = "store"
       /\ stream <= MaxStream
       /\ remote' = [remote EXCEPT ![u][upload[p].device] =
                        [key |-> upload[p].key, stream |-> stream]]
       /\ upload' = [upload EXCEPT ![p].pc = "emit", ![p].stream = stream]
       /\ UNCHANGED <<net, tables, updater, faults>>

\* A key that was there before is not announced; a deletion always is.
Unchanged(existing, key) == existing = key /\ key # Deleted

\* KeyChangeConsumer.onMessage: the EDU is queued for the servers in the
\* user's rooms.  The time it spends on the topic and in the queues is part
\* of the time it spends in net.
OnKeyChange(m) ==
    [user |-> m.user, device |-> m.device, key |-> m.key, stream |-> m.stream]

EmitDeviceKeyChanges(p) ==
    /\ upload[p].pc = "emit"
    /\ net' = IF Unchanged(upload[p].existing, upload[p].key) THEN net
              ELSE net \cup {OnKeyChange(upload[p])}
    /\ upload' = [upload EXCEPT ![p] = IdleUpload]
    /\ UNCHANGED <<remote, tables, updater, faults>>

\* The change is stored and never heard of: the topic or the room server
\* fails (both errors are logged only), or the remote server stops here.
EmitFails(p) ==
    /\ upload[p].pc = "emit" /\ faults < MaxFaults
    /\ upload' = [upload EXCEPT ![p] = IdleUpload]
    /\ faults' = faults + 1
    /\ UNCHANGED <<remote, net, tables, updater>>

PrevID(streamID) == IF streamID <= 1 THEN {} ELSE {streamID - 1}

-----------------------------------------------------------------------------
(* DeviceListUpdater: the calls.                                           *)

Holds(t, u) == call[t].user = u /\ call[t].pc \in {"checked", "unsequenced", "stored"}
Unlocked(u) == \A t \in Calls : ~Holds(t, u)

\* update, under the lock of the user: look for the previous stream ID.  When
\* the response to the transaction is lost the update comes again.
Update(t, ev) ==
    /\ call[t].pc = "idle" /\ ev \in net
    /\ Unlocked(ev.user)
    /\ \/ net' = net \ {ev} /\ UNCHANGED faults
       \/ faults < MaxFaults /\ faults' = faults + 1 /\ UNCHANGED net
    /\ LET prev == PrevID(ev.stream)
           exists == PrevIDsExists(ev.user, prev) /\ prev # {}
       IN call' = [call EXCEPT ![t] =
             [pc |-> IF exists THEN "checked" ELSE "unsequenced",
              user |-> ev.user, ev |-> ev, channel |-> NoChannel]]
    /\ UNCHANGED <<origin, tables, channel, closed, poked, worker, retrying,
                   restarter, starting>>

\* StoreRemoteDeviceKeys with the one key of the update.
StoreUpdate(t) ==
    LET ev == call[t].ev
    IN /\ call[t].pc = "checked"
       /\ rows' = [rows EXCEPT ![ev.user][ev.device] = [key |-> ev.key, stream |-> ev.stream]]
       /\ call' = [call EXCEPT ![t].pc = "stored"]
       /\ UNCHANGED <<origin, net, stale, announced, unannounced, channel, closed, poked,
                      worker, retrying, restarter, starting, faults>>

\* ProduceKeyChanges, and the lock is released.
ProduceUpdate(t) ==
    LET ev == call[t].ev
    IN /\ call[t].pc = "stored"
       /\ announced' = announced \cup {<<ev.user, ev.device, ev.key>>}
       /\ call' = [call EXCEPT ![t] = IdleCall]
       /\ UNCHANGED <<origin, net, rows, stale, unannounced, channel, closed, poked, worker,
                      retrying, restarter, starting, faults>>

\* MarkDeviceListStale, and the lock is released.
MarkStale(t) ==
    /\ call[t].pc = "unsequenced"
    /\ stale' = stale \cup {call[t].user}
    /\ call' = [call EXCEPT ![t].pc = "assign", ![t].ev = NoUpdate]
    /\ UNCHANGED <<origin, net, rows, announced, unannounced, channel, closed, poked, worker,
                   retrying, restarter, starting, faults>>

\* A database error ends the call; the update is dropped.
CallFails(t) ==
    /\ call[t].pc \in {"checked", "unsequenced", "stored"}
    /\ faults < MaxFaults /\ faults' = faults + 1
    /\ unannounced' = IF call[t].pc = "stored" THEN unannounced \cup {call[t].user}
                      ELSE unannounced
    /\ call' = [call EXCEPT ![t] = IdleCall]
    /\ UNCHANGED <<origin, net, rows, stale, announced, channel, closed, poked, worker,
                   retrying, restarter, starting>>

\* A local client asks for all keys of the user.
ManualUpdate(t, u) ==
    /\ call[t].pc = "idle" /\ Unlocked(u)
    /\ stale' = stale \cup {u}
    /\ call' = [call EXCEPT ![t].pc = "assign", ![t].user = u]
    /\ UNCHANGED <<origin, net, rows, announced, unannounced, channel, closed, poked, worker,
                   retrying, restarter, starting, faults>>

\* Start notifies about the lists it found stale, one after the other.
StartNext(u) ==
    /\ call[Starter].pc = "idle" /\ u \in starting
    /\ starting' = starting \ {u}
    /\ call' = [call EXCEPT ![Starter].pc = "assign", ![Starter].user = u]
    /\ UNCHANGED <<origin, net, tables, channel, closed, poked, worker, retrying, restarter, faults>>

\* Mutant: the channel that is there is not looked for.
NewChannelAlways(u) == TRUE

\* assignChannel makes a channel when the user has none.
NeedsChannel(u) == channel[u] = NoChannel

InUse(c) == (\E t \in Threads : call[t].channel = c) \/ (\E u \in Users : channel[u] = c)

\* notifyWorkers takes the channel of the user, or makes one.
AssignChannel(t) ==
    LET u == call[t].user
    IN /\ call[t].pc = "assign"
       /\ \/ /\ ~NeedsChannel(u)
             /\ call' = [call EXCEPT ![t].pc = "poke", ![t].channel = channel[u]]
             /\ UNCHANGED <<channel, closed>>
          \/ /\ NeedsChannel(u)
             /\ \E c \in ChannelIDs :
                  /\ ~InUse(c) /\ \A b \in 1..(c - 1) : InUse(b)
                  /\ call' = [call EXCEPT ![t].pc = "poke", ![t].channel = c]
                  /\ channel' = [channel EXCEPT ![u] = c]
                  /\ closed' = closed \ {c}
       /\ UNCHANGED <<origin, net, tables, poked, worker, retrying, restarter, starting, faults>>

\* The send blocks while the worker's channel is full.
Poke(t) ==
    /\ call[t].pc = "poke" /\ poked < Capacity
    /\ poked' = poked + 1
    /\ call' = [call EXCEPT ![t].pc = "wait"]
    /\ UNCHANGED <<origin, net, tables, channel, closed, worker, retrying, restarter, starting, faults>>

\* The channel was closed, or ten seconds have passed.
Return(t) ==
    /\ call[t].pc = "wait"
    /\ call' = [call EXCEPT ![t] = IdleCall]
    /\ closed' = {c \in closed : \E s \in Threads \ {t} : call[s].channel = c}
    /\ UNCHANGED <<origin, net, tables, channel, poked, worker, retrying, restarter,
                   starting, faults>>

-----------------------------------------------------------------------------
(* DeviceListUpdater: the worker of the domain.                            *)

\* processServer starts with a message from the channel.
TakePoke ==
    /\ worker.pc = "idle" /\ poked > 0
    /\ poked' = poked - 1
    /\ worker' = [worker EXCEPT !.pc = "load"]
    /\ UNCHANGED <<origin, net, tables, call, channel, closed, retrying, restarter, starting, faults>>

\* StaleDeviceLists of the server.  If it fails nothing is processed and no
\* channel is cleared, but the server is retried.
LoadStaleDeviceLists ==
    /\ worker.pc = "load"
    /\ \/ /\ worker' = [worker EXCEPT !.pc = "users", !.users = stale, !.todo = stale, !.failed = FALSE]
          /\ UNCHANGED <<retrying, faults>>
       \/ /\ faults < MaxFaults /\ faults' = faults + 1
          /\ worker' = IdleWorker /\ retrying' = TRUE
    /\ UNCHANGED <<origin, net, tables, call, channel, closed, poked, restarter, starting>>

\* The list as the remote server has it now; the lock is not taken.
GetUserDevices(u) ==
    /\ worker.pc = "users" /\ u \in worker.todo
    /\ worker' = [worker EXCEPT !.pc = "existing", !.user = u, !.resp = QueryDeviceMessages(u)]
    /\ UNCHANGED <<origin, net, tables, call, channel, closed, poked, retrying, restarter, starting, faults>>

\* Mutant: a failing request does not count.
WithoutFailure(u) == [worker EXCEPT !.todo = @ \ {u}]

WithFailure(u) == [worker EXCEPT !.todo = @ \ {u}, !.failed = TRUE]

\* The request fails, and the next user is tried.
GetUserDevicesFails(u) ==
    /\ worker.pc = "users" /\ u \in worker.todo
    /\ faults < MaxFaults /\ faults' = faults + 1
    /\ worker' = WithFailure(u)
    /\ UNCHANGED <<origin, net, tables, call, channel, closed, poked, retrying, restarter, starting>>

\* The thirty seconds of the pass are over.
PassTimesOut ==
    /\ worker.pc = "users" /\ worker.todo # {}
    /\ faults < MaxFaults /\ faults' = faults + 1
    /\ worker' = [worker EXCEPT !.todo = {}, !.failed = TRUE]
    /\ UNCHANGED <<origin, net, tables, call, channel, closed, poked, retrying, restarter, starting>>

\* updateDeviceList: DeviceKeysJSON of the fetched devices; on an error the
\* devices count as new.
ReadExistingKeys ==
    /\ worker.pc = "existing"
    /\ \/ /\ worker' = [worker EXCEPT !.pc = "store", !.existing = SelectDeviceKeysJSON(worker.user)]
          /\ UNCHANGED faults
       \/ /\ faults < MaxFaults /\ faults' = faults + 1
          /\ worker' = [worker EXCEPT !.pc = "store", !.existing = NoResponse.key]
    /\ UNCHANGED <<origin, net, tables, call, channel, closed, poked, retrying, restarter, starting>>

FetchedRows(resp) ==
    [d \in Devices |-> IF d \in resp.devices THEN [key |-> resp.key[d], stream |-> resp.stream]
                       ELSE NoRow]

\* StoreRemoteDeviceKeys, clearing the user's rows first.
StoreFetchedList ==
    /\ worker.pc = "store"
    /\ rows' = [rows EXCEPT ![worker.user] = FetchedRows(worker.resp)]
    /\ worker' = [worker EXCEPT !.pc = "mark"]
    /\ UNCHANGED <<origin, net, stale, announced, unannounced, call, channel, closed, poked,
                   retrying, restarter, starting, faults>>

MarkFresh ==
    /\ worker.pc = "mark"
    /\ stale' = stale \ {worker.user}
    /\ worker' = [worker EXCEPT !.pc = "emit"]
    /\ UNCHANGED <<origin, net, rows, announced, unannounced, call, channel, closed, poked,
                   retrying, restarter, starting, faults>>

\* Mutant: the existing keys are read after the new ones were stored.
KeysAddedAfterStore ==
    {<<worker.user, d, worker.resp.key[d]>> :
        d \in {e \in worker.resp.devices : ~Unchanged(rows[worker.user][e].key, worker.resp.key[e])}}

\* What emitDeviceKeyChanges produces; devices that are gone are not among it.
KeysAdded ==
    {<<worker.user, d, worker.resp.key[d]>> :
        d \in {e \in worker.resp.devices : ~Unchanged(worker.existing[e], worker.resp.key[e])}}

\* The loop goes on with the next user, after a failure too.
NextUser(failed) ==
    [worker EXCEPT !.pc = "users", !.todo = @ \ {worker.user}, !.failed = @ \/ failed,
                   !.user = NoUser, !.resp = NoResponse, !.existing = NoResponse.key]

EmitFetchedList ==
    /\ worker.pc = "emit"
    /\ announced' = announced \cup KeysAdded
    /\ worker' = NextUser(FALSE)
    /\ UNCHANGED <<origin, net, rows, stale, unannounced, call, channel, closed, poked,
                   retrying, restarter, starting, faults>>

\* An error of one of these steps skips the steps after it.
UpdateDeviceListFails ==
    /\ worker.pc \in {"store", "mark", "emit"}
    /\ faults < MaxFaults /\ faults' = faults + 1
    /\ unannounced' = IF worker.pc = "store" THEN unannounced ELSE unannounced \cup {worker.user}
    /\ worker' = NextUser(TRUE)
    /\ UNCHANGED <<origin, net, rows, stale, announced, call, channel, closed, poked,
                   retrying, restarter, starting>>

\* clearChannel for every user of the pass; then the worker notes when to
\* retry, unless there is a note already.
EndPass ==
    /\ worker.pc = "users" /\ worker.todo = {}
    /\ closed' = closed \cup {c \in ChannelIDs : /\ \E u \in worker.users : channel[u] = c
                                                /\ \E t \in Threads : call[t].channel = c}
    /\ channel' = [u \in Users |-> IF u \in worker.users THEN NoChannel ELSE channel[u]]
    /\ retrying' = (retrying \/ worker.failed)
    /\ worker' = IdleWorker
    /\ UNCHANGED <<origin, net, tables, call, poked, restarter, starting, faults>>

\* Mutant: the server is removed from retries and not sent.
RestarterForgets ==
    /\ retrying /\ ~restarter
    /\ retrying' = FALSE
    /\ UNCHANGED <<origin, net, tables, call, channel, closed, poked, worker, restarter, starting, faults>>

\* The restarter goroutine takes the servers that are due, and sends them.
RestarterTake ==
    /\ retrying /\ ~restarter
    /\ retrying' = FALSE /\ restarter' = TRUE
    /\ UNCHANGED <<origin, net, tables, call, channel, closed, poked, worker, starting, faults>>

RestarterSend ==
    /\ restarter /\ poked < Capacity
    /\ restarter' = FALSE /\ poked' = poked + 1
    /\ UNCHANGED <<origin, net, tables, call, channel, closed, worker, retrying, starting, faults>>

-----------------------------------------------------------------------------

\* This server restarts: what is in memory is gone, and Start finds the
\* stale lists.
Restart ==
    /\ faults < MaxFaults /\ faults' = faults + 1
    /\ call' = [t \in Threads |-> IdleCall]
    /\ channel' = [u \in Users |-> NoChannel] /\ closed' = {}
    /\ poked' = 0 /\ worker' = IdleWorker
    /\ retrying' = FALSE /\ restarter' = FALSE
    /\ starting' = stale
    /\ unannounced' = unannounced
         \cup {call[t].user : t \in {s \in Calls : call[s].pc = "stored"}}
         \cup (IF worker.pc \in {"mark", "emit"} THEN {worker.user} ELSE {})
    /\ UNCHANGED <<origin, net, rows, stale, announced>>

Init ==
    /\ remote = [u \in Users |-> [d \in Devices |-> NoRow]]
    /\ net = {}
    /\ upload = [p \in Uploads |-> IdleUpload]
    /\ rows = [u \in Users |-> [d \in Devices |-> NoRow]]
    /\ stale = {} /\ announced = {} /\ unannounced = {}
    /\ call = [t \in Threads |-> IdleCall]
    /\ channel = [u \in Users |-> NoChannel] /\ closed = {}
    /\ poked = 0 /\ worker = IdleWorker
    /\ retrying = FALSE /\ restarter = FALSE /\ starting = {}
    /\ faults = 0

RemoteStep ==
    \E p \in Uploads :
         \/ \E u \in Users, d \in Devices, k \in Keys \cup {Deleted}, n \in BOOLEAN :
              UploadLocalDeviceKeys(p, u, d, k, n)
         \/ StoreLocalDeviceKeys(p) \/ EmitDeviceKeyChanges(p) \/ EmitFails(p)

CallStep(t) ==
    \/ StoreUpdate(t) \/ ProduceUpdate(t) \/ MarkStale(t) \/ CallFails(t)
    \/ AssignChannel(t) \/ Poke(t) \/ Return(t)

WorkerStep ==
    \/ TakePoke \/ LoadStaleDeviceLists
    \/ \E u \in Users : GetUserDevices(u) \/ GetUserDevicesFails(u)
    \/ PassTimesOut \/ ReadExistingKeys \/ StoreFetchedList \/ MarkFresh
    \/ EmitFetchedList \/ UpdateDeviceListFails \/ EndPass

Next ==
    \/ RemoteStep
    \/ \E t \in Calls : \/ \E ev \in net : Update(t, ev)
                        \/ \E u \in Users : ManualUpdate(t, u)
    \/ \E t \in Threads : CallStep(t)
    \/ \E u \in Users : StartNext(u)
    \/ WorkerStep \/ RestarterTake \/ RestarterSend
    \/ Restart

Spec == Init /\ [][Next]_vars

\* The goroutines of this server make progress.
Fairness ==
    /\ WF_vars(WorkerStep) /\ WF_vars(RestarterTake) /\ WF_vars(RestarterSend)
    /\ WF_vars(\E u \in Users : StartNext(u))
    /\ \A t \in Threads : WF_vars(CallStep(t))

FairSpec == Spec /\ Fairness

-----------------------------------------------------------------------------

UploadRecords ==
    [pc : {"store", "emit"}, user : Users, device : Devices, stream : 0..MaxStream,
     existing : KeyValues, key : KeyValues] \cup {IdleUpload}

CallRecords ==
    [pc : {"checked", "stored", "unsequenced"}, user : Users, ev : Updates, channel : {NoChannel}]
    \cup [pc : {"assign"}, user : Users, ev : {NoUpdate}, channel : {NoChannel}]
    \cup [pc : {"poke", "wait"}, user : Users, ev : {NoUpdate}, channel : ChannelIDs]
    \cup {IdleCall}

Responses == [devices : SUBSET Devices, key : [Devices -> KeyValues \cup {"no row"}], stream : 0..MaxStream]

WorkerRecords ==
    [pc : {"idle", "load", "users", "existing", "store", "mark", "emit"},
     users : SUBSET Users, todo : SUBSET Users, user : Users \cup {NoUser},
     resp : Responses, existing : [Devices -> KeyValues], failed : BOOLEAN]

TypeOK ==
    /\ remote \in [Users -> [Devices -> Rows]]
    /\ upload \in [Uploads -> UploadRecords]
    /\ \A p \in Uploads : upload[p].pc = "emit" => upload[p].stream > 0
    /\ net \subseteq Updates
    /\ rows \in [Users -> [Devices -> Rows]]
    /\ stale \subseteq Users /\ unannounced \subseteq Users /\ starting \subseteq Users
    /\ announced \subseteq Users \X Devices \X KeyValues
    /\ call \in [Threads -> CallRecords]
    /\ \A t \in Threads : call[t].pc \in {"checked", "stored", "unsequenced"} =>
                              t \in Calls /\ call[t].ev.user = call[t].user
    /\ channel \in [Users -> ChannelIDs \cup {NoChannel}] /\ closed \subseteq ChannelIDs
    /\ poked \in 0..Capacity
    /\ worker \in WorkerRecords
    /\ worker.pc \in {"existing", "store", "mark", "emit"} => worker.user \in Users
    /\ \A d \in worker.resp.devices : worker.resp.key[d] \in Keys
    /\ retrying \in BOOLEAN /\ restarter \in BOOLEAN
    /\ faults \in 0..MaxFaults

\* A list that is marked as stale is always on somebody's agenda: a call that
\* will poke the worker, a message in its channel, the pass that is running,
\* a retry, or Start.  Otherwise it would stay stale until the next update.
StaleIsAttended ==
    \A u \in stale :
        \/ \E t \in Threads : call[t].user = u /\ call[t].pc \in {"assign", "poke"}
        \/ poked > 0 \/ retrying \/ restarter \/ u \in starting
        \/ worker.pc = "load"
        \/ worker.pc # "idle" /\ (worker.failed \/ u \in worker.todo)

\* A call that waits for its user's pass waits on the channel that the next
\* pass closes, or on one that is closed already.
WaitsOnLiveChannel ==
    \A t \in Threads :
        call[t].pc \in {"poke", "wait"} =>
            \/ call[t].channel = channel[call[t].user]
            \/ call[t].channel \in closed

\* Somebody is about to announce this key.
ToBeAnnounced(u, d, k) ==
    \/ \E t \in Calls : /\ call[t].pc = "stored"
                        /\ call[t].ev.user = u /\ call[t].ev.device = d /\ call[t].ev.key = k
    \/ worker.pc \in {"mark", "emit"} /\ <<u, d, k>> \in KeysAdded

\* Local clients are told of every key this server hands out for a remote
\* device, although updates and the worker store and announce without a
\* common lock; unless an error or a restart came between the two.
KeysAreAnnounced ==
    \A u \in Users \ unannounced, d \in Devices :
        rows[u][d].key \in Keys =>
            <<u, d, rows[u][d].key>> \in announced \/ ToBeAnnounced(u, d, rows[u][d].key)

\* Every stale list is fetched again in the end.
StaleIsRefreshed == \A u \in Users : u \in stale ~> u \notin stale

\* All is quiet, nothing failed, and everything the remote server had to say
\* was handled.
Quiet ==
    /\ faults = 0 /\ net = {}
    /\ \A p \in Uploads : upload[p].pc = "idle"
    /\ \A t \in Threads : call[t].pc = "idle"
    /\ worker.pc = "idle" /\ poked = 0

\* A list that is not stale is the list the remote server has.
FreshIsLatest ==
    Quiet => \A u \in Users \ stale, d \in Devices :
                /\ rows[u][d].key \in Keys <=> remote[u][d].key \in Keys
                /\ rows[u][d].key \in Keys => rows[u][d].key = remote[u][d].key
=============================================================================
