------------------------- MODULE DeviceListsProofs -------------------------
(***************************************************************************)
(* Proofs about the device list updater, for any users, devices, keys,     *)
(* uploads, concurrent calls, channel capacity, and number of failures and *)
(* restarts.                                                               *)
(***************************************************************************)
EXTENDS DeviceLists, WellFoundedInduction, TLAPS

\* A nonempty set of naturals below a bound has a greatest element.
LEMMA GreatestStream ==
    ASSUME NEW n \in Nat, NEW S \in SUBSET (0..n), S # {}
    PROVE  \E m \in S : \A s \in S : s <= m
<1> DEFINE Above == {n - s : s \in S}
           Less == OpToRel(<, Nat)
<1>1. Above \in SUBSET Nat /\ Above # {}
  <2>1. PICK s \in S : TRUE
    BY ZenonT(30)
  <2>2. n - s \in Above
    BY <2>1
  <2> QED BY <2>2
<1>2. PICK a \in Above : \A b \in Above : ~(<<b, a>> \in Less)
  <2>1. IsWellFoundedOn(Less, Nat)
    BY ZenonT(30), NatLessThanWellFounded
  <2> HIDE DEF Above, Less
  <2> QED BY ZenonT(30), <1>1, <2>1, WFMin
<1>3. \A b \in Above : ~(b < a)
  <2>1. \A b \in Above : <<b, a>> \in Less <=> b < a
    BY <1>1 DEF OpToRel
  <2> HIDE DEF Less
  <2> QED BY <1>2, <2>1, ZenonT(30)
<1>4. PICK m \in S : a = n - m
  BY ZenonT(30), <1>2
<1>5. \A s \in S : ~(n - s < n - m)
  BY ZenonT(30), <1>3, <1>4
<1> QED
  BY <1>5

\* The bounds are numbers.
LEMMA Bounds ==
    /\ MaxStream \in Nat /\ MaxFaults \in Nat /\ Capacity \in Nat /\ Capacity > 0
    /\ 0 \in 0..MaxStream /\ 0 \in 0..MaxFaults /\ 0 \in 0..Capacity
<1>1. MaxStream \in Nat /\ MaxFaults \in Nat /\ Capacity \in Nat \ {0}
  BY ZenonT(30), DeviceListsAssumption
<1> QED
  BY <1>1

\* The columns of a row.
LEMMA RowFacts ==
    ASSUME NEW r \in Rows
    PROVE  r.key \in KeyValues \cup {"no row"} /\ r.stream \in 0..MaxStream
<1>1. CASE r \in [key : KeyValues, stream : 0..MaxStream]
  BY ZenonT(30), <1>1
<1>2. CASE r = NoRow
  <2>1. 0 \in 0..MaxStream
    BY Bounds
  <2>2. NoRow.key = "no row" /\ NoRow.stream = 0
    BY DEF NoRow
  <2> QED BY <1>2, <2>1, <2>2, ZenonT(30)
<1> QED
  BY ZenonT(30), <1>1, <1>2 DEF Rows

\* The stream ID of a list is one that its rows can have.
LEMMA MaxStreamIDType ==
    ASSUME NEW list \in [Devices -> Rows]
    PROVE  /\ MaxStreamID(list) \in 0..MaxStream
           /\ SelectBatchDeviceKeys(list) \in SUBSET Devices
<1> DEFINE streams == {list[d].stream : d \in {e \in Devices : list[e] # NoRow}}
<1>1. streams \in SUBSET (0..MaxStream)
  <2>1. \A d \in Devices : list[d].stream \in 0..MaxStream
    BY ZenonT(30), RowFacts
  <2> QED BY <2>1, ZenonT(30)
<1>2. CASE streams = {}
  <2>1. 0 \in 0..MaxStream
    BY Bounds
  <2>2. MaxStreamID(list) = 0
    BY ZenonT(30), <1>2 DEF MaxStreamID
  <2> QED BY ZenonT(30), <2>1, <2>2 DEF SelectBatchDeviceKeys
<1>3. CASE streams # {}
  <2>1. \E m \in streams : \A s \in streams : s <= m
    <3> HIDE DEF streams
    <3> QED BY <1>1, <1>3, GreatestStream, Bounds, ZenonT(30)
  <2>2. MaxStreamID(list) = CHOOSE m \in streams : \A s \in streams : s <= m
    BY ZenonT(30), <1>3 DEF MaxStreamID
  <2>3. MaxStreamID(list) \in streams
    <3> HIDE DEF streams
    <3> QED BY ZenonT(30), <2>1, <2>2
  <2> QED BY ZenonT(30), <1>1, <2>3 DEF SelectBatchDeviceKeys
<1>4. SelectBatchDeviceKeys(list) \in SUBSET Devices
  BY ZenonT(30) DEF SelectBatchDeviceKeys
<1> QED
  BY <1>2, <1>3, <1>4, ZenonT(30)

\* What /user/devices answers.
LEMMA ResponseType ==
    ASSUME NEW u \in Users, remote \in [Users -> [Devices -> Rows]]
    PROVE  /\ QueryDeviceMessages(u) \in Responses
           /\ \A d \in QueryDeviceMessages(u).devices : QueryDeviceMessages(u).key[d] \in Keys
<1> DEFINE live == SelectBatchDeviceKeys(remote[u])
           kept == [d \in Devices |-> IF d \in live THEN remote[u][d] ELSE NoRow]
<1>1. live \in SUBSET Devices /\ kept \in [Devices -> Rows]
  BY MaxStreamIDType DEF Rows
<1>2. MaxStreamID(kept) \in 0..MaxStream
  <2> HIDE DEF kept
  <2> QED BY <1>1, MaxStreamIDType
<1>3. [d \in Devices |-> kept[d].key] \in [Devices -> KeyValues \cup {"no row"}]
  <2>1. \A d \in Devices : kept[d].key \in KeyValues \cup {"no row"}
    <3> HIDE DEF kept
    <3> QED BY ZenonT(30), <1>1, RowFacts
  <2> QED BY ZenonT(30), <2>1
<1>4. \A d \in live : kept[d].key \in Keys
  BY <1>1 DEF SelectBatchDeviceKeys
<1>5. QueryDeviceMessages(u) = [devices |-> live, key |-> [d \in Devices |-> kept[d].key], stream |-> MaxStreamID(kept)]
  BY ZenonT(30) DEF QueryDeviceMessages
<1>6. live \subseteq Devices
  BY <1>1
<1> HIDE DEF live, kept
<1>7. QueryDeviceMessages(u) \in Responses
  <2>1. ASSUME NEW D \in SUBSET Devices, NEW K \in [Devices -> KeyValues \cup {"no row"}],
               NEW s \in 0..MaxStream
        PROVE  [devices |-> D, key |-> K, stream |-> s] \in Responses
    BY ZenonT(30) DEF Responses
  <2> QED BY <1>2, <1>3, <1>5, <1>6, <2>1, ZenonT(30)
<1>8. \A d \in live : QueryDeviceMessages(u).key[d] \in Keys
  BY <1>4, <1>5, <1>6
<1> QED
  BY <1>5, <1>7, <1>8

-----------------------------------------------------------------------------
(* Types.  The state falls into three parts.                               *)

TablesType ==
    /\ remote \in [Users -> [Devices -> Rows]]
    /\ upload \in [Uploads -> UploadRecords]
    /\ \A p \in Uploads : upload[p].pc = "emit" => upload[p].stream > 0
    /\ net \subseteq Updates
    /\ rows \in [Users -> [Devices -> Rows]]
    /\ stale \subseteq Users /\ unannounced \subseteq Users
    /\ announced \subseteq Users \X Devices \X KeyValues
    /\ faults \in 0..MaxFaults

CallsType ==
    /\ call \in [Threads -> CallRecords]
    /\ \A t \in Threads : call[t].pc \in {"checked", "stored", "unsequenced"} =>
                              t \in Calls /\ call[t].ev.user = call[t].user
    /\ channel \in [Users -> ChannelIDs \cup {NoChannel}] /\ closed \subseteq ChannelIDs
    /\ poked \in 0..Capacity
    /\ starting \subseteq Users
    /\ retrying \in BOOLEAN /\ restarter \in BOOLEAN

WorkerType ==
    /\ worker \in WorkerRecords
    /\ worker.pc \in {"existing", "store", "mark", "emit"} => worker.user \in Users
    /\ \A d \in worker.resp.devices : worker.resp.key[d] \in Keys

\* The three parts are TypeOK.
LEMMA TypeParts == TypeOK <=> TablesType /\ CallsType /\ WorkerType
BY ZenonT(30) DEF TypeOK, TablesType, CallsType, WorkerType

\* Calls by the place they are at.
LockedCalls == [pc : {"checked", "stored", "unsequenced"}, user : Users, ev : Updates, channel : {NoChannel}]
AssigningCalls == [pc : {"assign"}, user : Users, ev : {NoUpdate}, channel : {NoChannel}]
WaitingCalls == [pc : {"poke", "wait"}, user : Users, ev : {NoUpdate}, channel : ChannelIDs]

\* What a call has, by the place it is at.
LEMMA CallFacts ==
    ASSUME NEW c \in CallRecords
    PROVE  /\ c.pc \in {"checked", "stored", "unsequenced"} =>
                /\ c \in LockedCalls
                /\ c.user \in Users /\ c.ev \in Updates /\ c.channel = NoChannel
           /\ c.pc = "assign" => /\ c \in AssigningCalls
                                 /\ c.user \in Users /\ c.ev = NoUpdate /\ c.channel = NoChannel
           /\ c.pc \in {"poke", "wait"} =>
                /\ c \in WaitingCalls
                /\ c.user \in Users /\ c.ev = NoUpdate /\ c.channel \in ChannelIDs
           /\ c.pc = "idle" => c = IdleCall
           /\ c.pc \in {"checked", "stored", "unsequenced", "assign", "poke", "wait", "idle"}
<1>1. CASE c \in LockedCalls
  BY <1>1 DEF LockedCalls
<1>2. CASE c \in AssigningCalls
  BY <1>2 DEF AssigningCalls
<1>3. CASE c \in WaitingCalls
  BY <1>3 DEF WaitingCalls
<1>4. CASE c = IdleCall
  BY <1>4 DEF IdleCall
<1> QED
  BY <1>1, <1>2, <1>3, <1>4, ZenonT(30) DEF CallRecords, LockedCalls, AssigningCalls, WaitingCalls

\* Every step is one of these.
LEMMA NextCases ==
    ASSUME [Next]_vars
    PROVE  \/ \E p \in Uploads, u \in Users, d \in Devices, k \in Keys \cup {Deleted}, n \in BOOLEAN :
                UploadLocalDeviceKeys(p, u, d, k, n)
           \/ \E p \in Uploads : StoreLocalDeviceKeys(p) \/ EmitDeviceKeyChanges(p) \/ EmitFails(p)
           \/ \E t \in Calls : (\E ev \in net : Update(t, ev)) \/ (\E u \in Users : ManualUpdate(t, u))
           \/ \E t \in Threads : \/ StoreUpdate(t) \/ ProduceUpdate(t) \/ MarkStale(t) \/ CallFails(t)
                                \/ AssignChannel(t) \/ Poke(t) \/ Return(t)
           \/ \E u \in Users : StartNext(u)
           \/ TakePoke \/ LoadStaleDeviceLists
           \/ \E u \in Users : GetUserDevices(u) \/ GetUserDevicesFails(u)
           \/ PassTimesOut \/ ReadExistingKeys \/ StoreFetchedList \/ MarkFresh
           \/ EmitFetchedList \/ UpdateDeviceListFails \/ EndPass
           \/ RestarterTake \/ RestarterSend \/ Restart
           \/ UNCHANGED vars
BY ZenonT(30) DEF Next, RemoteStep, CallStep, WorkerStep

\* The tables keep their types.
LEMMA TablesStep ==
    ASSUME TypeOK, [Next]_vars
    PROVE  TablesType'
<1> USE Bounds
<1>0. TablesType /\ CallsType /\ WorkerType
  BY TypeParts
<1>1. ASSUME NEW p \in Uploads, NEW u \in Users, NEW d \in Devices, NEW k \in KeyValues,
             NEW n \in BOOLEAN, UploadLocalDeviceKeys(p, u, d, k, n)
      PROVE  TablesType'
  <2>1. remote[u][d] = NoRow \/ remote[u][d].key \in KeyValues
    BY <1>0 DEF TablesType, Rows
  <2>2. upload'[p] \in UploadRecords /\ upload'[p].pc = "store"
    BY <1>0, <1>1, <2>1 DEF TablesType, UploadLocalDeviceKeys, UploadRecords, KeyValues
  <2> QED BY <1>0, <1>1, <2>2, ZenonT(30) DEF TablesType, UploadLocalDeviceKeys, tables
<1>2. ASSUME NEW p \in Uploads, StoreLocalDeviceKeys(p)
      PROVE  TablesType'
  <2> DEFINE u == upload[p].user
             stream == SelectMaxStreamIDForUser(u) + 1
  <2>1. /\ u \in Users /\ upload[p].device \in Devices /\ upload[p].key \in KeyValues
        /\ upload[p] \in [pc : {"store", "emit"}, user : Users, device : Devices, stream : 0..MaxStream,
                           existing : KeyValues, key : KeyValues]
    BY <1>0, <1>2 DEF TablesType, StoreLocalDeviceKeys, UploadRecords, IdleUpload
  <2>2. stream \in 1..MaxStream
    BY <1>0, <1>2, <2>1, MaxStreamIDType DEF TablesType, StoreLocalDeviceKeys, SelectMaxStreamIDForUser
  <2> HIDE DEF u, stream
  <2>3. [key |-> upload[p].key, stream |-> stream] \in Rows
    BY <2>1, <2>2 DEF Rows
  <2>4. remote' \in [Users -> [Devices -> Rows]]
    BY <1>0, <1>2, <2>1, <2>3 DEF TablesType, StoreLocalDeviceKeys, u, stream
  <2>5. upload' = [upload EXCEPT ![p].pc = "emit", ![p].stream = stream]
    BY <1>2, ZenonT(30) DEF StoreLocalDeviceKeys, u, stream
  <2>6. upload'[p] = [upload[p] EXCEPT !.pc = "emit", !.stream = stream]
    BY <1>0, <2>5 DEF TablesType
  <2>7. upload'[p] \in UploadRecords /\ upload'[p].stream > 0
    <3>1. ASSUME NEW S, NEW n \in S,
                 NEW r \in [pc : {"store", "emit"}, user : Users, device : Devices, stream : S,
                            existing : KeyValues, key : KeyValues]
          PROVE  /\ [r EXCEPT !.pc = "emit", !.stream = n]
                       \in [pc : {"store", "emit"}, user : Users, device : Devices, stream : S,
                           existing : KeyValues, key : KeyValues]
                 /\ [r EXCEPT !.pc = "emit", !.stream = n].stream = n
      BY ZenonT(30)
    <3>2. stream \in 0..MaxStream /\ stream > 0
      BY <2>2
    <3>3. /\ upload'[p] \in [pc : {"store", "emit"}, user : Users, device : Devices, stream : 0..MaxStream,
                             existing : KeyValues, key : KeyValues]
          /\ upload'[p].stream = stream
      BY <2>1, <2>6, <3>1, <3>2, ZenonT(30)
    <3> QED BY <3>2, <3>3, ZenonT(30) DEF UploadRecords
  <2>8. upload' \in [Uploads -> UploadRecords] /\ \A q \in Uploads : q # p => upload'[q] = upload[q]
    BY <1>0, <2>5, <2>7 DEF TablesType
  <2> QED BY <1>0, <1>2, <2>4, <2>7, <2>8, ZenonT(30) DEF TablesType, StoreLocalDeviceKeys, tables
<1>3. ASSUME NEW p \in Uploads, EmitDeviceKeyChanges(p) \/ EmitFails(p)
      PROVE  TablesType'
  <2>1. upload[p].pc = "emit" => OnKeyChange(upload[p]) \in Updates
    BY <1>0 DEF TablesType, UploadRecords, IdleUpload, OnKeyChange, Updates
  <2>2. IdleUpload \in UploadRecords /\ IdleUpload.pc = "idle"
    BY DEF UploadRecords, IdleUpload
  <2>3. upload' = [upload EXCEPT ![p] = IdleUpload] /\ UNCHANGED <<remote, tables>>
    BY <1>3, ZenonT(30) DEF EmitDeviceKeyChanges, EmitFails
  <2>4. upload' \in [Uploads -> UploadRecords]
          /\ \A q \in Uploads : upload'[q].pc = "emit" => upload'[q].stream > 0
    BY <1>0, <2>2, <2>3 DEF TablesType
  <2>5. net' \subseteq Updates
    BY <1>0, <1>3, <2>1 DEF TablesType, EmitDeviceKeyChanges, EmitFails
  <2>6. faults' \in 0..MaxFaults
    BY <1>0, <1>3 DEF TablesType, EmitDeviceKeyChanges, EmitFails
  <2> QED BY <1>0, <2>3, <2>4, <2>5, <2>6, ZenonT(30) DEF TablesType, tables
<1>4. ASSUME NEW t \in Calls, NEW ev \in net, Update(t, ev)
      PROVE  TablesType'
  BY <1>0, <1>4 DEF TablesType, Update, origin, tables
<1>5. ASSUME NEW t \in Calls, NEW u \in Users, ManualUpdate(t, u)
      PROVE  TablesType'
  BY <1>0, <1>5, ZenonT(30) DEF TablesType, ManualUpdate, origin
<1>6. ASSUME NEW t \in Threads, StoreUpdate(t)
      PROVE  TablesType'
  <2>1. call[t].ev \in Updates
    BY <1>0, <1>6, CallFacts DEF CallsType, StoreUpdate
  <2>2. /\ call[t].ev.user \in Users /\ call[t].ev.device \in Devices
        /\ [key |-> call[t].ev.key, stream |-> call[t].ev.stream] \in Rows
    BY SMTT(30), <2>1 DEF Updates, Rows
  <2>3. rows' \in [Users -> [Devices -> Rows]]
    BY <1>0, <1>6, <2>2 DEF TablesType, StoreUpdate
  <2> QED BY <1>0, <1>6, <2>3, ZenonT(30) DEF TablesType, StoreUpdate, origin
<1>7. ASSUME NEW t \in Threads, ProduceUpdate(t)
      PROVE  TablesType'
  <2>1. call[t].ev \in Updates
    BY <1>0, <1>7, CallFacts DEF CallsType, ProduceUpdate
  <2>2. <<call[t].ev.user, call[t].ev.device, call[t].ev.key>> \in Users \X Devices \X KeyValues
    BY <2>1 DEF Updates
  <2>3. announced' \subseteq Users \X Devices \X KeyValues
    BY <1>0, <1>7, <2>2, ZenonT(30) DEF TablesType, ProduceUpdate
  <2> QED BY <1>0, <1>7, <2>3, ZenonT(30) DEF TablesType, ProduceUpdate, origin
<1>8. ASSUME NEW t \in Threads, MarkStale(t) \/ CallFails(t)
      PROVE  TablesType'
  <2>1. call[t].user \in Users
    BY <1>0, <1>8, CallFacts DEF CallsType, MarkStale, CallFails
  <2>2. faults' \in 0..MaxFaults
    BY <1>0, <1>8 DEF TablesType, MarkStale, CallFails
  <2> QED BY <1>0, <1>8, <2>1, <2>2, ZenonT(30) DEF TablesType, MarkStale, CallFails, origin
<1>9. CASE LoadStaleDeviceLists \/ (\E u \in Users : GetUserDevicesFails(u)) \/ PassTimesOut \/ ReadExistingKeys
  <2>1. faults' \in 0..MaxFaults
    BY <1>0, <1>9 DEF TablesType, LoadStaleDeviceLists, GetUserDevicesFails, PassTimesOut, ReadExistingKeys
  <2> QED BY <1>0, <1>9, <2>1, ZenonT(30)
       DEF TablesType, LoadStaleDeviceLists, GetUserDevicesFails, PassTimesOut, ReadExistingKeys, origin, tables
<1>10. CASE StoreFetchedList
  <2>1. worker.user \in Users /\ worker.resp \in Responses
    BY <1>0, <1>10 DEF WorkerType, StoreFetchedList, WorkerRecords
  <2>2. FetchedRows(worker.resp) \in [Devices -> Rows]
    <3>1. \A d \in worker.resp.devices : [key |-> worker.resp.key[d], stream |-> worker.resp.stream] \in Rows
      BY ZenonT(30), <1>0, <2>1 DEF WorkerType, Responses, Rows, KeyValues
    <3> QED BY <3>1, ZenonT(30) DEF FetchedRows, Rows
  <2>3. rows' \in [Users -> [Devices -> Rows]]
    BY <1>0, <1>10, <2>1, <2>2 DEF TablesType, StoreFetchedList
  <2> QED BY <1>0, <1>10, <2>3, ZenonT(30) DEF TablesType, StoreFetchedList, origin
<1>11. CASE MarkFresh
  BY <1>0, <1>11, ZenonT(30) DEF TablesType, MarkFresh, origin
<1>12. CASE EmitFetchedList
  <2>1. worker.user \in Users /\ worker.resp \in Responses
    BY <1>0, <1>12 DEF WorkerType, EmitFetchedList, WorkerRecords
  <2>2. \A d \in worker.resp.devices : d \in Devices /\ worker.resp.key[d] \in KeyValues
    BY ZenonT(30), <1>0, <2>1 DEF WorkerType, Responses, KeyValues
  <2>3. \A d \in worker.resp.devices : <<worker.user, d, worker.resp.key[d]>> \in Users \X Devices \X KeyValues
    BY <2>1, <2>2
  <2>4. KeysAdded \subseteq Users \X Devices \X KeyValues
    BY <2>3, ZenonT(30) DEF KeysAdded
  <2> QED BY <1>0, <1>12, <2>4, ZenonT(30) DEF TablesType, EmitFetchedList, origin
<1>13. CASE UpdateDeviceListFails
  <2>1. worker.user \in Users
    BY <1>0, <1>13, ZenonT(30) DEF WorkerType, UpdateDeviceListFails
  <2>2. faults' \in 0..MaxFaults
    BY <1>0, <1>13 DEF TablesType, UpdateDeviceListFails
  <2> QED BY <1>0, <1>13, <2>1, <2>2, ZenonT(30) DEF TablesType, UpdateDeviceListFails, origin
<1>14. CASE Restart
  <2>1. \A t \in Calls : call[t].pc = "stored" => call[t].user \in Users
    BY <1>0, CallFacts DEF CallsType, Threads
  <2>2. worker.pc \in {"mark", "emit"} => worker.user \in Users
    BY <1>0, ZenonT(30) DEF WorkerType
  <2>3. unannounced' \subseteq Users
    BY <1>0, <1>14, <2>1, <2>2, ZenonT(30) DEF TablesType, Restart
  <2>4. faults' \in 0..MaxFaults
    BY <1>0, <1>14 DEF TablesType, Restart
  <2> QED BY <1>0, <1>14, <2>3, <2>4, ZenonT(30) DEF TablesType, Restart, origin
<1>15. ASSUME UNCHANGED <<origin, net, tables, faults>>
       PROVE  TablesType'
  BY <1>0, <1>15, ZenonT(30) DEF TablesType, origin, tables
<1>16. ASSUME \/ \E t \in Threads : AssignChannel(t) \/ Poke(t) \/ Return(t)
              \/ \E u \in Users : StartNext(u) \/ GetUserDevices(u)
              \/ TakePoke \/ EndPass \/ RestarterTake \/ RestarterSend \/ UNCHANGED vars
       PROVE  UNCHANGED <<origin, net, tables, faults>>
  BY <1>16, ZenonT(30) DEF AssignChannel, Poke, Return, StartNext, GetUserDevices, TakePoke, EndPass,
       RestarterTake, RestarterSend, vars
<1> HIDE Bounds
<1>17. Keys \cup {Deleted} = KeyValues
  BY ZenonT(30) DEF KeyValues
<1> QED
  BY NextCases, <1>1, <1>2, <1>3, <1>4, <1>5, <1>6, <1>7, <1>8, <1>9, <1>10, <1>11, <1>12, <1>13,
     <1>14, <1>15, <1>16, <1>17, ZenonT(30)

\* Call t is now at p, for user u, with update e and channel c; the others
\* are where they were.
Moved(t, p, u, e, c) ==
    /\ call' \in [Threads -> CallRecords]
    /\ call'[t].pc = p /\ call'[t].user = u /\ call'[t].ev = e /\ call'[t].channel = c
    /\ \A s \in Threads \ {t} : call'[s] = call[s]

\* What each step does to the call that takes it.
LEMMA Moves ==
    ASSUME CallsType, NEW t \in Threads
    PROVE  /\ \A ev \in Updates : Update(t, ev) =>
                \E p \in {"checked", "unsequenced"} : Moved(t, p, ev.user, ev, NoChannel)
           /\ \A u \in Users : ManualUpdate(t, u) \/ (t = Starter /\ StartNext(u)) =>
                Moved(t, "assign", u, NoUpdate, NoChannel)
           /\ StoreUpdate(t) => Moved(t, "stored", call[t].user, call[t].ev, NoChannel)
           /\ ProduceUpdate(t) \/ CallFails(t) \/ Return(t) => Moved(t, "idle", NoUser, NoUpdate, NoChannel)
           /\ MarkStale(t) => Moved(t, "assign", call[t].user, NoUpdate, NoChannel)
           /\ Poke(t) => Moved(t, "wait", call[t].user, NoUpdate, call[t].channel)
           /\ \A c \in ChannelIDs :
                call[t].pc = "assign" /\ call' = [call EXCEPT ![t].pc = "poke", ![t].channel = c] =>
                    Moved(t, "poke", call[t].user, NoUpdate, c)
<1>0. call \in [Threads -> CallRecords] /\ call[t] \in CallRecords
  BY ZenonT(30) DEF CallsType
<1>a. ASSUME NEW r \in CallRecords, call' = [call EXCEPT ![t] = r]
      PROVE  Moved(t, r.pc, r.user, r.ev, r.channel)
  BY <1>0, <1>a DEF Moved
<1>1. ASSUME NEW ev \in Updates, Update(t, ev)
      PROVE  \E p \in {"checked", "unsequenced"} : Moved(t, p, ev.user, ev, NoChannel)
  <2>1. PICK p \in {"checked", "unsequenced"} :
          call' = [call EXCEPT ![t] = [pc |-> p, user |-> ev.user, ev |-> ev, channel |-> NoChannel]]
    BY <1>1, ZenonT(30) DEF Update
  <2> DEFINE r == [pc |-> p, user |-> ev.user, ev |-> ev, channel |-> NoChannel]
  <2>2. r \in LockedCalls /\ r.pc = p /\ r.user = ev.user /\ r.ev = ev /\ r.channel = NoChannel
    BY DEF LockedCalls, Updates
  <2>3. r \in CallRecords
    BY <2>2, ZenonT(30) DEF CallRecords, LockedCalls
  <2> HIDE DEF r
  <2> QED BY <1>a, <2>1, <2>2, <2>3, ZenonT(30) DEF r
<1>2. ASSUME NEW u \in Users, ManualUpdate(t, u) \/ (t = Starter /\ StartNext(u))
      PROVE  Moved(t, "assign", u, NoUpdate, NoChannel)
  <2>1. call[t] = IdleCall
    BY <1>0, <1>2, CallFacts, ZenonT(30) DEF ManualUpdate, StartNext
  <2>2. call' = [call EXCEPT ![t].pc = "assign", ![t].user = u]
    BY <1>2, ZenonT(30) DEF ManualUpdate, StartNext
  <2>3. call'[t] = [IdleCall EXCEPT !.pc = "assign", !.user = u]
    BY <1>0, <2>1, <2>2
  <2>4. call'[t] \in AssigningCalls /\ call'[t].user = u
    BY ZenonT(30), <2>3 DEF IdleCall, AssigningCalls
  <2>5. call'[t] \in CallRecords /\ call'[t].pc = "assign" /\ call'[t].ev = NoUpdate /\ call'[t].channel = NoChannel
    BY <2>4 DEF CallRecords, AssigningCalls
  <2>6. call' \in [Threads -> CallRecords] /\ \A s \in Threads \ {t} : call'[s] = call[s]
    BY <1>0, <2>2, <2>5
  <2> QED BY <2>4, <2>5, <2>6, ZenonT(30) DEF Moved
<1>3. ASSUME StoreUpdate(t)
      PROVE  Moved(t, "stored", call[t].user, call[t].ev, NoChannel)
  <2>1. call[t] \in LockedCalls
    BY <1>0, <1>3, CallFacts, ZenonT(30) DEF StoreUpdate
  <2>2. call' = [call EXCEPT ![t].pc = "stored"]
    BY <1>3, ZenonT(30) DEF StoreUpdate
  <2>3. call'[t] = [call[t] EXCEPT !.pc = "stored"]
    BY <1>0, <2>2
  <2>4. call'[t] \in LockedCalls /\ call'[t].pc = "stored" /\ call'[t].user = call[t].user
          /\ call'[t].ev = call[t].ev /\ call'[t].channel = NoChannel
    BY <2>1, <2>3 DEF LockedCalls
  <2>5. call'[t] \in CallRecords
    BY <2>4, ZenonT(30) DEF CallRecords, LockedCalls
  <2>6. call' \in [Threads -> CallRecords] /\ \A s \in Threads \ {t} : call'[s] = call[s]
    BY <1>0, <2>2, <2>5
  <2> QED BY <2>4, <2>6, ZenonT(30) DEF Moved
<1>4. ASSUME ProduceUpdate(t) \/ CallFails(t) \/ Return(t)
      PROVE  Moved(t, "idle", NoUser, NoUpdate, NoChannel)
  <2>1. call' = [call EXCEPT ![t] = IdleCall]
    BY <1>4, ZenonT(30) DEF ProduceUpdate, CallFails, Return
  <2>2. IdleCall \in CallRecords /\ IdleCall.pc = "idle" /\ IdleCall.user = NoUser
          /\ IdleCall.ev = NoUpdate /\ IdleCall.channel = NoChannel
    BY DEF CallRecords, IdleCall
  <2> QED BY <1>a, <2>1, <2>2, ZenonT(30)
<1>5. ASSUME MarkStale(t)
      PROVE  Moved(t, "assign", call[t].user, NoUpdate, NoChannel)
  <2>1. call[t] \in LockedCalls
    BY <1>0, <1>5, CallFacts, ZenonT(30) DEF MarkStale
  <2>2. call' = [call EXCEPT ![t].pc = "assign", ![t].ev = NoUpdate]
    BY <1>5, ZenonT(30) DEF MarkStale
  <2>3. call'[t] = [call[t] EXCEPT !.pc = "assign", !.ev = NoUpdate]
    BY <1>0, <2>2
  <2>4. call'[t] \in AssigningCalls /\ call'[t].user = call[t].user
    BY ZenonT(30), <2>1, <2>3 DEF LockedCalls, AssigningCalls
  <2>5. call'[t] \in CallRecords /\ call'[t].pc = "assign" /\ call'[t].ev = NoUpdate /\ call'[t].channel = NoChannel
    BY <2>4 DEF CallRecords, AssigningCalls
  <2>6. call' \in [Threads -> CallRecords] /\ \A s \in Threads \ {t} : call'[s] = call[s]
    BY <1>0, <2>2, <2>5
  <2> QED BY <2>4, <2>5, <2>6, ZenonT(30) DEF Moved
<1>6. ASSUME Poke(t)
      PROVE  Moved(t, "wait", call[t].user, NoUpdate, call[t].channel)
  <2>1. call[t] \in WaitingCalls
    BY <1>0, <1>6, CallFacts, ZenonT(30) DEF Poke
  <2>2. call' = [call EXCEPT ![t].pc = "wait"]
    BY <1>6, ZenonT(30) DEF Poke
  <2>3. call'[t] = [call[t] EXCEPT !.pc = "wait"]
    BY <1>0, <2>2
  <2>4. call'[t] \in WaitingCalls /\ call'[t].pc = "wait" /\ call'[t].user = call[t].user
          /\ call'[t].ev = NoUpdate /\ call'[t].channel = call[t].channel
    BY <2>1, <2>3 DEF WaitingCalls
  <2>5. call'[t] \in CallRecords
    BY <2>4, ZenonT(30) DEF CallRecords, WaitingCalls
  <2>6. call' \in [Threads -> CallRecords] /\ \A s \in Threads \ {t} : call'[s] = call[s]
    BY <1>0, <2>2, <2>5
  <2> QED BY <2>4, <2>6, ZenonT(30) DEF Moved
<1>7. ASSUME NEW c \in ChannelIDs, call[t].pc = "assign", call' = [call EXCEPT ![t].pc = "poke", ![t].channel = c]
      PROVE  Moved(t, "poke", call[t].user, NoUpdate, c)
  <2>1. call[t] \in AssigningCalls
    BY <1>0, <1>7, CallFacts, ZenonT(30)
  <2>3. call'[t] = [call[t] EXCEPT !.pc = "poke", !.channel = c]
    BY <1>0, <1>7
  <2>4. call'[t] \in WaitingCalls /\ call'[t].pc = "poke" /\ call'[t].user = call[t].user
          /\ call'[t].ev = NoUpdate /\ call'[t].channel = c
    BY ZenonT(30), <2>1, <2>3 DEF AssigningCalls, WaitingCalls
  <2>5. call'[t] \in CallRecords
    BY <2>4, ZenonT(30) DEF CallRecords, WaitingCalls
  <2>6. call' \in [Threads -> CallRecords] /\ \A s \in Threads \ {t} : call'[s] = call[s]
    BY <1>0, <1>7, <2>5
  <2> QED BY <2>4, <2>6, ZenonT(30) DEF Moved
<1> QED
  BY <1>1, <1>2, <1>3, <1>4, <1>5, <1>6, <1>7, ZenonT(30)

\* The calls, the channels and the retries keep their types.
LEMMA CallsStep ==
    ASSUME TypeOK, [Next]_vars
    PROVE  CallsType'
<1>0. TablesType /\ CallsType /\ WorkerType
  BY TypeParts
<1>a. ASSUME NEW t \in Threads, NEW p, NEW u, NEW e, NEW c, Moved(t, p, u, e, c),
             p \in {"checked", "stored", "unsequenced"} => t \in Calls /\ e.user = u
      PROVE  /\ call' \in [Threads -> CallRecords]
             /\ \A s \in Threads : call'[s].pc \in {"checked", "stored", "unsequenced"} =>
                                      s \in Calls /\ call'[s].ev.user = call'[s].user
  <2>1. ASSUME NEW s \in Threads, call'[s].pc \in {"checked", "stored", "unsequenced"}
        PROVE  s \in Calls /\ call'[s].ev.user = call'[s].user
    <3>1. CASE s = t
      BY <1>a, <2>1, <3>1, ZenonT(30) DEF Moved
    <3>2. CASE s # t
      BY <1>0, <1>a, <2>1, <3>2, ZenonT(30) DEF Moved, CallsType
    <3> QED BY <3>1, <3>2, ZenonT(30)
  <2> QED BY <1>a, <2>1, ZenonT(30) DEF Moved
<1>b. /\ "idle" \notin {"checked", "stored", "unsequenced"}
      /\ "assign" \notin {"checked", "stored", "unsequenced"}
      /\ "poke" \notin {"checked", "stored", "unsequenced"}
      /\ "wait" \notin {"checked", "stored", "unsequenced"}
  BY SMTT(30)
<1>1. ASSUME NEW t \in Calls, NEW ev \in net, Update(t, ev)
      PROVE  CallsType'
  <2>1. t \in Threads /\ ev \in Updates
    BY <1>0, ZenonT(30) DEF TablesType, Threads
  <2>2. /\ call' \in [Threads -> CallRecords]
        /\ \A s \in Threads : call'[s].pc \in {"checked", "stored", "unsequenced"} =>
                                 s \in Calls /\ call'[s].ev.user = call'[s].user
    BY <1>0, <1>1, <1>a, <2>1, Moves, ZenonT(30)
  <2> QED BY <1>0, <1>1, <2>2, ZenonT(30) DEF CallsType, Update
<1>2. ASSUME NEW t \in Threads, NEW u \in Users,
             ManualUpdate(t, u) \/ (t = Starter /\ StartNext(u))
      PROVE  CallsType'
  <2>1. Moved(t, "assign", u, NoUpdate, NoChannel)
    BY <1>0, <1>2, Moves, ZenonT(30)
  <2>2. starting' \subseteq Users
    BY <1>0, <1>2, ZenonT(30) DEF CallsType, ManualUpdate, StartNext
  <2> QED BY <1>0, <1>2, <1>a, <1>b, <2>1, <2>2, ZenonT(30) DEF CallsType, ManualUpdate, StartNext
<1>3. ASSUME NEW t \in Threads, StoreUpdate(t)
      PROVE  CallsType'
  <2>1. t \in Calls /\ call[t].ev.user = call[t].user
    BY <1>0, <1>3, ZenonT(30) DEF StoreUpdate, CallsType
  <2>2. Moved(t, "stored", call[t].user, call[t].ev, NoChannel)
    BY <1>0, <1>3, Moves, ZenonT(30)
  <2> QED BY <1>0, <1>3, <1>a, <2>1, <2>2, ZenonT(30) DEF CallsType, StoreUpdate
<1>4. ASSUME NEW t \in Threads, ProduceUpdate(t) \/ CallFails(t) \/ Return(t)
      PROVE  CallsType'
  <2>1. Moved(t, "idle", NoUser, NoUpdate, NoChannel)
    BY <1>0, <1>4, Moves, ZenonT(30)
  <2> QED BY <1>0, <1>4, <1>a, <1>b, <2>1, ZenonT(30) DEF CallsType, ProduceUpdate, CallFails, Return
<1>5. ASSUME NEW t \in Threads, MarkStale(t)
      PROVE  CallsType'
  <2>1. Moved(t, "assign", call[t].user, NoUpdate, NoChannel)
    BY <1>0, <1>5, Moves, ZenonT(30)
  <2> QED BY <1>0, <1>5, <1>a, <1>b, <2>1, ZenonT(30) DEF CallsType, MarkStale
<1>6. ASSUME NEW t \in Threads, AssignChannel(t)
      PROVE  CallsType'
  <2>1. call[t].user \in Users
    BY <1>0, <1>6, CallFacts, ZenonT(30) DEF AssignChannel, CallsType
  <2>2. PICK c \in ChannelIDs :
          /\ call' = [call EXCEPT ![t].pc = "poke", ![t].channel = c]
          /\ channel' = channel \/ channel' = [channel EXCEPT ![call[t].user] = c]
          /\ closed' = closed \/ closed' = closed \ {c}
    <3>1. channel[call[t].user] \in ChannelIDs \/ NeedsChannel(call[t].user)
      BY <1>0, <2>1, ZenonT(30) DEF CallsType, NeedsChannel
    <3> QED BY <1>6, <3>1, ZenonT(30) DEF AssignChannel
  <2>3. Moved(t, "poke", call[t].user, NoUpdate, c)
    BY <1>0, <1>6, <2>2, Moves, ZenonT(30) DEF AssignChannel
  <2>4. channel' \in [Users -> ChannelIDs \cup {NoChannel}] /\ closed' \subseteq ChannelIDs
    BY <1>0, <2>1, <2>2 DEF CallsType
  <2> QED BY <1>0, <1>6, <1>a, <1>b, <2>3, <2>4, ZenonT(30) DEF CallsType, AssignChannel
<1>7. ASSUME NEW t \in Threads, Poke(t)
      PROVE  CallsType'
  <2>1. Moved(t, "wait", call[t].user, NoUpdate, call[t].channel)
    BY <1>0, <1>7, Moves, ZenonT(30)
  <2>2. poked' \in 0..Capacity
    BY <1>0, <1>7, Bounds DEF CallsType, Poke
  <2> QED BY <1>0, <1>7, <1>a, <1>b, <2>1, <2>2, ZenonT(30) DEF CallsType, Poke
<1>8. CASE TakePoke \/ RestarterSend
  <2>1. poked' \in 0..Capacity
    BY <1>0, <1>8, Bounds DEF CallsType, TakePoke, RestarterSend
  <2> QED BY <1>0, <1>8, <2>1, ZenonT(30) DEF CallsType, TakePoke, RestarterSend
<1>9. CASE LoadStaleDeviceLists \/ RestarterTake
  BY <1>0, <1>9, ZenonT(30) DEF CallsType, LoadStaleDeviceLists, RestarterTake
<1>10. CASE EndPass
  <2>1. channel' \in [Users -> ChannelIDs \cup {NoChannel}] /\ closed' \subseteq ChannelIDs
    BY <1>0, <1>10 DEF CallsType, EndPass
  <2> QED BY <1>0, <1>10, <2>1, ZenonT(30) DEF CallsType, EndPass
<1>11. CASE Restart
  <2>1. call' \in [Threads -> CallRecords] /\ \A s \in Threads : call'[s].pc = "idle"
    BY <1>11 DEF Restart, CallRecords, IdleCall
  <2>2. channel' \in [Users -> ChannelIDs \cup {NoChannel}]
    BY <1>11 DEF Restart
  <2>3. poked' \in 0..Capacity
    BY <1>11, Bounds DEF Restart
  <2>4. starting' \subseteq Users
    BY <1>0, <1>11, ZenonT(30) DEF Restart, TablesType
  <2>5. \A s \in Threads : call'[s].pc \notin {"checked", "stored", "unsequenced"}
    BY <2>1
  <2> QED BY <1>11, <2>1, <2>2, <2>3, <2>4, <2>5, ZenonT(30) DEF CallsType, Restart
<1>12. ASSUME UNCHANGED updater \/ UNCHANGED <<call, channel, closed, poked, retrying, restarter, starting>>
       PROVE  CallsType'
  BY <1>0, <1>12, ZenonT(30) DEF CallsType, updater
<1>13. ASSUME \/ \E p \in Uploads, u \in Users, d \in Devices, k \in Keys \cup {Deleted}, n \in BOOLEAN :
                    UploadLocalDeviceKeys(p, u, d, k, n)
              \/ \E p \in Uploads : StoreLocalDeviceKeys(p) \/ EmitDeviceKeyChanges(p) \/ EmitFails(p)
              \/ \E u \in Users : GetUserDevices(u) \/ GetUserDevicesFails(u)
              \/ PassTimesOut \/ ReadExistingKeys \/ StoreFetchedList \/ MarkFresh
              \/ EmitFetchedList \/ UpdateDeviceListFails \/ UNCHANGED vars
       PROVE  UNCHANGED updater \/ UNCHANGED <<call, channel, closed, poked, retrying, restarter, starting>>
  BY <1>13, ZenonT(30) DEF UploadLocalDeviceKeys, StoreLocalDeviceKeys, EmitDeviceKeyChanges, EmitFails,
       GetUserDevices, GetUserDevicesFails, PassTimesOut, ReadExistingKeys, StoreFetchedList, MarkFresh,
       EmitFetchedList, UpdateDeviceListFails, vars
<1>14. Starter \in Threads /\ Calls \subseteq Threads
  BY ZenonT(30) DEF Threads
<1> QED
  BY NextCases, <1>1, <1>2, <1>3, <1>4, <1>5, <1>6, <1>7, <1>8, <1>9, <1>10, <1>11, <1>12, <1>13,
     <1>14, ZenonT(30)

\* The worker keeps its type.
LEMMA WorkerTypeStep ==
    ASSUME TypeOK, [Next]_vars
    PROVE  WorkerType'
<1>0. TablesType /\ CallsType /\ WorkerType
  BY TypeParts
<1>a. IdleWorker \in WorkerRecords /\ IdleWorker.pc = "idle" /\ IdleWorker.resp.devices = {}
  <2>1. NoResponse \in Responses /\ NoResponse.devices = {} /\ NoResponse.key \in [Devices -> KeyValues]
    BY Bounds DEF NoResponse, Responses, KeyValues
  <2> QED BY <2>1 DEF IdleWorker, WorkerRecords
<1>b. ASSUME worker' = IdleWorker
      PROVE  WorkerType'
  BY <1>a, <1>b DEF WorkerType
<1>1. CASE TakePoke
  BY <1>0, <1>1 DEF WorkerType, TakePoke, WorkerRecords
<1>2. CASE LoadStaleDeviceLists
  <2>1. stale \in SUBSET Users
    BY <1>0 DEF TablesType
  <2>2. CASE worker' = [worker EXCEPT !.pc = "users", !.users = stale, !.todo = stale, !.failed = FALSE]
    BY ZenonT(30), <1>0, <2>1, <2>2 DEF WorkerType, WorkerRecords
  <2> QED BY <1>2, <1>b, <2>2, ZenonT(30) DEF LoadStaleDeviceLists
<1>3. ASSUME NEW u \in Users, GetUserDevices(u)
      PROVE  WorkerType'
  <2> DEFINE r == QueryDeviceMessages(u)
  <2>1. r \in Responses /\ \A d \in r.devices : r.key[d] \in Keys
    BY <1>0, ResponseType, ZenonT(30) DEF TablesType
  <2>2. worker' = [worker EXCEPT !.pc = "existing", !.user = u, !.resp = r]
    BY <1>3, ZenonT(30) DEF GetUserDevices
  <2> HIDE DEF r
  <2> QED BY ZenonT(30), <1>0, <2>1, <2>2 DEF WorkerType, WorkerRecords
<1>4. ASSUME NEW u \in Users, GetUserDevicesFails(u)
      PROVE  WorkerType'
  BY ZenonT(30), <1>0, <1>4 DEF WorkerType, GetUserDevicesFails, WithFailure, WorkerRecords
<1>5. CASE PassTimesOut
  BY ZenonT(30), <1>0, <1>5 DEF WorkerType, PassTimesOut, WorkerRecords
<1>6. CASE ReadExistingKeys
  <2>1. worker.user \in Users
    BY <1>0, <1>6, ZenonT(30) DEF WorkerType, ReadExistingKeys
  <2>2. SelectDeviceKeysJSON(worker.user) \in [Devices -> KeyValues]
    BY <1>0, <2>1 DEF SelectDeviceKeysJSON, TablesType, Rows, KeyValues
  <2>3. NoResponse.key \in [Devices -> KeyValues]
    BY DEF NoResponse, KeyValues
  <2>4. PICK k \in [Devices -> KeyValues] : worker' = [worker EXCEPT !.pc = "store", !.existing = k]
    BY <1>6, <2>2, <2>3, ZenonT(30) DEF ReadExistingKeys
  <2> QED BY ZenonT(30), <1>0, <2>1, <2>4 DEF WorkerType, WorkerRecords
<1>7. CASE StoreFetchedList
  BY <1>0, <1>7 DEF WorkerType, StoreFetchedList, WorkerRecords
<1>8. CASE MarkFresh
  BY <1>0, <1>8 DEF WorkerType, MarkFresh, WorkerRecords
<1>9. CASE EmitFetchedList \/ UpdateDeviceListFails
  <2>1. PICK b \in BOOLEAN : worker' = NextUser(b)
    BY <1>9, ZenonT(30) DEF EmitFetchedList, UpdateDeviceListFails
  <2>2. NoResponse \in Responses /\ NoResponse.devices = {} /\ NoResponse.key \in [Devices -> KeyValues]
    BY Bounds DEF NoResponse, Responses, KeyValues
  <2>3. (worker.failed \/ b) \in BOOLEAN
    BY ZenonT(30)
  <2>4. worker' \in WorkerRecords /\ worker'.pc = "users" /\ worker'.resp = NoResponse
    <3> DEFINE f == worker.failed \/ b
    <3>1. f \in BOOLEAN
      BY <2>3
    <3>2. worker' = [worker EXCEPT !.pc = "users", !.todo = @ \ {worker.user}, !.failed = f,
                       !.user = NoUser, !.resp = NoResponse, !.existing = NoResponse.key]
      BY <2>1, ZenonT(30) DEF NextUser
    <3> HIDE DEF f
    <3> QED BY ZenonT(30), <1>0, <2>2, <3>1, <3>2 DEF WorkerType, WorkerRecords
  <2> QED BY <2>2, <2>4 DEF WorkerType
<1>10. CASE EndPass \/ Restart
  BY <1>10, <1>b, ZenonT(30) DEF EndPass, Restart
<1>11. ASSUME UNCHANGED updater \/ UNCHANGED worker
       PROVE  WorkerType'
  BY <1>0, <1>11, ZenonT(30) DEF WorkerType, updater
<1>12. ASSUME \/ \E p \in Uploads, u \in Users, d \in Devices, k \in Keys \cup {Deleted}, n \in BOOLEAN :
                    UploadLocalDeviceKeys(p, u, d, k, n)
              \/ \E p \in Uploads : StoreLocalDeviceKeys(p) \/ EmitDeviceKeyChanges(p) \/ EmitFails(p)
              \/ \E t \in Calls : (\E ev \in net : Update(t, ev)) \/ (\E u \in Users : ManualUpdate(t, u))
              \/ \E t \in Threads : \/ StoreUpdate(t) \/ ProduceUpdate(t) \/ MarkStale(t) \/ CallFails(t)
                                   \/ AssignChannel(t) \/ Poke(t) \/ Return(t)
              \/ \E u \in Users : StartNext(u)
              \/ RestarterTake \/ RestarterSend \/ UNCHANGED vars
       PROVE  UNCHANGED updater \/ UNCHANGED worker
  BY <1>12, ZenonT(30) DEF UploadLocalDeviceKeys, StoreLocalDeviceKeys, EmitDeviceKeyChanges, EmitFails,
       Update, ManualUpdate, StoreUpdate, ProduceUpdate, MarkStale, CallFails, AssignChannel, Poke, Return,
       StartNext, RestarterTake, RestarterSend, vars
<1> QED
  BY NextCases, <1>1, <1>2, <1>3, <1>4, <1>5, <1>6, <1>7, <1>8, <1>9, <1>10, <1>11, <1>12, ZenonT(30)

-----------------------------------------------------------------------------
(* Nobody is forgotten.                                                    *)

\* What keeps a stale list on the agenda.  The worker's list of users counts
\* for the user it is at only until the user's list is marked as fresh: after
\* that the mark is that of a later call.
Attended(u) ==
    \/ \E t \in Threads : call[t].user = u /\ call[t].pc \in {"assign", "poke"}
    \/ poked > 0 \/ retrying \/ restarter \/ u \in starting
    \/ worker.pc = "load"
    \/ worker.pc # "idle" /\ worker.failed
    \/ /\ worker.pc # "idle" /\ u \in worker.todo
       /\ ~(worker.pc = "emit" /\ worker.user = u)

AttendedInv == \A u \in stale : Attended(u)

\* Every step leaves the stale lists attended to.
LEMMA AttendedStep ==
    ASSUME TypeOK, AttendedInv, [Next]_vars
    PROVE  AttendedInv'
<1> USE DEF AttendedInv
<1>0. TablesType /\ CallsType /\ WorkerType
  BY SMTT(30), TypeParts
<1>a. poked \in Nat /\ worker \in WorkerRecords
  BY <1>0, Bounds DEF CallsType, WorkerType
<1>b. ASSUME NEW t \in Threads, NEW p, NEW u, NEW e, NEW c, Moved(t, p, u, e, c),
             \/ call[t].pc \notin {"assign", "poke"}
             \/ p \in {"assign", "poke"} /\ u = call[t].user,
             UNCHANGED <<poked, worker, retrying, restarter>>, NEW v, Attended(v),
             v \in starting => v \in starting'
      PROVE  Attended(v)'
  <2>1. CASE \E s \in Threads : call[s].user = v /\ call[s].pc \in {"assign", "poke"}
    <3>1. PICK s \in Threads : call[s].user = v /\ call[s].pc \in {"assign", "poke"}
      BY <2>1
    <3>2. call'[s].user = v /\ call'[s].pc \in {"assign", "poke"}
      BY <1>b, <3>1, ZenonT(30) DEF Moved
    <3> QED BY <3>2, ZenonT(30) DEF Attended
  <2> QED BY <1>b, <2>1, ZenonT(30) DEF Attended
<1>c. ASSUME NEW v, Attended(v), UNCHANGED <<call, poked, retrying, restarter, starting>>,
             \/ worker' = worker
             \/ worker.pc # "load" /\ worker'.pc \notin {"idle", "emit"} /\ worker'.failed = worker.failed
                  /\ worker'.todo = worker.todo
             \/ worker'.pc # "idle" /\ worker'.failed
      PROVE  Attended(v)'
  BY <1>c, ZenonT(30) DEF Attended
<1>1. ASSUME NEW t \in Calls, NEW ev \in net, Update(t, ev)
      PROVE  AttendedInv'
  <2>1. t \in Threads /\ ev \in Updates
    BY <1>0, ZenonT(30) DEF TablesType, Threads
  <2>2. PICK p \in {"checked", "unsequenced"} : Moved(t, p, ev.user, ev, NoChannel)
    BY <1>0, <1>1, <2>1, Moves, ZenonT(30)
  <2>3. call[t].pc \notin {"assign", "poke"}
    BY <1>1 DEF Update
  <2> QED BY <1>1, <1>b, <2>1, <2>2, <2>3, ZenonT(30) DEF Update, tables
<1>2. ASSUME NEW t \in Threads, NEW u \in Users, ManualUpdate(t, u) \/ (t = Starter /\ StartNext(u))
      PROVE  AttendedInv'
  <2>1. Moved(t, "assign", u, NoUpdate, NoChannel)
    BY <1>0, <1>2, Moves, ZenonT(30)
  <2>2. call[t].pc \notin {"assign", "poke"}
    BY <1>2 DEF ManualUpdate, StartNext
  <2>3. Attended(u)'
    BY <2>1, ZenonT(30) DEF Moved, Attended
  <2>4. ASSUME NEW v \in stale, v # u
        PROVE  Attended(v)'
    <3>1. v \in starting => v \in starting'
      BY <1>2, <2>4, ZenonT(30) DEF ManualUpdate, StartNext
    <3>2. UNCHANGED <<poked, worker, retrying, restarter>>
      BY <1>2, ZenonT(30) DEF ManualUpdate, StartNext
    <3> QED BY <1>b, <2>1, <2>2, <3>1, <3>2, ZenonT(30)
  <2> QED BY <1>2, <2>3, <2>4, ZenonT(30) DEF ManualUpdate, StartNext, tables
<1>3. ASSUME NEW t \in Threads, StoreUpdate(t) \/ ProduceUpdate(t) \/ CallFails(t) \/ Return(t)
      PROVE  AttendedInv'
  <2>1. \E p, u, e, c : Moved(t, p, u, e, c)
    BY <1>0, <1>3, Moves, ZenonT(30)
  <2>2. call[t].pc \notin {"assign", "poke"}
    BY <1>3 DEF StoreUpdate, ProduceUpdate, CallFails, Return
  <2>3. UNCHANGED <<poked, worker, retrying, restarter, starting, stale>>
    BY <1>3, ZenonT(30) DEF StoreUpdate, ProduceUpdate, CallFails, Return, tables
  <2> QED BY <1>b, <2>1, <2>2, <2>3, ZenonT(30)
<1>4. ASSUME NEW t \in Threads, MarkStale(t)
      PROVE  AttendedInv'
  <2>0. PICK u \in Users : u = call[t].user
    BY <1>0, <1>4, CallFacts, ZenonT(30) DEF MarkStale, CallsType
  <2>1. Moved(t, "assign", u, NoUpdate, NoChannel)
    BY <1>0, <1>4, <2>0, Moves, ZenonT(30)
  <2>2. call[t].pc \notin {"assign", "poke"}
    BY SMTT(30), <1>4 DEF MarkStale
  <2>3. Attended(u)'
    BY <2>1, ZenonT(30) DEF Moved, Attended
  <2>4. stale' = stale \cup {u} /\ UNCHANGED <<poked, worker, retrying, restarter, starting>>
    BY <1>4, <2>0, ZenonT(30) DEF MarkStale
  <2> QED BY <1>b, <2>1, <2>2, <2>3, <2>4, ZenonT(30)
<1>5. ASSUME NEW t \in Threads, AssignChannel(t)
      PROVE  AttendedInv'
  <2>1. call[t].user \in Users
    BY <1>0, <1>5, CallFacts, ZenonT(30) DEF AssignChannel, CallsType
  <2>2. PICK c \in ChannelIDs : call' = [call EXCEPT ![t].pc = "poke", ![t].channel = c]
    <3>1. channel[call[t].user] \in ChannelIDs \/ NeedsChannel(call[t].user)
      BY <1>0, <2>1, ZenonT(30) DEF CallsType, NeedsChannel
    <3> QED BY <1>5, <3>1, ZenonT(30) DEF AssignChannel
  <2>3. Moved(t, "poke", call[t].user, NoUpdate, c)
    BY <1>0, <1>5, <2>2, Moves, ZenonT(30) DEF AssignChannel
  <2>4. UNCHANGED <<poked, worker, retrying, restarter, starting, stale>>
    BY <1>5, ZenonT(30) DEF AssignChannel, tables
  <2> QED BY <1>b, <2>3, <2>4, ZenonT(30)
<1>6. ASSUME NEW t \in Threads, Poke(t)
      PROVE  AttendedInv'
  <2>1. poked' > 0
    BY SMTT(30), <1>6, <1>a DEF Poke
  <2> QED BY <2>1, ZenonT(30) DEF Attended
<1>7. CASE TakePoke
  <2>1. worker'.pc = "load"
    BY SMTT(30), <1>7, <1>a DEF TakePoke, WorkerRecords
  <2> QED BY <2>1, ZenonT(30) DEF Attended
<1>8. CASE LoadStaleDeviceLists
  <2>1. CASE retrying' = TRUE
    BY <2>1, ZenonT(30) DEF Attended
  <2>2. CASE worker' = [worker EXCEPT !.pc = "users", !.users = stale, !.todo = stale, !.failed = FALSE]
    <3>1. worker'.pc = "users" /\ worker'.todo = stale
      BY <1>a, <2>2 DEF WorkerRecords
    <3>2. stale' = stale
      BY <1>8, ZenonT(30) DEF LoadStaleDeviceLists, tables
    <3> QED BY <3>1, <3>2 DEF Attended
  <2> QED BY <1>8, <2>1, <2>2, ZenonT(30) DEF LoadStaleDeviceLists
<1>9. ASSUME NEW u \in Users, GetUserDevices(u)
      PROVE  AttendedInv'
  <2>1. worker.pc # "load" /\ worker'.pc \notin {"idle", "emit"} /\ worker'.failed = worker.failed
          /\ worker'.todo = worker.todo
    BY SMTT(30), <1>9, <1>a DEF GetUserDevices, WorkerRecords
  <2> QED BY <1>9, <1>c, <2>1, ZenonT(30) DEF GetUserDevices, tables
<1>10. CASE (\E u \in Users : GetUserDevicesFails(u)) \/ PassTimesOut
  <2>1. worker'.pc # "idle" /\ worker'.failed = TRUE
    BY ZenonT(30), <1>10, <1>a DEF GetUserDevicesFails, WithFailure, PassTimesOut, WorkerRecords
  <2> QED BY <2>1, ZenonT(30) DEF Attended
<1>11. CASE ReadExistingKeys \/ StoreFetchedList
  <2>1. worker.pc # "load" /\ worker'.pc \notin {"idle", "emit"} /\ worker'.failed = worker.failed
          /\ worker'.todo = worker.todo
    <3>1. CASE ReadExistingKeys
      BY ZenonT(30), <3>1, <1>a DEF ReadExistingKeys, WorkerRecords
    <3>2. CASE StoreFetchedList
      BY <3>2, <1>a DEF StoreFetchedList, WorkerRecords
    <3> QED BY SMTT(30), <1>11, <3>1, <3>2
  <2> QED BY <1>11, <1>c, <2>1, ZenonT(30) DEF ReadExistingKeys, StoreFetchedList, tables
<1>12. CASE MarkFresh
  <2>1. worker.pc = "mark" /\ worker'.pc = "emit" /\ worker'.failed = worker.failed
          /\ worker'.todo = worker.todo /\ worker'.user = worker.user
    BY <1>12, <1>a DEF MarkFresh, WorkerRecords
  <2>2. worker.pc # "load" /\ worker'.pc # "idle"
    BY <2>1
  <2>3. ASSUME NEW v \in stale, v # worker.user
        PROVE  Attended(v)'
    BY <1>12, <2>1, <2>2, <2>3, ZenonT(30) DEF Attended, MarkFresh
  <2> QED BY <1>12, <2>3, ZenonT(30) DEF MarkFresh
<1>13. CASE EmitFetchedList
  <2>1. worker.pc = "emit" /\ worker'.pc = "users" /\ worker'.todo = worker.todo \ {worker.user}
    BY SMTT(30), <1>13, <1>a DEF EmitFetchedList, NextUser, WorkerRecords
  <2>2. worker'.failed = (worker.failed \/ FALSE)
    BY <1>13, <1>a, ZenonT(30) DEF EmitFetchedList, NextUser, WorkerRecords
  <2>3. ASSUME NEW v \in stale
        PROVE  Attended(v)'
    <3>1. worker.pc # "load" /\ worker'.pc # "idle" /\ worker'.pc # "emit"
      BY <2>1
    <3>2. Attended(v)
      BY ZenonT(30)
    <3> QED BY <1>13, <2>1, <2>2, <3>1, <3>2, ZenonT(30) DEF Attended, EmitFetchedList
  <2> QED BY <1>13, <2>3, ZenonT(30) DEF EmitFetchedList
<1>14. CASE UpdateDeviceListFails
  <2>1. worker'.pc # "idle"
    BY SMTT(30), <1>14, <1>a DEF UpdateDeviceListFails, NextUser, WorkerRecords
  <2>2. worker'.failed = (worker.failed \/ TRUE)
    BY <1>14, <1>a, ZenonT(30) DEF UpdateDeviceListFails, NextUser, WorkerRecords
  <2> QED BY <2>1, <2>2, ZenonT(30) DEF Attended
<1>15. CASE EndPass
  <2>1. worker.pc = "users" /\ worker.todo = {} /\ retrying' = (retrying \/ worker.failed)
          /\ UNCHANGED <<call, poked, restarter, starting, stale>>
    BY <1>15, ZenonT(30) DEF EndPass, tables
  <2>2. worker.pc # "load"
    BY <2>1
  <2> QED BY <2>1, <2>2, ZenonT(30) DEF Attended
<1>16. CASE RestarterTake
  BY <1>16, ZenonT(30) DEF RestarterTake, Attended
<1>17. CASE RestarterSend
  <2>1. poked' > 0
    BY SMTT(30), <1>17, <1>a DEF RestarterSend
  <2> QED BY <2>1, ZenonT(30) DEF Attended
<1>18. CASE Restart
  BY <1>18, ZenonT(30) DEF Restart, Attended
<1>19. ASSUME UNCHANGED <<tables, updater>>
       PROVE  AttendedInv'
  BY <1>19, ZenonT(30) DEF Attended, tables, updater
<1>20. ASSUME \/ \E p \in Uploads, u \in Users, d \in Devices, k \in Keys \cup {Deleted}, n \in BOOLEAN :
                    UploadLocalDeviceKeys(p, u, d, k, n)
              \/ \E p \in Uploads : StoreLocalDeviceKeys(p) \/ EmitDeviceKeyChanges(p) \/ EmitFails(p)
              \/ UNCHANGED vars
       PROVE  UNCHANGED <<tables, updater>>
  BY <1>20, ZenonT(30) DEF UploadLocalDeviceKeys, StoreLocalDeviceKeys, EmitDeviceKeyChanges, EmitFails, vars
<1>21. Starter \in Threads /\ Calls \subseteq Threads
  BY ZenonT(30) DEF Threads
<1> HIDE DEF AttendedInv
<1> QED
  BY NextCases, <1>1, <1>2, <1>3, <1>4, <1>5, <1>6, <1>7, <1>8, <1>9, <1>10, <1>11, <1>12, <1>13,
     <1>14, <1>15, <1>16, <1>17, <1>18, <1>19, <1>20, <1>21, ZenonT(30)

-----------------------------------------------------------------------------
(* Nobody waits on a channel that will not be closed.                      *)

\* A new channel is nobody's, so no waiting call is given another one, and a
\* pass closes the channels that it takes from the users.
LEMMA WaitsStep ==
    ASSUME TypeOK, WaitsOnLiveChannel, [Next]_vars
    PROVE  WaitsOnLiveChannel'
<1> USE DEF WaitsOnLiveChannel
<1>0. TablesType /\ CallsType /\ WorkerType
  BY TypeParts
<1>a. ASSUME NEW s \in Threads, call[s].pc \in {"poke", "wait"}
      PROVE  call[s].user \in Users /\ call[s].channel \in ChannelIDs /\ call[s].channel # NoChannel
  <2>1. call[s].user \in Users /\ call[s].channel \in ChannelIDs
    BY <1>0, <1>a, CallFacts, ZenonT(30) DEF CallsType
  <2>2. NoChannel \notin ChannelIDs
    BY DEF NoChannel, ChannelIDs
  <2> QED BY <2>1, <2>2, ZenonT(30)
<1>b. ASSUME NEW t \in Threads, NEW p, NEW u, NEW e, NEW c, Moved(t, p, u, e, c),
             \/ p \notin {"poke", "wait"}
             \/ call[t].pc \in {"poke", "wait"} /\ u = call[t].user /\ c = call[t].channel,
             UNCHANGED channel,
             \A s \in Threads \ {t} : call[s].channel \in closed => call[s].channel \in closed',
             closed' = closed \/ p \notin {"poke", "wait"}
      PROVE  WaitsOnLiveChannel'
  BY <1>b, ZenonT(30) DEF Moved
<1>1. ASSUME NEW t \in Calls, NEW ev \in net, Update(t, ev)
      PROVE  WaitsOnLiveChannel'
  <2>1. t \in Threads /\ ev \in Updates
    BY <1>0, ZenonT(30) DEF TablesType, Threads
  <2>2. PICK p \in {"checked", "unsequenced"} : Moved(t, p, ev.user, ev, NoChannel)
    BY <1>0, <1>1, <2>1, Moves, ZenonT(30)
  <2>3. p \notin {"poke", "wait"}
    BY SMTT(30)
  <2> QED BY <1>1, <1>b, <2>1, <2>2, <2>3, ZenonT(30) DEF Update
<1>2. ASSUME NEW t \in Threads, NEW u \in Users, ManualUpdate(t, u) \/ (t = Starter /\ StartNext(u))
      PROVE  WaitsOnLiveChannel'
  <2>1. Moved(t, "assign", u, NoUpdate, NoChannel)
    BY <1>0, <1>2, Moves, ZenonT(30)
  <2>2. "assign" \notin {"poke", "wait"}
    BY SMTT(30)
  <2> QED BY <1>2, <1>b, <2>1, <2>2, ZenonT(30) DEF ManualUpdate, StartNext
<1>3. ASSUME NEW t \in Threads, StoreUpdate(t) \/ ProduceUpdate(t) \/ CallFails(t) \/ MarkStale(t)
      PROVE  WaitsOnLiveChannel'
  <2>1. PICK p \in {"stored", "idle", "assign"} : \E u, e, c : Moved(t, p, u, e, c)
    BY <1>0, <1>3, Moves, ZenonT(30)
  <2>2. p \notin {"poke", "wait"}
    BY SMTT(30)
  <2>3. UNCHANGED <<channel, closed>>
    BY <1>3, ZenonT(30) DEF StoreUpdate, ProduceUpdate, CallFails, MarkStale
  <2> QED BY <1>b, <2>1, <2>2, <2>3, ZenonT(30)
<1>4. ASSUME NEW t \in Threads, Return(t)
      PROVE  WaitsOnLiveChannel'
  <2>1. Moved(t, "idle", NoUser, NoUpdate, NoChannel)
    BY <1>0, <1>4, Moves, ZenonT(30)
  <2>2. "idle" \notin {"poke", "wait"}
    BY SMTT(30)
  <2>3. \A s \in Threads \ {t} : call[s].channel \in closed => call[s].channel \in closed'
    BY <1>4, ZenonT(30) DEF Return
  <2> QED BY <1>4, <1>b, <2>1, <2>2, <2>3, ZenonT(30) DEF Return
<1>5. ASSUME NEW t \in Threads, Poke(t)
      PROVE  WaitsOnLiveChannel'
  <2>1. Moved(t, "wait", call[t].user, NoUpdate, call[t].channel)
    BY <1>0, <1>5, Moves, ZenonT(30)
  <2> QED BY <1>5, <1>b, <2>1, ZenonT(30) DEF Poke
<1>6. ASSUME NEW t \in Threads, AssignChannel(t)
      PROVE  WaitsOnLiveChannel'
  <2>1. call[t].user \in Users
    BY <1>0, <1>6, CallFacts, ZenonT(30) DEF AssignChannel, CallsType
  <2>2. CASE ~NeedsChannel(call[t].user)
    <3>1. /\ call' = [call EXCEPT ![t].pc = "poke", ![t].channel = channel[call[t].user]]
          /\ UNCHANGED <<channel, closed>>
      BY <1>6, <2>2, ZenonT(30) DEF AssignChannel
    <3>2. channel[call[t].user] \in ChannelIDs
      BY <1>0, <2>1, <2>2, ZenonT(30) DEF CallsType, NeedsChannel
    <3>3. Moved(t, "poke", call[t].user, NoUpdate, channel[call[t].user])
      BY <1>0, <1>6, <3>1, <3>2, Moves, ZenonT(30) DEF AssignChannel
    <3> QED BY <3>1, <3>3, ZenonT(30) DEF Moved
  <2>3. CASE NeedsChannel(call[t].user)
    <3>1. PICK c \in ChannelIDs :
            /\ ~InUse(c)
            /\ call' = [call EXCEPT ![t].pc = "poke", ![t].channel = c]
            /\ channel' = [channel EXCEPT ![call[t].user] = c]
            /\ closed' = closed \ {c}
      BY <1>6, <2>3, ZenonT(30) DEF AssignChannel
    <3>2. Moved(t, "poke", call[t].user, NoUpdate, c)
      BY <1>0, <1>6, <3>1, Moves, ZenonT(30) DEF AssignChannel
    <3>3. channel'[call[t].user] = c /\ \A u \in Users : u # call[t].user => channel'[u] = channel[u]
      BY SMTT(30), <1>0, <2>1, <3>1 DEF CallsType
    <3>4. ASSUME NEW s \in Threads, s # t, call'[s].pc \in {"poke", "wait"}
          PROVE  call'[s].channel = channel'[call'[s].user] \/ call'[s].channel \in closed'
      <4>1. call'[s] = call[s] /\ call[s].pc \in {"poke", "wait"}
        BY <3>2, <3>4, ZenonT(30) DEF Moved
      <4>2. call[s].user \in Users /\ call[s].channel # NoChannel
        BY <1>a, <4>1, ZenonT(30)
      <4>3. call[s].channel # c
        BY <3>1, ZenonT(30) DEF InUse
      <4>4. CASE call[s].channel \in closed
        <5>1. call[s].channel \in closed'
          BY SMTT(30), <3>1, <4>3, <4>4
        <5> QED BY <4>1, <5>1, ZenonT(30)
      <4>5. CASE call[s].channel = channel[call[s].user]
        <5>1. call[s].user # call[t].user
          BY SMTT(30), <2>3, <4>2, <4>5 DEF NeedsChannel
        <5> QED BY <3>3, <4>1, <4>2, <4>5, <5>1, ZenonT(30)
      <4> QED BY <4>1, <4>4, <4>5, ZenonT(30)
    <3>5. call'[t].channel = channel'[call'[t].user]
      BY <3>2, <3>3, ZenonT(30) DEF Moved
    <3> QED BY <3>4, <3>5, ZenonT(30)
  <2> QED BY <2>2, <2>3, ZenonT(30)
<1>7. CASE EndPass
  <2>1. UNCHANGED call /\ closed \subseteq closed'
    BY <1>7, ZenonT(30) DEF EndPass
  <2>2. ASSUME NEW s \in Threads, call[s].pc \in {"poke", "wait"}, call[s].channel = channel[call[s].user]
        PROVE  call[s].channel = channel'[call[s].user] \/ call[s].channel \in closed'
    <3>1. call[s].user \in Users /\ call[s].channel \in ChannelIDs
      BY <1>a, <2>2, ZenonT(30)
    <3>2. CASE call[s].user \in worker.users
      BY <1>7, <2>2, <3>1, <3>2, ZenonT(30) DEF EndPass
    <3>3. CASE call[s].user \notin worker.users
      BY <1>7, <2>2, <3>1, <3>3, ZenonT(30) DEF EndPass
    <3> QED BY <3>2, <3>3, ZenonT(30)
  <2> QED BY <2>1, <2>2, ZenonT(30)
<1>8. CASE Restart
  <2>1. \A s \in Threads : call'[s].pc = "idle"
    BY SMTT(30), <1>8 DEF Restart, IdleCall
  <2>2. "idle" \notin {"poke", "wait"}
    BY SMTT(30)
  <2> QED BY <2>1, <2>2, ZenonT(30)
<1>9. ASSUME UNCHANGED updater \/ UNCHANGED <<call, channel, closed>>
      PROVE  WaitsOnLiveChannel'
  BY <1>9, ZenonT(30) DEF updater
<1>10. ASSUME \/ \E p \in Uploads, u \in Users, d \in Devices, k \in Keys \cup {Deleted}, n \in BOOLEAN :
                    UploadLocalDeviceKeys(p, u, d, k, n)
              \/ \E p \in Uploads : StoreLocalDeviceKeys(p) \/ EmitDeviceKeyChanges(p) \/ EmitFails(p)
              \/ \E u \in Users : GetUserDevices(u) \/ GetUserDevicesFails(u)
              \/ TakePoke \/ LoadStaleDeviceLists \/ RestarterTake \/ RestarterSend
              \/ PassTimesOut \/ ReadExistingKeys \/ StoreFetchedList \/ MarkFresh
              \/ EmitFetchedList \/ UpdateDeviceListFails \/ UNCHANGED vars
       PROVE  UNCHANGED updater \/ UNCHANGED <<call, channel, closed>>
  BY <1>10, ZenonT(30) DEF UploadLocalDeviceKeys, StoreLocalDeviceKeys, EmitDeviceKeyChanges, EmitFails,
       GetUserDevices, GetUserDevicesFails, TakePoke, LoadStaleDeviceLists, RestarterTake, RestarterSend,
       PassTimesOut, ReadExistingKeys, StoreFetchedList, MarkFresh, EmitFetchedList,
       UpdateDeviceListFails, vars
<1>11. Starter \in Threads /\ Calls \subseteq Threads
  BY ZenonT(30) DEF Threads
<1> HIDE DEF WaitsOnLiveChannel
<1> QED
  BY NextCases, <1>1, <1>2, <1>3, <1>4, <1>5, <1>6, <1>7, <1>8, <1>9, <1>10, <1>11, ZenonT(30)

-----------------------------------------------------------------------------
(* Announcements.                                                          *)

\* The key was announced, will be, or its announcement was lost.
Told(u, d, k) ==
    <<u, d, k>> \in announced \/ ToBeAnnounced(u, d, k) \/ u \in unannounced

\* The keys that the worker found in the table and compares with count as
\* told as well: it announces nothing for a device whose key is among them.
ToldInv ==
    /\ \A u \in Users, d \in Devices : rows[u][d].key \in Keys => Told(u, d, rows[u][d].key)
    /\ worker.pc \in {"store", "mark", "emit"} =>
         \A u \in Users, d \in Devices : u = worker.user /\ worker.existing[d] \in Keys =>
            Told(u, d, worker.existing[d])

\* Announcements are not taken back.
LEMMA AnnouncedGrows ==
    ASSUME [Next]_vars
    PROVE  announced \subseteq announced' /\ unannounced \subseteq unannounced'
<1>1. ASSUME NEW t \in Threads, \/ StoreUpdate(t) \/ ProduceUpdate(t) \/ MarkStale(t) \/ CallFails(t)
                                \/ AssignChannel(t) \/ Poke(t) \/ Return(t)
      PROVE  announced \subseteq announced' /\ unannounced \subseteq unannounced'
  BY <1>1, ZenonT(30) DEF StoreUpdate, ProduceUpdate, MarkStale, CallFails, AssignChannel, Poke, Return, tables
<1>2. ASSUME \/ \E u \in Users : GetUserDevices(u) \/ GetUserDevicesFails(u)
             \/ PassTimesOut \/ ReadExistingKeys \/ StoreFetchedList \/ MarkFresh
             \/ EmitFetchedList \/ UpdateDeviceListFails \/ EndPass
      PROVE  announced \subseteq announced' /\ unannounced \subseteq unannounced'
  BY <1>2, ZenonT(30) DEF GetUserDevices, GetUserDevicesFails, PassTimesOut, ReadExistingKeys, StoreFetchedList,
       MarkFresh, EmitFetchedList, UpdateDeviceListFails, EndPass, tables
<1>3. ASSUME \/ \E p \in Uploads, u \in Users, d \in Devices, k \in Keys \cup {Deleted}, n \in BOOLEAN :
                   UploadLocalDeviceKeys(p, u, d, k, n)
             \/ \E p \in Uploads : StoreLocalDeviceKeys(p) \/ EmitDeviceKeyChanges(p) \/ EmitFails(p)
             \/ \E t \in Calls : (\E ev \in net : Update(t, ev)) \/ (\E u \in Users : ManualUpdate(t, u))
             \/ \E u \in Users : StartNext(u)
             \/ TakePoke \/ LoadStaleDeviceLists \/ RestarterTake \/ RestarterSend \/ Restart \/ UNCHANGED vars
      PROVE  announced \subseteq announced' /\ unannounced \subseteq unannounced'
  BY <1>3, ZenonT(30) DEF UploadLocalDeviceKeys, StoreLocalDeviceKeys, EmitDeviceKeyChanges, EmitFails, Update,
       ManualUpdate, StartNext, TakePoke, LoadStaleDeviceLists, RestarterTake, RestarterSend, Restart,
       tables, vars
<1> QED
  BY NextCases, <1>1, <1>2, <1>3, ZenonT(30)

\* A call that stored an update keeps it until it announced it or failed.
LEMMA StoredCallStays ==
    ASSUME TypeOK, [Next]_vars, NEW t \in Calls, call[t].pc = "stored"
    PROVE  \/ call'[t] = call[t]
           \/ <<call[t].ev.user, call[t].ev.device, call[t].ev.key>> \in announced'
           \/ call[t].ev.user \in unannounced'
<1>0. TablesType /\ CallsType /\ WorkerType
  BY TypeParts
<1>1. t \in Threads /\ call[t].ev.user = call[t].user
  BY <1>0, ZenonT(30) DEF CallsType, Threads
<1>2. call[t].pc # "idle" /\ call[t].pc \notin {"unsequenced", "checked", "assign", "poke", "wait"}
  BY SMTT(30)
<1>a. ASSUME NEW s \in Threads, NEW p, NEW u, NEW e, NEW c, Moved(s, p, u, e, c), s # t
      PROVE  call'[t] = call[t]
  BY <1>1, <1>a, ZenonT(30) DEF Moved
<1>3. ASSUME NEW s \in Calls, NEW ev \in net, Update(s, ev)
      PROVE  call'[t] = call[t]
  <2>1. s \in Threads /\ ev \in Updates /\ s # t
    BY <1>0, <1>2, <1>3, ZenonT(30) DEF TablesType, Threads, Update
  <2> QED BY <1>0, <1>3, <1>a, <2>1, Moves, ZenonT(30)
<1>4. ASSUME NEW s \in Threads, NEW u \in Users, ManualUpdate(s, u) \/ (s = Starter /\ StartNext(u))
      PROVE  call'[t] = call[t]
  <2>1. s # t
    BY <1>2, <1>4, ZenonT(30) DEF ManualUpdate, StartNext
  <2> QED BY <1>0, <1>4, <1>a, <2>1, Moves, ZenonT(30)
<1>5. ASSUME NEW s \in Threads, StoreUpdate(s) \/ MarkStale(s) \/ Poke(s) \/ Return(s)
      PROVE  call'[t] = call[t]
  <2>1. s # t
    BY <1>2, <1>5, ZenonT(30) DEF StoreUpdate, MarkStale, Poke, Return
  <2> QED BY <1>0, <1>5, <1>a, <2>1, Moves, ZenonT(30)
<1>6. ASSUME NEW s \in Threads, AssignChannel(s)
      PROVE  call'[t] = call[t]
  <2>1. s # t
    BY <1>2, <1>6, ZenonT(30) DEF AssignChannel
  <2>2. PICK c : call' = [call EXCEPT ![s].pc = "poke", ![s].channel = c]
    BY <1>6, ZenonT(30) DEF AssignChannel
  <2> QED BY SMTT(30), <1>0, <1>1, <2>1, <2>2 DEF CallsType
<1>7. ASSUME NEW s \in Threads, ProduceUpdate(s) \/ CallFails(s)
      PROVE  \/ call'[t] = call[t]
             \/ <<call[t].ev.user, call[t].ev.device, call[t].ev.key>> \in announced'
             \/ call[t].ev.user \in unannounced'
  <2>1. CASE s = t
    BY <1>1, <1>7, <2>1, ZenonT(30) DEF ProduceUpdate, CallFails
  <2>2. CASE s # t
    BY <1>0, <1>7, <1>a, <2>2, Moves, ZenonT(30)
  <2> QED BY <2>1, <2>2, ZenonT(30)
<1>8. CASE Restart
  BY <1>1, <1>8, ZenonT(30) DEF Restart
<1>9. ASSUME UNCHANGED updater \/ UNCHANGED call
      PROVE  call'[t] = call[t]
  BY <1>9, ZenonT(30) DEF updater
<1>10. ASSUME \/ \E p \in Uploads, u \in Users, d \in Devices, k \in Keys \cup {Deleted}, n \in BOOLEAN :
                    UploadLocalDeviceKeys(p, u, d, k, n)
              \/ \E p \in Uploads : StoreLocalDeviceKeys(p) \/ EmitDeviceKeyChanges(p) \/ EmitFails(p)
              \/ \E u \in Users : GetUserDevices(u) \/ GetUserDevicesFails(u)
              \/ TakePoke \/ LoadStaleDeviceLists \/ RestarterTake \/ RestarterSend \/ EndPass
              \/ PassTimesOut \/ ReadExistingKeys \/ StoreFetchedList \/ MarkFresh
              \/ EmitFetchedList \/ UpdateDeviceListFails \/ UNCHANGED vars
       PROVE  UNCHANGED updater \/ UNCHANGED call
  BY <1>10, ZenonT(30) DEF UploadLocalDeviceKeys, StoreLocalDeviceKeys, EmitDeviceKeyChanges, EmitFails,
       GetUserDevices, GetUserDevicesFails, TakePoke, LoadStaleDeviceLists, RestarterTake, RestarterSend,
       EndPass, PassTimesOut, ReadExistingKeys, StoreFetchedList, MarkFresh, EmitFetchedList,
       UpdateDeviceListFails, vars
<1>11. Starter \in Threads /\ Calls \subseteq Threads
  BY ZenonT(30) DEF Threads
<1> QED
  BY NextCases, <1>3, <1>4, <1>5, <1>6, <1>7, <1>8, <1>9, <1>10, <1>11, ZenonT(30)

\* The worker keeps what it stored until it announced it or failed.
LEMMA StoredListStays ==
    ASSUME TypeOK, [Next]_vars, worker.pc \in {"mark", "emit"}
    PROVE  \/ worker'.pc \in {"mark", "emit"} /\ KeysAdded' = KeysAdded
           \/ KeysAdded \subseteq announced'
           \/ worker.user \in unannounced'
<1>0. worker \in WorkerRecords
  BY TypeParts, ZenonT(30) DEF WorkerType
<1>1. worker.pc \notin {"idle", "load", "users", "existing", "store"} /\ worker.pc # "store"
  BY SMTT(30)
<1>2. CASE MarkFresh
  <2>1. worker'.pc = "emit" /\ worker'.user = worker.user /\ worker'.resp = worker.resp
          /\ worker'.existing = worker.existing
    BY <1>0, <1>2 DEF MarkFresh, WorkerRecords
  <2> QED BY <2>1 DEF KeysAdded
<1>3. CASE EmitFetchedList \/ UpdateDeviceListFails
  BY <1>1, <1>3, ZenonT(30) DEF EmitFetchedList, UpdateDeviceListFails
<1>4. CASE Restart
  BY <1>4, ZenonT(30) DEF Restart
<1>5. ASSUME UNCHANGED updater \/ UNCHANGED worker
      PROVE  worker'.pc \in {"mark", "emit"} /\ KeysAdded' = KeysAdded
  BY <1>5, ZenonT(30) DEF updater, KeysAdded
<1>6. ASSUME \/ \E u \in Users : GetUserDevices(u) \/ GetUserDevicesFails(u)
             \/ TakePoke \/ LoadStaleDeviceLists \/ EndPass \/ PassTimesOut \/ ReadExistingKeys \/ StoreFetchedList
      PROVE  FALSE
  BY <1>1, <1>6, ZenonT(30) DEF GetUserDevices, GetUserDevicesFails, TakePoke, LoadStaleDeviceLists, EndPass,
       PassTimesOut, ReadExistingKeys, StoreFetchedList
<1>7. ASSUME \/ \E p \in Uploads, u \in Users, d \in Devices, k \in Keys \cup {Deleted}, n \in BOOLEAN :
                   UploadLocalDeviceKeys(p, u, d, k, n)
             \/ \E p \in Uploads : StoreLocalDeviceKeys(p) \/ EmitDeviceKeyChanges(p) \/ EmitFails(p)
             \/ \E t \in Calls : (\E ev \in net : Update(t, ev)) \/ (\E u \in Users : ManualUpdate(t, u))
             \/ \E t \in Threads : \/ StoreUpdate(t) \/ ProduceUpdate(t) \/ MarkStale(t) \/ CallFails(t)
                                  \/ AssignChannel(t) \/ Poke(t) \/ Return(t)
             \/ \E u \in Users : StartNext(u)
             \/ RestarterTake \/ RestarterSend \/ UNCHANGED vars
      PROVE  UNCHANGED updater \/ UNCHANGED worker
  BY <1>7, ZenonT(30) DEF UploadLocalDeviceKeys, StoreLocalDeviceKeys, EmitDeviceKeyChanges, EmitFails,
       Update, ManualUpdate, StoreUpdate, ProduceUpdate, MarkStale, CallFails, AssignChannel, Poke, Return,
       StartNext, RestarterTake, RestarterSend, vars
<1> QED
  BY NextCases, <1>2, <1>3, <1>4, <1>5, <1>6, <1>7, ZenonT(30)

\* What is told stays told.
LEMMA ToldStays ==
    ASSUME TypeOK, [Next]_vars, NEW u \in Users, NEW d \in Devices, NEW k, Told(u, d, k)
    PROVE  Told(u, d, k)'
<1>1. CASE <<u, d, k>> \in announced \/ u \in unannounced
  BY <1>1, AnnouncedGrows, ZenonT(30) DEF Told
<1>2. ASSUME NEW t \in Calls, call[t].pc = "stored", call[t].ev.user = u, call[t].ev.device = d, call[t].ev.key = k
      PROVE  Told(u, d, k)'
  BY <1>2, StoredCallStays, ZenonT(30) DEF Told, ToBeAnnounced
<1>3. CASE worker.pc \in {"mark", "emit"} /\ <<u, d, k>> \in KeysAdded
  <2>1. u = worker.user
    BY <1>3 DEF KeysAdded
  <2> QED BY <1>3, <2>1, StoredListStays, ZenonT(30) DEF Told, ToBeAnnounced
<1> QED
  BY <1>1, <1>2, <1>3, ZenonT(30) DEF Told, ToBeAnnounced

\* Every step keeps the keys of the table told.
LEMMA ToldStep ==
    ASSUME TypeOK, TypeOK', ToldInv, [Next]_vars
    PROVE  ToldInv'
<1>0. TablesType /\ CallsType /\ WorkerType
  BY SMTT(30), TypeParts
<1>a. Deleted \notin Keys /\ NoRow.key \notin Keys
  <2>1. "deleted" \notin Keys /\ "no row" \notin Keys
    BY DeviceListsAssumption, ZenonT(30)
  <2> QED BY ZenonT(30), <2>1 DEF Deleted, NoRow
<1>b. ASSUME UNCHANGED rows
      PROVE  \A u \in Users, d \in Devices : rows'[u][d].key \in Keys => Told(u, d, rows[u][d].key)'
  <2>1. ASSUME NEW u \in Users, NEW d \in Devices, rows'[u][d].key \in Keys
        PROVE  Told(u, d, rows[u][d].key)'
    <3>1. PICK k : k = rows[u][d].key
      BY ZenonT(30)
    <3>2. Told(u, d, k)
      BY <1>b, <2>1, <3>1, ZenonT(30) DEF ToldInv
    <3>3. Told(u, d, k)'
      BY <3>2, ToldStays, ZenonT(30)
    <3> QED BY <1>b, <3>1, <3>3, ZenonT(30)
  <2> QED BY <2>1, ZenonT(30)
<1>c. ASSUME worker.pc \in {"store", "mark", "emit"}, worker'.user = worker.user, worker'.existing = worker.existing
      PROVE  \A u \in Users, d \in Devices : u = worker'.user /\ worker'.existing[d] \in Keys =>
                Told(u, d, worker.existing[d])'
  <2>1. ASSUME NEW u \in Users, NEW d \in Devices, u = worker'.user, worker'.existing[d] \in Keys
        PROVE  Told(u, d, worker.existing[d])'
    <3>1. PICK k : k = worker.existing[d]
      BY ZenonT(30)
    <3>2. Told(u, d, k)
      BY <1>c, <2>1, <3>1, ZenonT(30) DEF ToldInv
    <3>3. Told(u, d, k)'
      BY <3>2, ToldStays, ZenonT(30)
    <3> QED BY <1>c, <3>1, <3>3, ZenonT(30)
  <2> QED BY <2>1, ZenonT(30)
<1>1. ASSUME UNCHANGED <<rows, worker>>
      PROVE  ToldInv'
  BY <1>1, <1>b, <1>c, ZenonT(30) DEF ToldInv
<1>2. ASSUME UNCHANGED rows, worker'.pc \notin {"store", "mark", "emit"}
      PROVE  ToldInv'
  BY <1>2, <1>b, ZenonT(30) DEF ToldInv
<1>3. ASSUME NEW t \in Threads, StoreUpdate(t)
      PROVE  ToldInv'
  <2>1. /\ call[t].ev \in Updates /\ t \in Calls
        /\ Moved(t, "stored", call[t].user, call[t].ev, NoChannel)
    BY <1>0, <1>3, CallFacts, Moves, ZenonT(30) DEF CallsType, StoreUpdate
  <2>2. PICK w \in Users, e \in Devices, k \in KeyValues : w = call[t].ev.user /\ e = call[t].ev.device /\ k = call[t].ev.key
    BY SMTT(30), <2>1 DEF Updates
  <2>3. rows'[w][e].key = k /\ \A u \in Users, d \in Devices : <<u, d>> # <<w, e>> => rows'[u][d] = rows[u][d]
    BY ZenonT(30), <1>0, <1>3, <2>2 DEF TablesType, StoreUpdate
  <2>4. Told(w, e, k)'
    BY <2>1, <2>2, ZenonT(30) DEF Told, ToBeAnnounced, Moved
  <2>5. ASSUME NEW u \in Users, NEW d \in Devices, rows'[u][d].key \in Keys
        PROVE  Told(u, d, rows[u][d].key)'
    <3>1. PICK j : j = rows'[u][d].key
      BY ZenonT(30)
    <3>2. CASE u = w /\ d = e
      BY <2>3, <2>4, <3>1, <3>2, ZenonT(30)
    <3>3. CASE ~(u = w /\ d = e)
      <4>1. rows'[u][d] = rows[u][d]
        BY <2>3, <3>3
      <4>2. Told(u, d, j)
        BY <2>5, <3>1, <4>1, ZenonT(30) DEF ToldInv
      <4>3. Told(u, d, j)'
        BY <4>2, ToldStays, ZenonT(30)
      <4> QED BY <3>1, <4>3, ZenonT(30)
    <3> QED BY <3>2, <3>3, ZenonT(30)
  <2>6. worker' = worker
    BY <1>3, ZenonT(30) DEF StoreUpdate
  <2> QED BY <1>c, <2>5, <2>6, ZenonT(30) DEF ToldInv
<1>4. CASE StoreFetchedList
  <2>1. worker.pc = "store" /\ worker'.pc = "mark" /\ worker'.user = worker.user /\ worker'.resp = worker.resp
          /\ worker'.existing = worker.existing /\ worker.user \in Users /\ worker.resp \in Responses
    BY <1>0, <1>4 DEF WorkerType, StoreFetchedList, WorkerRecords
  <2>2. PICK w \in Users : w = worker.user
    BY <2>1, ZenonT(30)
  <2>3. rows'[w] = FetchedRows(worker.resp) /\ \A u \in Users : u # w => rows'[u] = rows[u]
    BY SMTT(30), <1>0, <1>4, <2>2 DEF TablesType, StoreFetchedList
  <2>4. ASSUME NEW d \in Devices, rows'[w][d].key \in Keys
        PROVE  Told(w, d, rows[w][d].key)'
    <3>1. d \in worker.resp.devices /\ rows'[w][d].key = worker.resp.key[d]
      <4>1. CASE d \in worker.resp.devices
        BY <2>3, <4>1 DEF FetchedRows
      <4>2. CASE d \notin worker.resp.devices
        BY <1>a, <2>3, <2>4, <4>2, ZenonT(30) DEF FetchedRows
      <4> QED BY <4>1, <4>2, ZenonT(30)
    <3>2. PICK k : k = worker.resp.key[d]
      BY ZenonT(30)
    <3>3. CASE Unchanged(worker.existing[d], worker.resp.key[d])
      <4>1. worker.existing[d] = k
        BY <3>2, <3>3, ZenonT(30) DEF Unchanged
      <4>2. worker.pc \in {"store", "mark", "emit"}
        BY <2>1
      <4>3. Told(w, d, k)
        BY <2>2, <2>4, <3>1, <3>2, <4>1, <4>2, ZenonT(30) DEF ToldInv
      <4>4. Told(w, d, k)'
        BY <4>3, ToldStays, ZenonT(30)
      <4> QED BY <3>1, <3>2, <4>4, ZenonT(30)
    <3>4. CASE ~Unchanged(worker.existing[d], worker.resp.key[d])
      <4>1. <<w, d, k>> \in KeysAdded
        BY <2>2, <3>1, <3>2, <3>4, ZenonT(30) DEF KeysAdded
      <4>2. KeysAdded' = KeysAdded
        BY SMTT(30), <2>1 DEF KeysAdded
      <4>3. worker'.pc \in {"mark", "emit"}
        BY <2>1
      <4>4. Told(w, d, k)'
        BY <4>1, <4>2, <4>3, ZenonT(30) DEF Told, ToBeAnnounced
      <4> QED BY <3>1, <3>2, <4>4, ZenonT(30)
    <3> QED BY <3>3, <3>4, ZenonT(30)
  <2>5. ASSUME NEW u \in Users, NEW d \in Devices, rows'[u][d].key \in Keys, u # w
        PROVE  Told(u, d, rows[u][d].key)'
    <3>1. PICK j : j = rows'[u][d].key
      BY ZenonT(30)
    <3>2. Told(u, d, j)
      BY <2>3, <2>5, <3>1, ZenonT(30) DEF ToldInv
    <3>3. Told(u, d, j)'
      BY <3>2, ToldStays, ZenonT(30)
    <3> QED BY <3>1, <3>3, ZenonT(30)
  <2>6. worker.pc \in {"store", "mark", "emit"}
    BY <2>1
  <2> QED BY <1>c, <2>1, <2>4, <2>5, <2>6, ZenonT(30) DEF ToldInv
<1>5. CASE ReadExistingKeys
  <2>1. worker.pc = "existing" /\ worker'.pc = "store" /\ worker'.user = worker.user /\ worker.user \in Users
          /\ worker'.existing \in {SelectDeviceKeysJSON(worker.user), NoResponse.key}
    BY ZenonT(30), <1>0, <1>5 DEF WorkerType, ReadExistingKeys, WorkerRecords
  <2>2. UNCHANGED rows
    BY <1>5, ZenonT(30) DEF ReadExistingKeys, tables
  <2>3. ASSUME NEW d \in Devices, worker'.existing[d] \in Keys
        PROVE  worker'.existing[d] = rows[worker.user][d].key
    <3>1. CASE worker'.existing = NoResponse.key
      <4>1. worker'.existing[d] = Deleted
        BY <3>1 DEF NoResponse
      <4> QED BY <1>a, <2>3, <4>1, ZenonT(30)
    <3>2. CASE worker'.existing = SelectDeviceKeysJSON(worker.user)
      <4>1. worker'.existing[d] = Deleted \/ worker'.existing[d] = rows[worker.user][d].key
        BY <3>2 DEF SelectDeviceKeysJSON
      <4> QED BY <1>a, <2>3, <4>1, ZenonT(30)
    <3> QED BY <2>1, <3>1, <3>2
  <2>4. ASSUME NEW u \in Users, NEW d \in Devices, u = worker'.user, worker'.existing[d] \in Keys
        PROVE  Told(u, d, worker.existing[d])'
    <3>1. PICK k : k = worker'.existing[d]
      BY ZenonT(30)
    <3>2. Told(u, d, k)
      BY <2>1, <2>3, <2>4, <3>1, ZenonT(30) DEF ToldInv
    <3>3. Told(u, d, k)'
      BY <3>2, ToldStays, ZenonT(30)
    <3> QED BY <3>1, <3>3, ZenonT(30)
  <2> QED BY <1>b, <2>2, <2>4, ZenonT(30) DEF ToldInv
<1>6. CASE MarkFresh
  <2>1. worker.pc = "mark" /\ worker'.user = worker.user /\ worker'.existing = worker.existing
    BY SMTT(30), <1>0, <1>6 DEF WorkerType, MarkFresh, WorkerRecords
  <2>2. worker.pc \in {"store", "mark", "emit"} /\ UNCHANGED rows
    BY SMTT(30), <1>6, <2>1 DEF MarkFresh
  <2> QED BY <1>b, <1>c, <2>1, <2>2, ZenonT(30) DEF ToldInv
<1>7. CASE \/ TakePoke \/ LoadStaleDeviceLists \/ \E u \in Users : GetUserDevices(u) \/ GetUserDevicesFails(u)
           \/ PassTimesOut \/ EmitFetchedList \/ UpdateDeviceListFails \/ EndPass \/ Restart
  <2>1. IdleWorker.pc = "idle"
    BY DEF IdleWorker
  <2>2. CASE TakePoke \/ LoadStaleDeviceLists \/ EndPass \/ Restart
    <3>1. worker'.pc \in {"idle", "load", "users"}
      BY ZenonT(30), <1>0, <2>1, <2>2 DEF WorkerType, TakePoke, LoadStaleDeviceLists, EndPass, Restart, WorkerRecords
    <3>2. UNCHANGED rows
      BY <2>2, ZenonT(30) DEF TakePoke, LoadStaleDeviceLists, EndPass, Restart, tables
    <3>3. worker'.pc \notin {"store", "mark", "emit"}
      BY <3>1
    <3> QED BY <1>2, <3>2, <3>3, ZenonT(30)
  <2>3. CASE (\E u \in Users : GetUserDevices(u) \/ GetUserDevicesFails(u)) \/ PassTimesOut
    <3>1. worker'.pc \in {"existing", "users"}
      BY ZenonT(30), <1>0, <2>3 DEF WorkerType, GetUserDevices, GetUserDevicesFails, WithFailure, PassTimesOut, WorkerRecords
    <3>2. UNCHANGED rows
      BY <2>3, ZenonT(30) DEF GetUserDevices, GetUserDevicesFails, PassTimesOut, tables
    <3>3. worker'.pc \notin {"store", "mark", "emit"}
      BY SMTT(30), <3>1
    <3> QED BY <1>2, <3>2, <3>3, ZenonT(30)
  <2>4. CASE EmitFetchedList \/ UpdateDeviceListFails
    <3>1. worker'.pc = "users"
      BY ZenonT(30), <1>0, <2>4 DEF WorkerType, EmitFetchedList, UpdateDeviceListFails, NextUser, WorkerRecords
    <3>2. UNCHANGED rows
      BY <2>4, ZenonT(30) DEF EmitFetchedList, UpdateDeviceListFails
    <3>3. worker'.pc \notin {"store", "mark", "emit"}
      BY <3>1
    <3> QED BY <1>2, <3>2, <3>3, ZenonT(30)
  <2> QED BY <1>7, <2>2, <2>3, <2>4, ZenonT(30)
<1>8. ASSUME \/ \E p \in Uploads, u \in Users, d \in Devices, k \in Keys \cup {Deleted}, n \in BOOLEAN :
                   UploadLocalDeviceKeys(p, u, d, k, n)
             \/ \E p \in Uploads : StoreLocalDeviceKeys(p) \/ EmitDeviceKeyChanges(p) \/ EmitFails(p)
             \/ \E t \in Calls : (\E ev \in net : Update(t, ev)) \/ (\E u \in Users : ManualUpdate(t, u))
             \/ \E t \in Threads : \/ ProduceUpdate(t) \/ MarkStale(t) \/ CallFails(t)
                                  \/ AssignChannel(t) \/ Poke(t) \/ Return(t)
             \/ \E u \in Users : StartNext(u)
             \/ RestarterTake \/ RestarterSend \/ UNCHANGED vars
      PROVE  UNCHANGED <<rows, worker>>
  BY <1>8, ZenonT(30) DEF UploadLocalDeviceKeys, StoreLocalDeviceKeys, EmitDeviceKeyChanges, EmitFails,
       Update, ManualUpdate, ProduceUpdate, MarkStale, CallFails, AssignChannel, Poke, Return,
       StartNext, RestarterTake, RestarterSend, vars, tables, updater
<1> QED
  BY NextCases, <1>1, <1>3, <1>4, <1>5, <1>6, <1>7, <1>8, ZenonT(30)

-----------------------------------------------------------------------------
(* The theorems.                                                           *)

\* The inductive invariant.
IInv == TypeOK /\ AttendedInv /\ WaitsOnLiveChannel /\ ToldInv

\* It holds when the server starts.
LEMMA InitIInv == Init => IInv
<1> SUFFICES ASSUME Init
             PROVE  IInv
  OBVIOUS
<1> USE DEF Init
<1>1. NoRow \in Rows /\ NoRow.key \notin Keys
  <2>1. "no row" \notin Keys
    BY DeviceListsAssumption, ZenonT(30)
  <2> QED BY ZenonT(30), <2>1 DEF Rows, NoRow
<1>2. IdleUpload \in UploadRecords /\ IdleUpload.pc = "idle"
  BY SMTT(30) DEF IdleUpload, UploadRecords
<1>3. IdleCall \in CallRecords /\ IdleCall.pc = "idle"
  BY ZenonT(30) DEF IdleCall, CallRecords
<1>4. IdleWorker \in WorkerRecords /\ IdleWorker.pc = "idle" /\ IdleWorker.resp.devices = {}
  <2>1. NoResponse \in Responses /\ NoResponse.devices = {} /\ NoResponse.key \in [Devices -> KeyValues]
    BY Bounds DEF NoResponse, Responses, KeyValues
  <2> QED BY ZenonT(30), <2>1 DEF IdleWorker, WorkerRecords
<1>5. TablesType
  <2>1. upload \in [Uploads -> UploadRecords] /\ \A p \in Uploads : upload[p].pc = "idle"
    BY SMTT(30), <1>2
  <2>2. \A p \in Uploads : upload[p].pc # "emit"
    BY SMTT(30), <2>1
  <2>3. remote \in [Users -> [Devices -> Rows]] /\ rows \in [Users -> [Devices -> Rows]]
    BY SMTT(30), <1>1
  <2> QED BY <2>1, <2>2, <2>3, Bounds, ZenonT(30) DEF TablesType
<1>6. CallsType
  <2>1. call \in [Threads -> CallRecords] /\ \A t \in Threads : call[t].pc = "idle"
    BY SMTT(30), <1>3
  <2>2. \A t \in Threads : call[t].pc \notin {"checked", "stored", "unsequenced"}
    BY SMTT(30), <2>1
  <2>3. channel \in [Users -> ChannelIDs \cup {NoChannel}]
    BY SMTT(30)
  <2> QED BY <2>1, <2>2, <2>3, Bounds, ZenonT(30) DEF CallsType
<1>7. WorkerType
  BY SMTT(30), <1>4 DEF WorkerType
<1>8. AttendedInv
  BY SMTT(30) DEF AttendedInv
<1>9. WaitsOnLiveChannel
  BY SMTT(30), <1>3 DEF WaitsOnLiveChannel
<1>10. ToldInv
  BY SMTT(30), <1>1, <1>4 DEF ToldInv
<1> QED
  BY <1>5, <1>6, <1>7, <1>8, <1>9, <1>10, TypeParts, ZenonT(30) DEF IInv

\* Every step keeps it.
LEMMA NextIInv == IInv /\ [Next]_vars => IInv'
<1> SUFFICES ASSUME IInv, [Next]_vars
             PROVE  IInv'
  OBVIOUS
<1>1. TypeOK /\ AttendedInv /\ WaitsOnLiveChannel /\ ToldInv
  BY DEF IInv
<1>2. TablesType' /\ CallsType' /\ WorkerType'
  BY <1>1, TablesStep, CallsStep, WorkerTypeStep, ZenonT(30)
<1>3. TypeOK'
  BY <1>2, ZenonT(30) DEF TypeOK, TablesType, CallsType, WorkerType
<1>4. AttendedInv' /\ WaitsOnLiveChannel' /\ ToldInv'
  BY <1>1, <1>3, AttendedStep, WaitsStep, ToldStep, ZenonT(30)
<1> QED
  BY SMTT(30), <1>3, <1>4 DEF IInv

\* So it always holds.
LEMMA Invariance == Spec => []IInv
BY InitIInv, NextIInv, PTL DEF Spec

\* Variables keep their types; the worker's channel never holds more messages
\* than its capacity.
THEOREM Typed == Spec => []TypeOK
<1>1. IInv => TypeOK
  BY ZenonT(30) DEF IInv
<1> QED
  BY <1>1, Invariance, PTL

\* notifyWorkers, processServer, the restarter and Start never leave a stale
\* list without somebody who will look at it, whatever fails and whenever the
\* server restarts.
THEOREM StaleListsAreAttended == Spec => []StaleIsAttended
<1>1. IInv => StaleIsAttended
  BY ZenonT(30) DEF IInv, AttendedInv, Attended, StaleIsAttended
<1> QED
  BY <1>1, Invariance, PTL

\* A call of notifyWorkers waits on the channel that assignChannel gave out
\* last for its user, or on one that clearChannel closed.
THEOREM WaitsAreAnswered == Spec => []WaitsOnLiveChannel
<1>1. IInv => WaitsOnLiveChannel
  BY ZenonT(30) DEF IInv
<1> QED
  BY <1>1, Invariance, PTL

\* A key in the table of another server's devices was announced or is about
\* to be, unless an error or a restart came between storing and announcing.
THEOREM StoredKeysAreAnnounced == Spec => []KeysAreAnnounced
<1>1. IInv => KeysAreAnnounced
  BY ZenonT(30) DEF IInv, ToldInv, Told, KeysAreAnnounced
<1> QED
  BY <1>1, Invariance, PTL
=============================================================================
