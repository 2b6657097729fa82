----------------------------- MODULE SyncStreams -----------------------------
(***************************************************************************)
(* The sync API (syncapi/): the consumers that write updates to the        *)
(* stream tables, the stream providers that remember the newest position,  *)
(* the notifier that wakes long-polling requests, and the /sync requests   *)
(* of one device, which follow the next_batch token they were last given.  *)
(*                                                                         *)
(* An update is a position of one of the streams (its "kind").  It is      *)
(* either for the device of this model ("mine") or for someone else: then  *)
(* it only takes a position.  Room membership, filters and the contents    *)
(* of the updates are abstracted: what a client is told about a position   *)
(* of the PDU stream may be a state block and a limited timeline.          *)
(* Every update is a row of its own, with an id from a sequence of its     *)
(* stream (Postgres draws some of them from one sequence, which only       *)
(* leaves gaps); receipts and account data that replace an older row are   *)
(* not told apart from new ones.                                           *)
(* The typing and device list streams and peeking are left out.            *)
(***************************************************************************)
EXTENDS Integers, Sequences, FiniteSetsExt

CONSTANTS
    KindOrder,     \* the streams, in the order OnIncomingSyncRequest asks them
    Requests,      \* the /sync requests the device may have open at once
    FailingReads,  \* the streams whose database reads may fail
    MaxItems,      \* bound: updates written to all the streams together
    MaxFaults      \* bound: restarts, failed reads and lost responses together

Kinds == {KindOrder[i] : i \in 1..Len(KindOrder)}

ASSUME KindAssumption ==
    /\ KindOrder \in Seq({"pdu", "receipt", "invite", "toDevice", "account"})
    /\ \A i, j \in 1..Len(KindOrder) : KindOrder[i] = KindOrder[j] => i = j
    /\ "receipt" \in Kinds => "pdu" \in Kinds
    /\ FailingReads \subseteq Kinds
ASSUME BoundAssumption == MaxItems \in Nat /\ MaxFaults \in Nat

VARIABLES
    rows,       \* [kind -> positions in the stream's table]
    mine,       \* [kind -> positions of the updates for this device], history
    sequence,   \* [kind -> last id drawn from the table's sequence]
    consumer,   \* [kind -> where its consumer is with the current message]
    latest,     \* [kind -> StreamProvider.latest]
    currPos,    \* Notifier.currPos
    hasStream,  \* the notifier has a UserDeviceStream for the device
    streamPos,  \* UserDeviceStream.pos
    pc,         \* [request -> control state]
    since,      \* [request -> the token it was sent with]
    upTo,       \* [request -> currentPos]
    listening,  \* [request -> it holds a UserDeviceStreamListener]
    closed,     \* [request -> the channel it selects on is closed]
    at,         \* [request -> index in KindOrder of the stream it asks next]
    items,      \* [request -> [kind -> positions put in the response]]
    nextBatch,  \* [request -> Response.NextBatch]
    token,      \* the next_batch token the client holds
    received,   \* [kind -> positions the client was told about], history
    faults      \* restarts, failed reads and lost responses so far

tables    == <<rows, mine, sequence>>
notifier  == <<currPos, hasStream, streamPos>>
requests  == <<pc, since, upTo, listening, closed, at, items, nextBatch>>
client    == <<token, received>>
vars      == <<tables, consumer, latest, notifier, requests, client, faults>>

Tokens    == [Kinds -> Nat]
NoItems   == [k \in Kinds |-> {}]
ZeroToken == [k \in Kinds |-> 0]

\* The largest element of a finite set of positions, 0 for the empty set.
MaxOf(S) == IF S = {} THEN 0 ELSE CHOOSE p \in S : \A q \in S : q <= p

IsAfter(t, u) == \E k \in Kinds : t[k] > u[k]

\* Mutant: the token is not updated.
ApplyUpdatesForgotten(t, u) == [k \in Kinds |-> IF u[k] < t[k] THEN u[k] ELSE t[k]]

ApplyUpdates(t, u) == [k \in Kinds |-> IF u[k] > t[k] THEN u[k] ELSE t[k]]

IsEmpty(t) == \A k \in Kinds : t[k] = 0

TypeOK ==
    /\ rows \in [Kinds -> SUBSET Nat]
    /\ mine \in [Kinds -> SUBSET Nat]
    /\ sequence \in Tokens
    /\ consumer \in [Kinds -> {"idle", "stored", "advanced"}]
    /\ latest \in Tokens /\ currPos \in Tokens
    /\ hasStream \in BOOLEAN /\ streamPos \in Tokens
    /\ pc \in [Requests -> {"idle", "listen", "channel", "select", "read",
                            "clean", "position", "respond"}]
    /\ since \in [Requests -> Tokens] /\ upTo \in [Requests -> Tokens]
    /\ listening \in [Requests -> BOOLEAN] /\ closed \in [Requests -> BOOLEAN]
    /\ at \in [Requests -> 1..Len(KindOrder) + 1]
    /\ items \in [Requests -> [Kinds -> SUBSET Nat]]
    /\ nextBatch \in [Requests -> Tokens]
    /\ token \in Tokens /\ received \in [Kinds -> SUBSET Nat]
    /\ faults \in 0..MaxFaults

Init ==
    /\ rows = NoItems /\ mine = NoItems /\ sequence = ZeroToken
    /\ consumer = [k \in Kinds |-> "idle"]
    /\ latest = ZeroToken /\ currPos = ZeroToken
    /\ hasStream = FALSE /\ streamPos = ZeroToken
    /\ pc = [r \in Requests |-> "idle"]
    /\ since = [r \in Requests |-> ZeroToken]
    /\ upTo = [r \in Requests |-> ZeroToken]
    /\ listening = [r \in Requests |-> FALSE]
    /\ closed = [r \in Requests |-> FALSE]
    /\ at = [r \in Requests |-> 1]
    /\ items = [r \in Requests |-> NoItems]
    /\ nextBatch = [r \in Requests |-> ZeroToken]
    /\ token = ZeroToken /\ received = NoItems
    /\ faults = 0

-----------------------------------------------------------------------------
(* The consumers.  Each topic has one goroutine, which stores the update,   *)
(* advances the stream provider and tells the notifier, in that order.      *)

\* Room events and invites come from the room server's output log, each of the
\* others from a log of its own.
Topic(k) == IF k = "invite" THEN "pdu" ELSE k

Written == MapThenSumSet(LAMBDA k : sequence[k], Kinds)

\* The message is stored under the next id of the table's sequence.  `forMe`
\* says whether the update concerns the device.
Store(k, forMe) ==
    /\ k \in Kinds
    /\ \A j \in Kinds : Topic(j) = Topic(k) => consumer[j] = "idle"
    /\ Written < MaxItems
    /\ sequence' = [sequence EXCEPT ![k] = @ + 1]
    /\ rows' = [rows EXCEPT ![k] = @ \cup {sequence[k] + 1}]
    /\ mine' = [mine EXCEPT ![k] = IF forMe THEN @ \cup {sequence[k] + 1} ELSE @]
    /\ consumer' = [consumer EXCEPT ![k] = "stored"]
    /\ UNCHANGED <<latest, notifier, requests, client, faults>>

OnNewRoomEvent(forMe) == Store("pdu", forMe)
OnNewInviteEvent(forMe) == Store("invite", forMe)
OnReceiptMessage(forMe) == Store("receipt", forMe)
OnSendToDeviceMessage(forMe) == Store("toDevice", forMe)
OnAccountDataMessage(forMe) == Store("account", forMe)

OnMessage ==
    \E forMe \in BOOLEAN :
        \/ OnNewRoomEvent(forMe) \/ OnNewInviteEvent(forMe)
        \/ OnReceiptMessage(forMe) \/ OnSendToDeviceMessage(forMe)
        \/ OnAccountDataMessage(forMe)

Advance(k) ==
    /\ consumer[k] = "stored"
    /\ latest' = [latest EXCEPT ![k] = IF sequence[k] > @ THEN sequence[k] ELSE @]
    /\ consumer' = [consumer EXCEPT ![k] = "advanced"]
    /\ UNCHANGED <<tables, notifier, requests, client, faults>>

\* UserDeviceStream.Broadcast: the position is replaced, and the channel that
\* the requests select on is closed.
Broadcast(pos) ==
    /\ streamPos' = pos
    /\ closed' = [r \in Requests |-> closed[r] \/ pc[r] = "select"]

\* removeEmptyUserStreams: at most every so often, the streams nobody has
\* listened to for a while are dropped.
RemoveEmptyUserStreams(swept) ==
    swept => hasStream /\ \A r \in Requests : ~listening[r]

\* The position that OnNew... tells the device's stream.  All of them pass on
\* n.currPos except OnNewAccountData, which passes on its own posUpdate.
BroadcastPosition(k, posUpdate, newPos) ==
    IF k = "account" THEN posUpdate ELSE newPos

\* OnNewEvent, OnNewInvite, OnNewReceipt, OnNewSendToDevice, OnNewAccountData.
\* Only OnNewEvent sweeps the streams, before it wakes anyone.
OnNew(k, swept) ==
    LET posUpdate == [ZeroToken EXCEPT ![k] = sequence[k]]
        newPos    == ApplyUpdates(currPos, posUpdate)
    IN  /\ consumer[k] = "advanced"
        /\ swept => k = "pdu"
        /\ RemoveEmptyUserStreams(swept)
        /\ currPos' = newPos
        /\ hasStream' = (hasStream /\ ~swept)
        /\ IF hasStream' /\ sequence[k] \in mine[k]
              THEN Broadcast(BroadcastPosition(k, posUpdate, newPos))
              ELSE UNCHANGED <<streamPos, closed>>
        /\ consumer' = [consumer EXCEPT ![k] = "idle"]
        /\ UNCHANGED <<tables, latest, pc, since, upTo, listening, at, items,
                       nextBatch, client, faults>>

-----------------------------------------------------------------------------
(* The /sync requests: OnIncomingSyncRequest.                               *)

\* The request arrives with the client's token.  It is answered at once when
\* there is something newer than the token, when timeout=0 or when the full
\* state is wanted (`immediate`).
OnIncomingSyncRequest(r, immediate) ==
    /\ pc[r] = "idle"
    /\ since' = [since EXCEPT ![r] = token]
    /\ upTo' = [upTo EXCEPT ![r] = currPos]
    /\ pc' = [pc EXCEPT ![r] =
                 IF IsAfter(currPos, token) \/ immediate THEN "read" ELSE "listen"]
    /\ UNCHANGED <<tables, consumer, latest, notifier, listening, closed, at,
                   items, nextBatch, client, faults>>

\* Notifier.GetListener: sweep, fetch or make the device's stream, count us in.
GetListener(r, swept) ==
    /\ pc[r] = "listen"
    /\ RemoveEmptyUserStreams(swept)
    /\ streamPos' = IF hasStream /\ ~swept THEN streamPos ELSE currPos
    /\ hasStream' = TRUE
    /\ listening' = [listening EXCEPT ![r] = TRUE]
    /\ pc' = [pc EXCEPT ![r] = "channel"]
    /\ UNCHANGED <<tables, consumer, latest, currPos, since, upTo, closed, at,
                   items, nextBatch, client, faults>>

\* Mutant: the listener always waits for the next broadcast.
GetNotifyChannelUnchecked(r) ==
    /\ pc[r] = "channel"
    /\ closed' = [closed EXCEPT ![r] = FALSE]
    /\ pc' = [pc EXCEPT ![r] = "select"]
    /\ UNCHANGED <<tables, consumer, latest, notifier, since, upTo, listening,
                   at, items, nextBatch, client, faults>>

GetNotifyChannel(r) ==
    /\ pc[r] = "channel"
    /\ closed' = [closed EXCEPT ![r] = IsAfter(streamPos, since[r])]
    /\ pc' = [pc EXCEPT ![r] = "select"]
    /\ UNCHANGED <<tables, consumer, latest, notifier, since, upTo, listening,
                   at, items, nextBatch, client, faults>>

WakeUp(r) ==
    /\ pc[r] = "select" /\ closed[r]
    /\ upTo' = [upTo EXCEPT ![r] = ApplyUpdates(@, streamPos)]
    /\ pc' = [pc EXCEPT ![r] = "read"]
    /\ UNCHANGED <<tables, consumer, latest, notifier, since, listening, closed,
                   at, items, nextBatch, client, faults>>

\* The timer fires or the caller is gone.
GiveUp(r) ==
    /\ pc[r] = "select"
    /\ nextBatch' = [nextBatch EXCEPT ![r] = since[r]]
    /\ pc' = [pc EXCEPT ![r] = "respond"]
    /\ UNCHANGED <<tables, consumer, latest, notifier, since, upTo, listening,
                   closed, at, items, client, faults>>

\* The device's updates with from < position <= to.
InRange(k, from, to) == {p \in rows[k] \cap mine[k] : from < p /\ p <= to}

\* What a stream provider adds to the response, and the position it returns.
\* The PDU stream reads backwards when `from` is newer than `to`.
PDUSync(from, to) ==
    [items |-> IF from > to THEN InRange("pdu", to, from)
                            ELSE InRange("pdu", from, to),
     pos   |-> to]

\* RoomReceiptsAfter has no upper bound.
ReceiptSync(from, to) ==
    LET found == InRange("receipt", from, sequence["receipt"])
    IN  [items |-> found, pos |-> IF found = {} THEN to ELSE MaxOf(found)]

InviteSync(from, to) == [items |-> InRange("invite", from, to), pos |-> to]

SendToDeviceSync(from, to) ==
    LET found == InRange("toDevice", from, to)
    IN  [items |-> found, pos |-> IF found = {} THEN to ELSE MaxOf(found)]

AccountDataSync(from, to) == [items |-> InRange("account", from, to), pos |-> to]

\* AccountDataStreamProvider.CompleteSync asks the user API for everything,
\* and only then for the position to return.
AccountDataCompleteSync == [items |-> rows["account"] \cap mine["account"],
                            pos   |-> latest["account"]]

Sync(k, complete, from, to) ==
    IF k = "pdu" THEN PDUSync(from, to)
    ELSE IF k = "receipt" THEN ReceiptSync(from, to)
    ELSE IF k = "invite" THEN InviteSync(from, to)
    ELSE IF k = "toDevice" THEN SendToDeviceSync(from, to)
    ELSE IF complete THEN AccountDataCompleteSync
    ELSE AccountDataSync(from, to)

\* Mutant: every stream returns `to`.
PositionOnErrorTo(k, complete, from, to) == to

\* What is returned when the database fails: `from`, but for the incremental
\* PDU sync and the complete account data sync, which return `to`.
PositionOnError(k, complete, from, to) ==
    IF (k = "pdu" /\ ~complete) \/ (k = "account" /\ complete) THEN to ELSE from

\* The range that stream k is asked for.  A complete sync goes up to the
\* provider's own latest position, which may be ahead of the notifier's.
Upper(r, k) == IF IsEmpty(since[r]) THEN latest[k] ELSE upTo[r][k]

\* Something fails: at most MaxFaults times.
Fault == faults < MaxFaults /\ faults' = faults + 1

Asking(r) == pc[r] = "read" /\ at[r] <= Len(KindOrder)

ReadStream(r) ==
    LET k        == KindOrder[at[r]]
        complete == IsEmpty(since[r])
        result   == Sync(k, complete, since[r][k], Upper(r, k))
    IN  /\ Asking(r)
        /\ items' = [items EXCEPT ![r][k] = result.items]
        /\ nextBatch' = [nextBatch EXCEPT ![r][k] = result.pos]
        /\ pc' = [pc EXCEPT ![r] =
                     IF k = "toDevice" /\ result.items # {} THEN "clean"
                     ELSE IF k = "account" /\ complete THEN "position"
                     ELSE "read"]
        /\ at' = [at EXCEPT ![r] = @ + 1]
        /\ UNCHANGED <<tables, consumer, latest, notifier, since, upTo, listening,
                       closed, client, faults>>

ReadFails(r) ==
    LET k == KindOrder[at[r]]
    IN  /\ Asking(r) /\ k \in FailingReads
        /\ nextBatch' = [nextBatch EXCEPT ![r][k] =
               PositionOnError(k, IsEmpty(since[r]), since[r][k], Upper(r, k))]
        /\ at' = [at EXCEPT ![r] = @ + 1]
        /\ Fault
        /\ UNCHANGED <<tables, consumer, latest, notifier, pc, since, upTo,
                       listening, closed, items, client>>

\* Mutant: what is being sent is deleted too.
CleanWhatIsSent(r) ==
    /\ pc[r] = "clean"
    /\ rows' = [rows EXCEPT !["toDevice"] =
                   @ \ {p \in mine["toDevice"] : p <= nextBatch[r]["toDevice"]}]
    /\ pc' = [pc EXCEPT ![r] = "read"]
    /\ UNCHANGED <<mine, sequence, consumer, latest, notifier, since, upTo,
                   listening, closed, at, items, nextBatch, client, faults>>

\* CleanSendToDeviceUpdates deletes what the client has acknowledged by coming
\* back with a later token.  When that fails nothing is put in the response.
CleanSendToDevice(r) ==
    /\ pc[r] = "clean"
    /\ rows' = [rows EXCEPT !["toDevice"] =
                   @ \ {p \in mine["toDevice"] : p < since[r]["toDevice"]}]
    /\ pc' = [pc EXCEPT ![r] = "read"]
    /\ UNCHANGED <<mine, sequence, consumer, latest, notifier, since, upTo,
                   listening, closed, at, items, nextBatch, client, faults>>

CleanFails(r) ==
    /\ pc[r] = "clean" /\ "toDevice" \in FailingReads
    /\ items' = [items EXCEPT ![r]["toDevice"] = {}]
    /\ nextBatch' = [nextBatch EXCEPT ![r]["toDevice"] = since[r]["toDevice"]]
    /\ pc' = [pc EXCEPT ![r] = "read"]
    /\ Fault
    /\ UNCHANGED <<tables, consumer, latest, notifier, since, upTo, listening,
                   closed, at, client>>

\* The LatestPosition call at the end of the complete account data sync.
AccountDataPosition(r) ==
    /\ pc[r] = "position"
    /\ nextBatch' = [nextBatch EXCEPT ![r]["account"] = latest["account"]]
    /\ pc' = [pc EXCEPT ![r] = "read"]
    /\ UNCHANGED <<tables, consumer, latest, notifier, since, upTo, listening,
                   closed, at, items, client, faults>>

Answered(r) == pc[r] = "respond" \/ (pc[r] = "read" /\ at[r] > Len(KindOrder))

\* The handler returns: its deferred Close lets go of the listener, and its
\* local variables are gone.
Return(r) ==
    /\ pc' = [pc EXCEPT ![r] = "idle"]
    /\ listening' = [listening EXCEPT ![r] = FALSE]
    /\ since' = [since EXCEPT ![r] = ZeroToken]
    /\ upTo' = [upTo EXCEPT ![r] = ZeroToken]
    /\ closed' = [closed EXCEPT ![r] = FALSE]
    /\ at' = [at EXCEPT ![r] = 1]
    /\ items' = [items EXCEPT ![r] = NoItems]
    /\ nextBatch' = [nextBatch EXCEPT ![r] = ZeroToken]

\* The client gets the response ...
Respond(r) ==
    /\ Answered(r)
    /\ token' = nextBatch[r]
    /\ received' = [k \in Kinds |-> received[k] \cup items[r][k]]
    /\ Return(r)
    /\ UNCHANGED <<tables, consumer, latest, notifier, faults>>

\* ... or the response is lost on the way, and the client asks again with the
\* token it has.
ResponseLost(r) ==
    /\ Answered(r)
    /\ Return(r)
    /\ Fault
    /\ UNCHANGED <<tables, consumer, latest, notifier, client>>

-----------------------------------------------------------------------------
\* StreamProvider.Setup: each provider starts from the newest row of its table.
Setup == [k \in Kinds |-> MaxOf(rows[k])]

\* Streams.Latest: the notifier's first position.  The receipt position is
\* taken from the PDU provider.
Latest(t) == [k \in Kinds |-> IF k = "receipt" THEN t["pdu"] ELSE t[k]]

\* The sync API stops at any point and is started again.  A message whose
\* offset was not saved comes again: it is stored once more as a new update,
\* or finds its row there already.
Restart ==
    /\ Fault
    /\ consumer' = [k \in Kinds |-> "idle"]
    /\ latest' = Setup
    /\ currPos' = Latest(Setup)
    /\ hasStream' = FALSE /\ streamPos' = ZeroToken
    /\ pc' = [r \in Requests |-> "idle"]
    /\ since' = [r \in Requests |-> ZeroToken]
    /\ upTo' = [r \in Requests |-> ZeroToken]
    /\ listening' = [r \in Requests |-> FALSE]
    /\ closed' = [r \in Requests |-> FALSE]
    /\ at' = [r \in Requests |-> 1]
    /\ items' = [r \in Requests |-> NoItems]
    /\ nextBatch' = [r \in Requests |-> ZeroToken]
    /\ UNCHANGED <<tables, client>>

Step(r) ==
    \/ \E immediate \in BOOLEAN : OnIncomingSyncRequest(r, immediate)
    \/ \E swept \in BOOLEAN : GetListener(r, swept)
    \/ GetNotifyChannel(r) \/ WakeUp(r) \/ GiveUp(r)
    \/ ReadStream(r) \/ ReadFails(r)
    \/ CleanSendToDevice(r) \/ CleanFails(r) \/ AccountDataPosition(r)
    \/ Respond(r) \/ ResponseLost(r)

Next ==
    \/ OnMessage
    \/ \E k \in Kinds : Advance(k)
    \/ \E k \in Kinds, swept \in BOOLEAN : OnNew(k, swept)
    \/ \E r \in Requests : Step(r)
    \/ Restart

Spec == Init /\ [][Next]_vars

\* Consumers and request goroutines run, a select ends (it has a timer) and the
\* client keeps asking.
Fairness ==
    /\ \A k \in Kinds : WF_vars(Advance(k) \/ \E swept \in BOOLEAN : OnNew(k, swept))
    /\ \A r \in Requests : WF_vars(Step(r))

FairSpec == Spec /\ Fairness

-----------------------------------------------------------------------------
\* The streams whose tokens can be relied on.  The receipt stream (after a
\* restart) and the account data stream (in a complete sync) have gaps of their
\* own: Latest takes the receipt position from the PDU
\* stream, and the complete account data sync reads its position last.
Exact == Kinds \ {"receipt", "account"}

\* Every update of stream k for the device, at or below the client's token, has
\* been in a response that the client received.
NotMissed(k) == \A p \in mine[k] : p <= token[k] => p \in received[k]

\* A client that follows its next_batch tokens misses nothing.  This is about
\* the order "store, advance, notify" of the consumers against the order in
\* which OnIncomingSyncRequest reads positions and tables.
NothingMissed == \A k \in Exact : NotMissed(k)

\* CleanSendToDeviceUpdates never deletes a send-to-device message that the
\* client does not have yet, even when responses are lost, requests are
\* repeated and several are open at once.
KeptUntilReceived ==
    "toDevice" \in Kinds =>
        mine["toDevice"] \ rows["toDevice"] \subseteq received["toDevice"]

\* A request that waits on an open channel has nothing to wait for: the
\* notifier has not announced any update for the device that is newer than the
\* request's token.  (GetListener, GetNotifyChannel and Broadcast leave no gap
\* in which a wake-up is lost.)
NoLostWakeUp ==
    \A r \in Requests :
        pc[r] = "select" /\ ~closed[r] =>
            \A k \in Exact : \A p \in mine[k] :
                ~(since[r][k] < p /\ p <= currPos[k])

\* No token that a client holds is ahead of what the providers know, across
\* restarts too: the newest row of a table is never deleted, so Setup finds a
\* position at least as new as any that was given out.
TokenIsKnown == \A k \in Exact : token[k] <= latest[k]

CaughtUp == \A k \in Exact : mine[k] \subseteq received[k]

\* Every update for the device is received in the end by a client that keeps
\* asking, whatever is lost, fails or restarts on the way.  (There are at most
\* MaxItems updates, and none is taken back: to receive each of them is to
\* catch up.)
EventuallyReceived == ~CaughtUp ~> CaughtUp

\* The receipts that a client's token covers were given to it.  The code does
\* not keep this: after a restart Streams.Latest gives the notifier the PDU
\* position as receipt position.
ReceiptsNotMissed == "receipt" \in Kinds => NotMissed("receipt")
=============================================================================
