-------------------------- MODULE SyncStreamsProofs --------------------------
(***************************************************************************)
(* Proofs about the sync streams, for every set of streams, requests and    *)
(* bounds.                                                                  *)
(***************************************************************************)
EXTENDS SyncStreams, WellFoundedInduction, TLAPS

USE ZenonT(30) DEF Tokens

\* A nonempty set of naturals has a least element ...
LEMMA MinExists ==
    ASSUME NEW T \in SUBSET Nat, T # {}
    PROVE  \E x \in T : \A y \in T : x <= y
<1> DEFINE R == OpToRel(<, Nat)
<1>1. IsWellFoundedOn(R, Nat)
  BY NatLessThanWellFounded
<1>2. \E x \in T : \A y \in T : ~(<<y, x>> \in R)
  <2> HIDE DEF R
  <2> QED BY <1>1, WFMin
<1>3. PICK x \in T : \A y \in T : ~(<<y, x>> \in R)
  BY <1>2
<1>4. \A y \in T : <<y, x>> \in R <=> y < x
  BY DEF OpToRel
<1>5. \A y \in T : ~(y < x)
  <2> HIDE DEF R
  <2> QED BY <1>3, <1>4
<1> QED
  BY SMTT(30), <1>5

\* ... and a bounded one a greatest, so MaxOf is well defined.
LEMMA MaxExists ==
    ASSUME NEW n \in Nat, NEW S \in SUBSET (0..n), S # {}
    PROVE  \E x \in S : \A y \in S : y <= x
<1> DEFINE T == {n - x : x \in S}
<1>1. T \in SUBSET Nat
  BY SMTT(30)
<1>2. T # {}
  <2>1. PICK s \in S : TRUE
    OBVIOUS
  <2>2. n - s \in T
    BY <2>1
  <2> QED BY <2>2
<1>3. PICK t \in T : \A y \in T : t <= y
  <2> HIDE DEF T
  <2> QED BY <1>1, <1>2, MinExists
<1>4. PICK x \in S : t = n - x
  OBVIOUS
<1>5. \A y \in S : n - x <= n - y
  BY <1>3, <1>4
<1> QED
  BY SMTT(30), <1>5

\* What MaxOf returns: the bound of the positions that Setup and the read of the
\* send-to-device and receipt streams return.
LEMMA MaxOfIs ==
    ASSUME NEW n \in Nat, NEW S \in SUBSET (0..n)
    PROVE  /\ MaxOf(S) \in 0..n
           /\ S # {} => MaxOf(S) \in S
           /\ \A p \in S : p <= MaxOf(S)
<1>1. CASE S = {}
  BY SMTT(30), <1>1 DEF MaxOf
<1>2. CASE S # {}
  <2>1. \E x \in S : \A y \in S : y <= x
    BY <1>2, MaxExists
  <2>2. MaxOf(S) \in S /\ \A y \in S : y <= MaxOf(S)
    BY <1>2, <2>1 DEF MaxOf
  <2> QED BY <2>2
<1> QED
  BY <1>1, <1>2

-----------------------------------------------------------------------------
(* The inductive invariant.                                                  *)

\* The tables hold positions that were drawn from their sequence.  The last one
\* drawn is never deleted.
TablesInv ==
    /\ \A k \in Kinds : rows[k] \subseteq 1..sequence[k] /\ mine[k] \subseteq 1..sequence[k]
    /\ \A k \in Exact : sequence[k] > 0 => sequence[k] \in rows[k]

\* The chain of positions: notifier, provider, sequence.  Only the update that the
\* consumer is working on may be unknown to the notifier.
PositionsInv ==
    \A k \in Exact :
        /\ latest[k] <= sequence[k]
        /\ consumer[k] = "advanced" => latest[k] = sequence[k]
        /\ currPos[k] <= latest[k]
        /\ streamPos[k] <= currPos[k]
        /\ \A p \in mine[k] : currPos[k] < p => p = sequence[k] /\ consumer[k] # "idle"

\* No token anywhere is ahead of the provider.
TokensInv ==
    \A k \in Exact :
        /\ token[k] <= latest[k]
        /\ \A r \in Requests :
              since[r][k] <= latest[k] /\ upTo[r][k] <= latest[k] /\ nextBatch[r][k] <= latest[k]

\* A request that waits holds a listener, and a stream with listeners is kept.
ListenInv ==
    \A r \in Requests : /\ pc[r] \in {"channel", "select"} => listening[r]
                        /\ listening[r] => hasStream

-----------------------------------------------------------------------------
\* The streams there are, and those whose tokens are exact.
LEMMA KindFacts ==
    /\ Exact \subseteq Kinds
    /\ \A k \in Exact : k \in {"pdu", "invite", "toDevice"}
    /\ \A k \in Kinds : k \in {"pdu", "receipt", "invite", "toDevice", "account"}
    /\ \A i \in 1..Len(KindOrder) : KindOrder[i] \in Kinds
    /\ Len(KindOrder) \in Nat
BY SMTT(30), KindAssumption DEF Kinds, Exact

\* The updates a stream provider finds are updates of the device.
LEMMA InRangeFacts ==
    ASSUME TypeOK, TablesInv, NEW k \in Kinds, NEW from \in Nat, NEW to \in Nat
    PROVE  /\ InRange(k, from, to) \subseteq mine[k]
           /\ InRange(k, from, to) \subseteq 0..to
           /\ InRange(k, from, to) \subseteq Nat
           /\ \A p \in mine[k] : from < p /\ p <= to /\ p \in rows[k] => p \in InRange(k, from, to)
BY SMTT(30) DEF InRange, TypeOK, TablesInv

\* What a stream provider returns: positions of the right type, and for the
\* streams that can be relied on, no more than what it was asked for, with every
\* update of the device in between.
LEMMA SyncFacts ==
    ASSUME TypeOK, TablesInv, NEW k \in Kinds, NEW complete \in BOOLEAN,
           NEW from \in Nat, NEW to \in Nat
    PROVE  LET result == Sync(k, complete, from, to)
           IN  /\ result.items \in SUBSET Nat /\ result.pos \in Nat
               /\ k \in Exact =>
                     /\ result.pos <= to
                     /\ \A p \in mine[k] : p <= result.pos =>
                           p <= from \/ p \notin rows[k] \/ p \in result.items
<1> USE KindFacts
<1>a. /\ InRange(k, from, to) \in SUBSET Nat
      /\ \A p \in mine[k] : p <= to =>
            p <= from \/ p \notin rows[k] \/ p \in InRange(k, from, to)
  <2>1. mine[k] \in SUBSET Nat
    BY DEF TypeOK
  <2>2. /\ InRange(k, from, to) \in SUBSET Nat
        /\ \A p \in mine[k] : from < p /\ p <= to /\ p \in rows[k] => p \in InRange(k, from, to)
    BY InRangeFacts
  <2>3. \A p \in mine[k] : p <= from \/ from < p
    BY SMTT(30), <2>1
  <2> QED BY <2>2, <2>3
<1>1. CASE k = "pdu"
  <2>1. Sync(k, complete, from, to) = PDUSync(from, to)
    BY <1>1 DEF Sync
  <2>2. mine[k] \in SUBSET Nat
    BY DEF TypeOK
  <2>3. CASE from > to
    <3>1. PDUSync(from, to) = [items |-> InRange(k, to, from), pos |-> to]
      BY <1>1, <2>3 DEF PDUSync
    <3> QED BY SMTT(30), <2>1, <2>2, <2>3, <3>1, InRangeFacts
  <2>4. CASE ~(from > to)
    <3>1. PDUSync(from, to) = [items |-> InRange(k, from, to), pos |-> to]
      BY <1>1, <2>4 DEF PDUSync
    <3> QED BY SMTT(30), <1>a, <2>1, <3>1
  <2> QED BY <2>3, <2>4
<1>2. CASE k = "invite"
  <2>1. Sync(k, complete, from, to) = [items |-> InRange(k, from, to), pos |-> to]
    BY <1>2 DEF Sync, InviteSync
  <2> QED BY SMTT(30), <1>a, <2>1
<1>3. CASE k = "toDevice"
  <2>1. Sync(k, complete, from, to) = SendToDeviceSync(from, to)
    BY <1>3 DEF Sync
  <2> DEFINE found == InRange("toDevice", from, to)
  <2>2. /\ found \in SUBSET (0..to)
        /\ \A p \in mine[k] : from < p /\ p <= to /\ p \in rows[k] => p \in found
    BY <1>3, InRangeFacts
  <2>3. /\ MaxOf(found) \in 0..to
        /\ \A p \in found : p <= MaxOf(found)
    BY <2>2, MaxOfIs
  <2>4. SendToDeviceSync(from, to) =
           [items |-> found, pos |-> IF found = {} THEN to ELSE MaxOf(found)]
    BY DEF SendToDeviceSync
  <2>5. mine[k] \in SUBSET Nat
    BY DEF TypeOK
  <2> HIDE DEF found
  <2>6. \A p \in mine[k] : p <= to => p <= from \/ p \notin rows[k] \/ p \in found
    BY SMTT(30), <2>2, <2>5
  <2>7. (IF found = {} THEN to ELSE MaxOf(found)) \in 0..to
    BY SMTT(30), <2>3
  <2> QED BY SMTT(30), <2>1, <2>2, <2>4, <2>5, <2>6, <2>7
<1>4. CASE k = "receipt"
  <2>1. Sync(k, complete, from, to) = ReceiptSync(from, to)
    BY <1>4 DEF Sync
  <2> DEFINE found == InRange("receipt", from, sequence["receipt"])
  <2>2. sequence["receipt"] \in Nat
    BY <1>4 DEF TypeOK
  <2>3. found \in SUBSET (0..sequence["receipt"])
    <3>1. "receipt" \in Kinds /\ k \notin Exact
      BY <1>4 DEF Exact
    <3> QED BY <2>2, <3>1, InRangeFacts
  <2>4. MaxOf(found) \in Nat
    <3> HIDE DEF found
    <3>1. MaxOf(found) \in 0..sequence["receipt"]
      BY <2>2, <2>3, MaxOfIs
    <3> QED BY SMTT(30), <2>2, <3>1
  <2>5. ReceiptSync(from, to) =
           [items |-> found, pos |-> IF found = {} THEN to ELSE MaxOf(found)]
    BY DEF ReceiptSync
  <2>6. k \notin Exact
    BY <1>4 DEF Exact
  <2> HIDE DEF found
  <2>7. found \in SUBSET Nat
    BY SMTT(30), <2>2, <2>3
  <2> QED BY SMTT(30), <2>1, <2>4, <2>5, <2>6, <2>7
<1>5. CASE k = "account"
  <2>1. Sync(k, complete, from, to) = IF complete THEN AccountDataCompleteSync
                                                  ELSE AccountDataSync(from, to)
    BY <1>5 DEF Sync
  <2>2. AccountDataCompleteSync.items \in SUBSET Nat /\ AccountDataCompleteSync.pos \in Nat
    BY <1>5 DEF AccountDataCompleteSync, TypeOK
  <2>3. AccountDataSync(from, to).items \in SUBSET Nat /\ AccountDataSync(from, to).pos \in Nat
    BY <1>5, InRangeFacts DEF AccountDataSync
  <2> QED BY <1>5, <2>1, <2>2, <2>3
<1> QED
  BY <1>1, <1>2, <1>3, <1>4, <1>5

\* The steps, one disjunct per action.
LEMMA NextCases ==
    ASSUME [Next]_vars
    PROVE  \/ \E k \in Kinds, forMe \in BOOLEAN : Store(k, forMe)
           \/ \E k \in Kinds : Advance(k)
           \/ \E k \in Kinds, swept \in BOOLEAN : OnNew(k, swept)
           \/ \E r \in Requests, immediate \in BOOLEAN : OnIncomingSyncRequest(r, immediate)
           \/ \E r \in Requests, swept \in BOOLEAN : GetListener(r, swept)
           \/ \E r \in Requests : GetNotifyChannel(r)
           \/ \E r \in Requests : WakeUp(r)
           \/ \E r \in Requests : GiveUp(r)
           \/ \E r \in Requests : ReadStream(r)
           \/ \E r \in Requests : ReadFails(r)
           \/ \E r \in Requests : CleanSendToDevice(r)
           \/ \E r \in Requests : CleanFails(r)
           \/ \E r \in Requests : AccountDataPosition(r)
           \/ \E r \in Requests : Respond(r)
           \/ \E r \in Requests : ResponseLost(r)
           \/ Restart
           \/ UNCHANGED vars
<1>1. ASSUME OnMessage PROVE \E k \in Kinds, forMe \in BOOLEAN : Store(k, forMe)
  <2>1. PICK k \in {"pdu", "invite", "receipt", "toDevice", "account"}, forMe \in BOOLEAN :
           Store(k, forMe)
    BY <1>1 DEF OnMessage, OnNewRoomEvent, OnNewInviteEvent, OnReceiptMessage,
                OnSendToDeviceMessage, OnAccountDataMessage
  <2>2. k \in Kinds
    BY <2>1 DEF Store
  <2> QED BY <2>1, <2>2
<1> QED
  BY <1>1 DEF Next, Step


\* The provider a request asks next is one of the streams of Providers.
LEMMA AskedKind ==
    ASSUME TypeOK, NEW r \in Requests, Asking(r)
    PROVE  at[r] \in 1..Len(KindOrder) /\ KindOrder[at[r]] \in Kinds
<1>1. at[r] \in 1..Len(KindOrder) + 1 /\ at[r] <= Len(KindOrder)
  BY DEF TypeOK, Asking
<1> QED BY SMTT(30), <1>1, KindFacts

\* The positions a provider is asked between are stream positions.
LEMMA UpperFacts ==
    ASSUME TypeOK, NEW r \in Requests, NEW k \in Kinds
    PROVE  since[r][k] \in Nat /\ Upper(r, k) \in Nat
<1>1. since[r] \in Tokens /\ upTo[r] \in Tokens /\ latest \in Tokens
  BY DEF TypeOK
<1> QED BY <1>1 DEF Upper

\* A response with the position of one stream replaced is one still.
LEMMA ReplacedPosition ==
    ASSUME TypeOK, NEW r \in Requests, NEW k, NEW p, k \in Kinds => p \in Nat
    PROVE  [nextBatch EXCEPT ![r][k] = p] \in [Requests -> Tokens]
<1>1. nextBatch \in [Requests -> Tokens] /\ nextBatch[r] \in Tokens
  BY DEF TypeOK
<1>2. [nextBatch[r] EXCEPT ![k] = p] \in Tokens
  BY <1>1
<1> QED BY <1>1, <1>2

\* Every step keeps the types.
LEMMA TypeStep ==
    ASSUME TypeOK, TablesInv, [Next]_vars
    PROVE  TypeOK'
<1>1. ASSUME NEW k \in Kinds, NEW forMe \in BOOLEAN, Store(k, forMe) PROVE TypeOK'
  <2>1. sequence[k] \in Nat /\ rows[k] \subseteq Nat /\ mine[k] \subseteq Nat
    BY DEF TypeOK
  <2>2. sequence[k] + 1 \in Nat
    BY SMTT(30), <2>1
  <2>3. sequence' \in Tokens
    BY <1>1, <2>2 DEF TypeOK, Store
  <2>4. rows' \in [Kinds -> SUBSET Nat]
    <3>1. rows[k] \cup {sequence[k] + 1} \in SUBSET Nat
      BY <2>1, <2>2
    <3> QED BY <1>1, <3>1 DEF TypeOK, Store
  <2>5. mine' \in [Kinds -> SUBSET Nat]
    <3>1. (IF forMe THEN mine[k] \cup {sequence[k] + 1} ELSE mine[k]) \in SUBSET Nat
      BY <2>1, <2>2
    <3> QED BY <1>1, <3>1 DEF TypeOK, Store
  <2>6. consumer' \in [Kinds -> {"idle", "stored", "advanced"}]
    BY <1>1 DEF TypeOK, Store
  <2> QED BY <1>1, <2>3, <2>4, <2>5, <2>6 DEF TypeOK, Store, notifier, requests, client
<1>2. ASSUME NEW k \in Kinds, Advance(k) PROVE TypeOK'
  BY <1>2 DEF TypeOK, Advance, tables, notifier, requests, client
<1>3. ASSUME NEW k \in Kinds, NEW swept \in BOOLEAN, OnNew(k, swept) PROVE TypeOK'
  <2> DEFINE posUpdate == [ZeroToken EXCEPT ![k] = sequence[k]]
             newPos == ApplyUpdates(currPos, posUpdate)
  <2>1. posUpdate \in Tokens /\ newPos \in Tokens
    BY DEF TypeOK, ApplyUpdates, ZeroToken
  <2>2. BroadcastPosition(k, posUpdate, newPos) \in Tokens
    BY <2>1 DEF BroadcastPosition
  <2> HIDE DEF posUpdate, newPos
  <2>3. currPos' \in Tokens
    BY <1>3, <2>1 DEF OnNew, posUpdate, newPos
  <2>4. streamPos' \in Tokens
    <3>1. CASE hasStream' /\ sequence[k] \in mine[k]
      <4>1. Broadcast(BroadcastPosition(k, posUpdate, newPos))
        BY <1>3, <3>1 DEF OnNew, posUpdate, newPos
      <4> QED BY <2>2, <4>1 DEF Broadcast
    <3>2. CASE ~(hasStream' /\ sequence[k] \in mine[k])
      BY <1>3, <3>2 DEF OnNew, TypeOK
    <3> QED BY <3>1, <3>2
  <2>5. closed' \in [Requests -> BOOLEAN]
    <3>1. CASE hasStream' /\ sequence[k] \in mine[k]
      <4>1. closed' = [r \in Requests |-> closed[r] \/ pc[r] = "select"]
        BY <1>3, <3>1 DEF OnNew, Broadcast
      <4> QED BY <4>1
    <3>2. CASE ~(hasStream' /\ sequence[k] \in mine[k])
      BY <1>3, <3>2 DEF OnNew, TypeOK
    <3> QED BY <3>1, <3>2
  <2>6. hasStream' \in BOOLEAN /\ consumer' \in [Kinds -> {"idle", "stored", "advanced"}]
    BY <1>3 DEF OnNew, TypeOK
  <2> QED BY <1>3, <2>3, <2>4, <2>5, <2>6 DEF TypeOK, OnNew, tables, notifier, requests, client
<1>4. ASSUME NEW r \in Requests, NEW immediate \in BOOLEAN, OnIncomingSyncRequest(r, immediate) PROVE TypeOK'
  BY <1>4 DEF TypeOK, OnIncomingSyncRequest, tables, notifier, requests, client
<1>5. ASSUME NEW r \in Requests, NEW swept \in BOOLEAN, GetListener(r, swept) PROVE TypeOK'
  BY <1>5 DEF TypeOK, GetListener, tables, notifier, requests, client
<1>6. ASSUME NEW r \in Requests, GetNotifyChannel(r) PROVE TypeOK'
  <2>1. IsAfter(streamPos, since[r]) \in BOOLEAN
    BY DEF IsAfter
  <2>2. closed' \in [Requests -> BOOLEAN]
    BY <1>6, <2>1 DEF GetNotifyChannel, TypeOK
  <2> QED BY <1>6, <2>2 DEF TypeOK, GetNotifyChannel, tables, notifier, requests, client
<1>7. ASSUME NEW r \in Requests, WakeUp(r) PROVE TypeOK'
  BY <1>7 DEF TypeOK, WakeUp, ApplyUpdates, tables, notifier, requests, client
<1>8. ASSUME NEW r \in Requests, GiveUp(r) PROVE TypeOK'
  BY <1>8 DEF TypeOK, GiveUp, tables, notifier, requests, client
<1>9. ASSUME NEW r \in Requests, ReadStream(r) PROVE TypeOK'
  <2> DEFINE k == KindOrder[at[r]]
             complete == IsEmpty(since[r])
             result == Sync(k, complete, since[r][k], Upper(r, k))
  <2>1. at[r] \in 1..Len(KindOrder) /\ k \in Kinds
    BY <1>9, AskedKind DEF ReadStream
  <2>2. complete \in BOOLEAN /\ since[r][k] \in Nat /\ Upper(r, k) \in Nat
    BY <2>1, UpperFacts DEF IsEmpty
  <2>3. result.items \in SUBSET Nat /\ result.pos \in Nat
    BY SMTT(30), <2>1, <2>2, SyncFacts
  <2>4. /\ items' = [items EXCEPT ![r][k] = result.items]
        /\ nextBatch' = [nextBatch EXCEPT ![r][k] = result.pos]
        /\ pc' = [pc EXCEPT ![r] = IF k = "toDevice" /\ result.items # {} THEN "clean"
                     ELSE IF k = "account" /\ complete THEN "position" ELSE "read"]
        /\ at' = [at EXCEPT ![r] = @ + 1]
        /\ UNCHANGED <<tables, consumer, latest, notifier, since, upTo, listening,
                       closed, client, faults>>
    BY <1>9 DEF ReadStream
  <2> HIDE DEF k, complete, result
  <2>5. items' \in [Requests -> [Kinds -> SUBSET Nat]]
    BY <2>1, <2>3, <2>4 DEF TypeOK
  <2>6. nextBatch' \in [Requests -> Tokens]
    BY <2>3, <2>4, ReplacedPosition
  <2>7. at' \in [Requests -> 1..Len(KindOrder) + 1]
    <3>1. at \in [Requests -> 1..Len(KindOrder) + 1]
      BY DEF TypeOK
    <3> QED BY SMTT(30), <2>1, <2>4, <3>1, KindFacts
  <2>8. pc' \in [Requests -> {"idle", "listen", "channel", "select", "read",
                            "clean", "position", "respond"}]
    BY <2>4 DEF TypeOK
  <2> QED BY <2>4, <2>5, <2>6, <2>7, <2>8 DEF TypeOK, tables, notifier, requests, client
<1>10. ASSUME NEW r \in Requests, ReadFails(r) PROVE TypeOK'
  <2> DEFINE k == KindOrder[at[r]]
             pos == PositionOnError(k, IsEmpty(since[r]), since[r][k], Upper(r, k))
  <2>1. at[r] \in 1..Len(KindOrder) /\ k \in Kinds
    BY <1>10, AskedKind DEF ReadFails
  <2>2. pos \in Nat
    <3>1. since[r][k] \in Nat /\ Upper(r, k) \in Nat
      BY <2>1, UpperFacts
    <3> QED BY <3>1 DEF PositionOnError
  <2>3. /\ nextBatch' = [nextBatch EXCEPT ![r][k] = pos]
        /\ at' = [at EXCEPT ![r] = @ + 1]
        /\ Fault
        /\ UNCHANGED <<tables, consumer, latest, notifier, pc, since, upTo,
                       listening, closed, items, client>>
    BY <1>10 DEF ReadFails
  <2> HIDE DEF k, pos
  <2>6. nextBatch' \in [Requests -> Tokens]
    BY <2>2, <2>3, ReplacedPosition
  <2>7. at' \in [Requests -> 1..Len(KindOrder) + 1]
    <3>1. at \in [Requests -> 1..Len(KindOrder) + 1]
      BY DEF TypeOK
    <3> QED BY SMTT(30), <2>1, <2>3, <3>1, KindFacts
  <2>8. faults' \in 0..MaxFaults
    BY SMTT(30), <2>3, BoundAssumption DEF TypeOK, Fault
  <2> QED BY <2>3, <2>6, <2>7, <2>8 DEF TypeOK, tables, notifier, requests, client
<1>11. ASSUME NEW r \in Requests, CleanSendToDevice(r) PROVE TypeOK'
  BY <1>11 DEF TypeOK, CleanSendToDevice, tables, notifier, requests, client
<1>12. ASSUME NEW r \in Requests, CleanFails(r) PROVE TypeOK'
  <2>1. items' \in [Requests -> [Kinds -> SUBSET Nat]]
    BY <1>12 DEF TypeOK, CleanFails
  <2>2. "toDevice" \in Kinds => since[r]["toDevice"] \in Nat
    BY UpperFacts
  <2>a. nextBatch' = [nextBatch EXCEPT ![r]["toDevice"] = since[r]["toDevice"]]
    BY <1>12 DEF CleanFails
  <2>3. nextBatch' \in [Requests -> Tokens]
    BY <2>2, <2>a, ReplacedPosition
  <2>4. faults' \in 0..MaxFaults
    BY SMTT(30), <1>12, BoundAssumption DEF TypeOK, CleanFails, Fault
  <2> QED BY <1>12, <2>1, <2>3, <2>4 DEF TypeOK, CleanFails, tables, notifier, requests, client
<1>13. ASSUME NEW r \in Requests, AccountDataPosition(r) PROVE TypeOK'
  <2>1. "account" \in Kinds => latest["account"] \in Nat
    BY DEF TypeOK
  <2>a. nextBatch' = [nextBatch EXCEPT ![r]["account"] = latest["account"]]
    BY <1>13 DEF AccountDataPosition
  <2>2. nextBatch' \in [Requests -> Tokens]
    BY <2>1, <2>a, ReplacedPosition
  <2> QED BY <1>13, <2>2 DEF TypeOK, AccountDataPosition, tables, notifier, requests, client
<1>14. ASSUME NEW r \in Requests, Respond(r) PROVE TypeOK'
  BY SMTT(30), <1>14, KindFacts DEF TypeOK, Respond, Return, ZeroToken, NoItems, tables, notifier, requests, client
<1>15. ASSUME NEW r \in Requests, ResponseLost(r) PROVE TypeOK'
  BY SMTT(30), <1>15, KindFacts, BoundAssumption DEF TypeOK, ResponseLost, Return, Fault, ZeroToken, NoItems, tables, notifier, requests, client
<1>16. CASE Restart
  <2>1. Setup \in Tokens
    <3>1. ASSUME NEW k \in Kinds PROVE MaxOf(rows[k]) \in Nat
      <4>1. sequence[k] \in Nat /\ rows[k] \in SUBSET (0..sequence[k])
        BY SMTT(30) DEF TypeOK, TablesInv
      <4>2. MaxOf(rows[k]) \in 0..sequence[k]
        BY <4>1, MaxOfIs
      <4> QED BY SMTT(30), <4>1, <4>2
    <3> QED BY <3>1 DEF Setup
  <2>2. Latest(Setup) \in Tokens
    BY <2>1, KindAssumption DEF Latest
  <2>3. faults' \in 0..MaxFaults
    BY SMTT(30), <1>16, BoundAssumption DEF TypeOK, Restart, Fault
  <2>4. latest' \in Tokens /\ currPos' \in Tokens
    BY <1>16, <2>1, <2>2 DEF Restart
  <2>5. ZeroToken \in Tokens /\ NoItems \in [Kinds -> SUBSET Nat] /\ 1 \in 1..Len(KindOrder) + 1
    BY SMTT(30), KindFacts DEF ZeroToken, NoItems
  <2>6. /\ pc' \in [Requests -> {"idle", "listen", "channel", "select", "read",
                               "clean", "position", "respond"}]
        /\ since' \in [Requests -> Tokens] /\ upTo' \in [Requests -> Tokens]
        /\ listening' \in [Requests -> BOOLEAN] /\ closed' \in [Requests -> BOOLEAN]
        /\ at' \in [Requests -> 1..Len(KindOrder) + 1]
        /\ items' \in [Requests -> [Kinds -> SUBSET Nat]]
        /\ nextBatch' \in [Requests -> Tokens]
    BY <1>16, <2>5 DEF Restart
  <2> QED BY <1>16, <2>3, <2>4, <2>5, <2>6 DEF TypeOK, Restart, tables, notifier, requests, client
<1>17. CASE UNCHANGED vars
  BY <1>17 DEF TypeOK, vars, tables, notifier, requests, client
<1> QED
  BY <1>1, <1>2, <1>3, <1>4, <1>5, <1>6, <1>7, <1>8, <1>9, <1>10, <1>11, <1>12, <1>13, <1>14, <1>15, <1>16, <1>17, NextCases

\* The newest row of a reliable stream is the last position drawn: what Setup
\* finds after a restart.
LEMMA SetupIsSequence ==
    ASSUME TypeOK, TablesInv, NEW k \in Exact
    PROVE  Setup[k] = sequence[k] /\ Latest(Setup)[k] = sequence[k]
<1>1. k \in Kinds /\ k # "receipt"
  BY DEF Exact
<1>2. sequence[k] \in Nat /\ rows[k] \in SUBSET (0..sequence[k])
  BY SMTT(30), <1>1 DEF TypeOK, TablesInv
<1>3. /\ MaxOf(rows[k]) \in 0..sequence[k]
      /\ \A p \in rows[k] : p <= MaxOf(rows[k])
  BY <1>2, MaxOfIs
<1>4. MaxOf(rows[k]) = sequence[k]
  BY SMTT(30), <1>2, <1>3 DEF TablesInv
<1>5. Setup[k] = sequence[k]
  BY <1>1, <1>4 DEF Setup
<1> QED
  BY <1>1, <1>5 DEF Latest

\* Every step keeps the tables in order; in particular the clean-up of the
\* send-to-device table leaves its newest row.
LEMMA TablesStep ==
    ASSUME TypeOK, TablesInv, PositionsInv, TokensInv, [Next]_vars
    PROVE  TablesInv'
<1>1. ASSUME NEW k \in Kinds, NEW forMe \in BOOLEAN, Store(k, forMe) PROVE TablesInv'
  <2>1. ASSUME NEW j \in Kinds
        PROVE  /\ sequence'[j] = IF j = k THEN sequence[j] + 1 ELSE sequence[j]
               /\ rows'[j] = IF j = k THEN rows[j] \cup {sequence[k] + 1} ELSE rows[j]
               /\ mine'[j] = IF j = k /\ forMe THEN mine[j] \cup {sequence[k] + 1} ELSE mine[j]
    BY <1>1 DEF Store, TypeOK
  <2>2. ASSUME NEW j \in Kinds PROVE sequence[j] \in Nat
    BY DEF TypeOK
  <2>3. ASSUME NEW j \in Kinds
        PROVE  rows'[j] \subseteq 1..sequence'[j] /\ mine'[j] \subseteq 1..sequence'[j]
    <3>1. rows[j] \subseteq 1..sequence[j] /\ mine[j] \subseteq 1..sequence[j] /\ sequence[j] \in Nat
      BY <2>2 DEF TablesInv
    <3>2. CASE j = k
      <4>1. /\ sequence'[j] = sequence[j] + 1
            /\ rows'[j] \subseteq rows[j] \cup {sequence[j] + 1}
            /\ mine'[j] \subseteq mine[j] \cup {sequence[j] + 1}
        BY <2>1, <3>2
      <4> QED BY SMTT(30), <3>1, <4>1
    <3>3. CASE j # k
      BY <2>1, <3>1, <3>3
    <3> QED BY <3>2, <3>3
  <2>4. ASSUME NEW j \in Exact, sequence'[j] > 0 PROVE sequence'[j] \in rows'[j]
    BY <2>1, <2>2, <2>4, KindFacts DEF TablesInv
  <2> QED BY <2>3, <2>4 DEF TablesInv
<1>2. ASSUME NEW k \in Kinds, Advance(k) PROVE TablesInv'
  BY <1>2 DEF TablesInv, Advance, tables, notifier, requests, client
<1>3. ASSUME NEW k \in Kinds, NEW swept \in BOOLEAN, OnNew(k, swept) PROVE TablesInv'
  BY <1>3 DEF TablesInv, OnNew, tables, notifier, requests, client
<1>4. ASSUME NEW r \in Requests, NEW immediate \in BOOLEAN, OnIncomingSyncRequest(r, immediate) PROVE TablesInv'
  BY <1>4 DEF TablesInv, OnIncomingSyncRequest, tables, notifier, requests, client
<1>5. ASSUME NEW r \in Requests, NEW swept \in BOOLEAN, GetListener(r, swept) PROVE TablesInv'
  BY <1>5 DEF TablesInv, GetListener, tables, notifier, requests, client
<1>6. ASSUME NEW r \in Requests, GetNotifyChannel(r) PROVE TablesInv'
  BY <1>6 DEF TablesInv, GetNotifyChannel, tables, notifier, requests, client
<1>7. ASSUME NEW r \in Requests, WakeUp(r) PROVE TablesInv'
  BY <1>7 DEF TablesInv, WakeUp, tables, notifier, requests, client
<1>8. ASSUME NEW r \in Requests, GiveUp(r) PROVE TablesInv'
  BY <1>8 DEF TablesInv, GiveUp, tables, notifier, requests, client
<1>9. ASSUME NEW r \in Requests, ReadStream(r) PROVE TablesInv'
  BY <1>9 DEF TablesInv, ReadStream, tables, notifier, requests, client
<1>10. ASSUME NEW r \in Requests, ReadFails(r) PROVE TablesInv'
  BY <1>10 DEF TablesInv, ReadFails, tables, notifier, requests, client
<1>11. ASSUME NEW r \in Requests, CleanSendToDevice(r) PROVE TablesInv'
  <2>1. /\ mine' = mine /\ sequence' = sequence
        /\ \A k \in Kinds : rows'[k] \subseteq rows[k]
        /\ \A k \in Kinds : k # "toDevice" => rows'[k] = rows[k]
    BY <1>11 DEF CleanSendToDevice, TypeOK
  <2>2. ASSUME "toDevice" \in Exact, sequence["toDevice"] > 0
        PROVE  sequence["toDevice"] \in rows'["toDevice"]
    <3>1. since[r]["toDevice"] <= sequence["toDevice"]
      <4>1. "toDevice" \in Kinds
        BY <2>2, KindFacts
      <4>2. /\ since[r]["toDevice"] \in Nat /\ latest["toDevice"] \in Nat
            /\ sequence["toDevice"] \in Nat
        BY <4>1 DEF TypeOK
      <4> QED BY SMTT(30), <2>2, <4>2 DEF TokensInv, PositionsInv
    <3>2. sequence["toDevice"] \in rows["toDevice"] /\ "toDevice" \in Kinds
      BY <2>2, KindFacts DEF TablesInv
    <3>3. since[r]["toDevice"] \in Nat
      BY <3>2, UpperFacts
    <3>4. sequence \in Tokens /\ sequence["toDevice"] \in Nat
      BY <3>2 DEF TypeOK
    <3> QED BY SMTT(30), <1>11, <3>1, <3>2, <3>3, <3>4 DEF CleanSendToDevice, TypeOK
  <2> QED BY <2>1, <2>2, KindFacts DEF TablesInv
<1>12. ASSUME NEW r \in Requests, CleanFails(r) PROVE TablesInv'
  BY <1>12 DEF TablesInv, CleanFails, tables, notifier, requests, client
<1>13. ASSUME NEW r \in Requests, AccountDataPosition(r) PROVE TablesInv'
  BY <1>13 DEF TablesInv, AccountDataPosition, tables, notifier, requests, client
<1>14. ASSUME NEW r \in Requests, Respond(r) PROVE TablesInv'
  BY <1>14 DEF TablesInv, Respond, tables, notifier, requests, client
<1>15. ASSUME NEW r \in Requests, ResponseLost(r) PROVE TablesInv'
  BY <1>15 DEF TablesInv, ResponseLost, tables, notifier, requests, client
<1>16. CASE Restart
  BY <1>16 DEF TablesInv, Restart, tables, notifier, requests, client
<1>17. CASE UNCHANGED vars
  BY <1>17 DEF TablesInv, vars, tables, notifier, requests, client
<1> QED
  BY <1>1, <1>2, <1>3, <1>4, <1>5, <1>6, <1>7, <1>8, <1>9, <1>10, <1>11, <1>12, <1>13, <1>14, <1>15, <1>16, <1>17, NextCases

\* Every step keeps the order of the notifier's, the providers' and the tables'
\* positions.
LEMMA PositionsStep ==
    ASSUME TypeOK, TypeOK', TablesInv, PositionsInv, [Next]_vars
    PROVE  PositionsInv'
<1>1. ASSUME NEW k \in Kinds, NEW forMe \in BOOLEAN, Store(k, forMe) PROVE PositionsInv'
  <2>1. /\ sequence' = [sequence EXCEPT ![k] = @ + 1]
        /\ mine' = [mine EXCEPT ![k] = IF forMe THEN @ \cup {sequence[k] + 1} ELSE @]
        /\ consumer' = [consumer EXCEPT ![k] = "stored"]
        /\ UNCHANGED <<latest, currPos, streamPos>>
    BY <1>1 DEF Store, notifier
  <2>2. consumer[k] = "idle"
    BY <1>1 DEF Store
  <2>3. /\ latest \in Tokens /\ currPos \in Tokens /\ streamPos \in Tokens /\ sequence \in Tokens
        /\ mine \in [Kinds -> SUBSET Nat] /\ DOMAIN consumer = Kinds
        /\ \A j \in Kinds : mine[j] \subseteq 1..sequence[j]
    BY DEF TypeOK, TablesInv
  <2> QED BY SMTT(30), <2>1, <2>2, <2>3, KindFacts DEF PositionsInv
<1>2. ASSUME NEW k \in Kinds, Advance(k) PROVE PositionsInv'
  BY SMTT(30), <1>2, KindFacts DEF PositionsInv, TypeOK, Advance, tables, notifier, requests, client
<1>3. ASSUME NEW k \in Kinds, NEW swept \in BOOLEAN, OnNew(k, swept) PROVE PositionsInv'
  <2> DEFINE posUpdate == [ZeroToken EXCEPT ![k] = sequence[k]]
             newPos == ApplyUpdates(currPos, posUpdate)
  <2>1. /\ consumer[k] = "advanced" /\ currPos' = newPos
        /\ consumer' = [consumer EXCEPT ![k] = "idle"]
        /\ sequence' = sequence /\ mine' = mine /\ latest' = latest
    BY <1>3 DEF OnNew, tables
  <2>2. ASSUME NEW j \in Exact
        PROVE  /\ newPos[j] = IF j = k /\ sequence[k] > currPos[k] THEN sequence[k] ELSE currPos[j]
               /\ BroadcastPosition(k, posUpdate, newPos)[j] <= newPos[j]
    <3>1. j \in Kinds /\ j # "account"
      BY DEF Exact
    <3>3. posUpdate[j] = IF j = k THEN sequence[k] ELSE 0
      BY <3>1 DEF ZeroToken
    <3>4. currPos[j] \in Nat /\ sequence[k] \in Nat /\ currPos[k] \in Nat
      BY <3>1 DEF TypeOK
    <3> HIDE DEF posUpdate
    <3>5. newPos[j] = IF posUpdate[j] > currPos[j] THEN posUpdate[j] ELSE currPos[j]
      BY <3>1 DEF ApplyUpdates
    <3> HIDE DEF newPos
    <3>2. newPos[j] = IF j = k /\ sequence[k] > currPos[k] THEN sequence[k] ELSE currPos[j]
      BY SMTT(30), <3>3, <3>4, <3>5
    <3> QED BY SMTT(30), <3>1, <3>2, <3>3, <3>4 DEF BroadcastPosition
  <2>3. streamPos' = streamPos \/ streamPos' = BroadcastPosition(k, posUpdate, newPos)
    BY <1>3 DEF OnNew, Broadcast
  <2> HIDE DEF posUpdate, newPos
  <2>4. ASSUME NEW j \in Exact PROVE streamPos'[j] <= currPos'[j]
    <3>1. j \in Kinds
      BY KindFacts
    <3>2. currPos[j] \in Nat /\ sequence[k] \in Nat /\ currPos[k] \in Nat /\ streamPos[j] \in Nat
      BY <3>1 DEF TypeOK
    <3> QED BY SMTT(30), <2>1, <2>2, <2>3, <3>2 DEF PositionsInv
  <2>5. ASSUME NEW j \in Exact
        PROVE  /\ latest'[j] <= sequence'[j]
               /\ consumer'[j] = "advanced" => latest'[j] = sequence'[j]
               /\ currPos'[j] <= latest'[j]
               /\ \A p \in mine'[j] : currPos'[j] < p => p = sequence'[j] /\ consumer'[j] # "idle"
    <3>1. j \in Kinds
      BY KindFacts
    <3>2. /\ currPos[j] \in Nat /\ sequence[j] \in Nat /\ latest[j] \in Nat
          /\ mine[j] \subseteq 1..sequence[j]
      BY <3>1 DEF TypeOK, TablesInv
    <3>3. CASE j = k
      <4>1. currPos'[j] = sequence[j] /\ consumer'[j] = "idle" /\ latest[j] = sequence[j]
        BY SMTT(30), <2>1, <2>2, <3>2, <3>3 DEF PositionsInv, TypeOK
      <4> QED BY SMTT(30), <2>1, <3>2, <4>1
    <3>4. CASE j # k
      <4>1. currPos'[j] = currPos[j] /\ consumer'[j] = consumer[j]
        BY <2>1, <2>2, <3>1, <3>4 DEF TypeOK
      <4> QED BY <2>1, <4>1 DEF PositionsInv
    <3> QED BY <3>3, <3>4
  <2> QED BY <2>4, <2>5 DEF PositionsInv
<1>4. ASSUME NEW r \in Requests, NEW immediate \in BOOLEAN, OnIncomingSyncRequest(r, immediate) PROVE PositionsInv'
  BY <1>4 DEF PositionsInv, OnIncomingSyncRequest, tables, notifier, requests, client
<1>5. ASSUME NEW r \in Requests, NEW swept \in BOOLEAN, GetListener(r, swept) PROVE PositionsInv'
  <2>1. ASSUME NEW j \in Exact PROVE streamPos'[j] <= currPos'[j]
    <3>1. currPos[j] \in Nat /\ streamPos[j] <= currPos[j] /\ currPos' = currPos
      BY <1>5, KindFacts DEF TypeOK, PositionsInv, GetListener
    <3>2. streamPos' = streamPos \/ streamPos' = currPos
      BY <1>5 DEF GetListener
    <3> QED BY SMTT(30), <3>1, <3>2
  <2> QED BY <1>5, <2>1 DEF PositionsInv, GetListener, tables
<1>6. ASSUME NEW r \in Requests, GetNotifyChannel(r) PROVE PositionsInv'
  BY <1>6 DEF PositionsInv, GetNotifyChannel, tables, notifier, requests, client
<1>7. ASSUME NEW r \in Requests, WakeUp(r) PROVE PositionsInv'
  BY <1>7 DEF PositionsInv, WakeUp, tables, notifier, requests, client
<1>8. ASSUME NEW r \in Requests, GiveUp(r) PROVE PositionsInv'
  BY <1>8 DEF PositionsInv, GiveUp, tables, notifier, requests, client
<1>9. ASSUME NEW r \in Requests, ReadStream(r) PROVE PositionsInv'
  BY <1>9 DEF PositionsInv, ReadStream, tables, notifier, requests, client
<1>10. ASSUME NEW r \in Requests, ReadFails(r) PROVE PositionsInv'
  BY <1>10 DEF PositionsInv, ReadFails, tables, notifier, requests, client
<1>11. ASSUME NEW r \in Requests, CleanSendToDevice(r) PROVE PositionsInv'
  BY <1>11 DEF PositionsInv, CleanSendToDevice, notifier
<1>12. ASSUME NEW r \in Requests, CleanFails(r) PROVE PositionsInv'
  BY <1>12 DEF PositionsInv, CleanFails, tables, notifier, requests, client
<1>13. ASSUME NEW r \in Requests, AccountDataPosition(r) PROVE PositionsInv'
  BY <1>13 DEF PositionsInv, AccountDataPosition, tables, notifier, requests, client
<1>14. ASSUME NEW r \in Requests, Respond(r) PROVE PositionsInv'
  BY ZenonT(60), <1>14 DEF PositionsInv, Respond, tables, notifier, requests, client
<1>15. ASSUME NEW r \in Requests, ResponseLost(r) PROVE PositionsInv'
  BY <1>15 DEF PositionsInv, ResponseLost, tables, notifier, requests, client
<1>16. CASE Restart
  <2> SUFFICES ASSUME NEW k \in Exact
               PROVE  /\ latest'[k] = sequence'[k] /\ currPos'[k] = latest'[k]
                      /\ streamPos'[k] <= currPos'[k]
                      /\ \A p \in mine'[k] : p <= currPos'[k]
    BY SMTT(30), KindFacts DEF PositionsInv, TypeOK
  <2>1. latest'[k] = sequence[k] /\ currPos'[k] = sequence[k] /\ UNCHANGED <<sequence, mine>>
    BY <1>16, SetupIsSequence DEF Restart, tables
  <2>2. k \in Kinds /\ sequence[k] \in Nat
    BY KindFacts DEF TypeOK
  <2>3. streamPos'[k] = 0
    BY <1>16, <2>2 DEF Restart, ZeroToken
  <2> QED BY SMTT(30), <2>1, <2>2, <2>3 DEF TablesInv, TypeOK
<1>17. CASE UNCHANGED vars
  BY <1>17 DEF PositionsInv, vars, tables, notifier, requests, client
<1> QED
  BY <1>1, <1>2, <1>3, <1>4, <1>5, <1>6, <1>7, <1>8, <1>9, <1>10, <1>11, <1>12, <1>13, <1>14, <1>15, <1>16, <1>17, NextCases

------------------------------------------------------------------------------
(* What the clients of the sync API get: nothing is missed, nothing is      *)
(* deleted before it was received, no wake-up is lost.  Each rests on an   *)
(* invariant of its own on top of the invariants above.                    *)


\* Every step keeps all tokens at or below the provider's position.
LEMMA TokensStep ==
    ASSUME TypeOK, TablesInv, PositionsInv, TokensInv, [Next]_vars
    PROVE  TokensInv'
<1> SUFFICES ASSUME NEW j \in Exact
             PROVE  (/\ token[j] <= latest[j]
                     /\ \A q \in Requests : /\ since[q][j] <= latest[j]
                                            /\ upTo[q][j] <= latest[j]
                                            /\ nextBatch[q][j] <= latest[j])'
  BY DEF TokensInv
<1> DEFINE Bounded == /\ token[j] <= latest[j]
                      /\ \A q \in Requests : /\ since[q][j] <= latest[j]
                                             /\ upTo[q][j] <= latest[j]
                                             /\ nextBatch[q][j] <= latest[j]
<1>a. /\ j \in Kinds /\ j \in {"pdu", "invite", "toDevice"}
      /\ token[j] \in Nat /\ latest[j] \in Nat /\ currPos[j] \in Nat
      /\ streamPos[j] \in Nat /\ sequence[j] \in Nat
      /\ \A q \in Requests : since[q][j] \in Nat /\ upTo[q][j] \in Nat /\ nextBatch[q][j] \in Nat
  BY SMTT(30), KindFacts DEF TypeOK
<1>b. Bounded /\ latest[j] <= sequence[j] /\ currPos[j] <= latest[j] /\ streamPos[j] <= currPos[j]
  BY DEF TokensInv, PositionsInv
<1>c. /\ since \in [Requests -> Tokens] /\ upTo \in [Requests -> Tokens]
      /\ nextBatch \in [Requests -> Tokens] /\ latest \in Tokens
  BY DEF TypeOK
<1>1. ASSUME NEW k \in Kinds, NEW forMe \in BOOLEAN, Store(k, forMe) PROVE Bounded'
  BY <1>1, <1>b DEF Store, tables, notifier, requests, client
<1>2. ASSUME NEW k \in Kinds, Advance(k) PROVE Bounded'
  <2>1. latest'[j] \in Nat /\ latest[j] <= latest'[j]
    <3>1. sequence[k] \in Nat /\ latest[k] \in Nat
      BY DEF TypeOK
    <3> QED BY SMTT(30), <1>2, <1>a, <1>c, <3>1 DEF Advance
  <2>2. UNCHANGED <<token, since, upTo, nextBatch>>
    BY <1>2 DEF Advance, requests, client
  <2> QED BY SMTT(30), <1>a, <1>b, <2>1, <2>2
<1>3. ASSUME NEW k \in Kinds, NEW swept \in BOOLEAN, OnNew(k, swept) PROVE Bounded'
  BY <1>3, <1>b DEF OnNew, tables, notifier, requests, client
<1>4. ASSUME NEW r \in Requests, NEW immediate \in BOOLEAN, OnIncomingSyncRequest(r, immediate) PROVE Bounded'
  <2>1. /\ since' = [since EXCEPT ![r] = token] /\ upTo' = [upTo EXCEPT ![r] = currPos]
        /\ UNCHANGED <<latest, token, nextBatch>>
    BY <1>4 DEF OnIncomingSyncRequest, client
  <2> QED BY <1>b, <1>c, <2>1
<1>5. ASSUME NEW r \in Requests, NEW swept \in BOOLEAN, GetListener(r, swept) PROVE Bounded'
  BY <1>5, <1>b DEF GetListener, tables, notifier, requests, client
<1>6. ASSUME NEW r \in Requests, GetNotifyChannel(r) PROVE Bounded'
  BY <1>6, <1>b DEF GetNotifyChannel, tables, notifier, requests, client
<1>7. ASSUME NEW r \in Requests, WakeUp(r) PROVE Bounded'
  <2>1. /\ upTo' = [upTo EXCEPT ![r] = ApplyUpdates(upTo[r], streamPos)]
        /\ UNCHANGED <<latest, token, since, nextBatch>>
    BY <1>7 DEF WakeUp, client
  <2>2. ApplyUpdates(upTo[r], streamPos)[j] <= latest[j]
    BY SMTT(30), <1>a, <1>b DEF ApplyUpdates
  <2> QED BY <1>b, <1>c, <2>1, <2>2
<1>8. ASSUME NEW r \in Requests, GiveUp(r) PROVE Bounded'
  BY <1>8, <1>b, <1>c DEF GiveUp, client
<1>9. ASSUME NEW r \in Requests, ReadStream(r) PROVE Bounded'
  <2> DEFINE k == KindOrder[at[r]]
             result == Sync(k, IsEmpty(since[r]), since[r][k], Upper(r, k))
  <2>1. k \in Kinds
    BY <1>9, AskedKind DEF ReadStream
  <2>2. since[r][k] \in Nat /\ Upper(r, k) \in Nat
    BY <2>1, UpperFacts
  <2>3. k = j => since[r][k] <= latest[j] /\ Upper(r, k) <= latest[j]
    BY SMTT(30), <1>a, <1>b DEF Upper
  <2>4. IsEmpty(since[r]) \in BOOLEAN
    BY DEF IsEmpty
  <2>5. result.pos \in Nat /\ (k = j => result.pos <= Upper(r, k))
    BY <2>1, <2>2, <2>4, SyncFacts
  <2>6. /\ nextBatch' = [nextBatch EXCEPT ![r][k] = result.pos]
        /\ UNCHANGED <<latest, token, since, upTo>>
    BY <1>9 DEF ReadStream, client
  <2> HIDE DEF k, result
  <2>7. k = j => result.pos <= latest[j]
    BY SMTT(30), <1>a, <2>2, <2>3, <2>5
  <2>8. \A q \in Requests : nextBatch'[q][j] = IF q = r /\ k = j THEN result.pos ELSE nextBatch[q][j]
    BY <1>a, <1>c, <2>1, <2>6
  <2> QED BY <1>b, <2>6, <2>7, <2>8
<1>10. ASSUME NEW r \in Requests, ReadFails(r) PROVE Bounded'
  <2> DEFINE k == KindOrder[at[r]]
             pos == PositionOnError(k, IsEmpty(since[r]), since[r][k], Upper(r, k))
  <2>1. k \in Kinds
    BY <1>10, AskedKind DEF ReadFails
  <2>2. since[r][k] \in Nat /\ Upper(r, k) \in Nat
    BY <2>1, UpperFacts
  <2>3. k = j => since[r][k] <= latest[j] /\ Upper(r, k) <= latest[j]
    BY SMTT(30), <1>a, <1>b DEF Upper
  <2>4. k = j => pos <= latest[j]
    BY <2>3 DEF PositionOnError
  <2>5. nextBatch' = [nextBatch EXCEPT ![r][k] = pos] /\ UNCHANGED <<latest, token, since, upTo>>
    BY <1>10 DEF ReadFails, client
  <2> HIDE DEF k, pos
  <2>6. \A q \in Requests : nextBatch'[q][j] = IF q = r /\ k = j THEN pos ELSE nextBatch[q][j]
    BY <1>a, <1>c, <2>1, <2>5
  <2> QED BY <1>b, <2>4, <2>5, <2>6
<1>11. ASSUME NEW r \in Requests, CleanSendToDevice(r) PROVE Bounded'
  BY <1>11, <1>b DEF CleanSendToDevice, tables, notifier, requests, client
<1>12. ASSUME NEW r \in Requests, CleanFails(r) PROVE Bounded'
  <2>1. \A q \in Requests : nextBatch'[q][j] =
           IF q = r /\ j = "toDevice" THEN since[r][j] ELSE nextBatch[q][j]
    BY <1>12, <1>a, <1>c DEF CleanFails
  <2> QED BY <1>12, <1>b, <2>1 DEF CleanFails, client
<1>13. ASSUME NEW r \in Requests, AccountDataPosition(r) PROVE Bounded'
  <2>1. \A q \in Requests : nextBatch'[q][j] = nextBatch[q][j]
    BY <1>13, <1>a, <1>c DEF AccountDataPosition
  <2> QED BY <1>13, <1>b, <2>1 DEF AccountDataPosition, client
<1>14. ASSUME NEW r \in Requests, Respond(r) PROVE Bounded'
  <2>1. ZeroToken[j] = 0
    BY <1>a DEF ZeroToken
  <2> QED BY SMTT(30), <1>14, <1>a, <1>b, <1>c, <2>1 DEF Respond, Return
<1>15. ASSUME NEW r \in Requests, ResponseLost(r) PROVE Bounded'
  <2>1. ZeroToken[j] = 0
    BY <1>a DEF ZeroToken
  <2> QED BY SMTT(30), <1>15, <1>a, <1>b, <1>c, <2>1 DEF ResponseLost, Return, client
<1>16. CASE Restart
  <2>1. latest'[j] = sequence[j] /\ token' = token
    BY <1>16, SetupIsSequence DEF Restart, client
  <2>2. \A q \in Requests : since'[q][j] = 0 /\ upTo'[q][j] = 0 /\ nextBatch'[q][j] = 0
    BY <1>16, <1>a DEF Restart, ZeroToken
  <2> QED BY SMTT(30), <1>a, <1>b, <2>1, <2>2
<1>17. CASE UNCHANGED vars
  BY <1>17, <1>b DEF vars, tables, notifier, requests, client
<1> QED
  BY ZenonT(60), <1>1, <1>2, <1>3, <1>4, <1>5, <1>6, <1>7, <1>8, <1>9, <1>10, <1>11, <1>12, <1>13, <1>14, <1>15, <1>16, <1>17, NextCases

\* Every step keeps the listeners' stream.
LEMMA ListenStep ==
    ASSUME TypeOK, ListenInv, [Next]_vars
    PROVE  ListenInv'
<1> SUFFICES ASSUME NEW q \in Requests
             PROVE  (/\ pc[q] \in {"channel", "select"} => listening[q]
                     /\ listening[q] => hasStream)'
  BY DEF ListenInv
<1> DEFINE Listens == /\ pc[q] \in {"channel", "select"} => listening[q]
                      /\ listening[q] => hasStream
<1>a. Listens
  BY DEF ListenInv
<1>b. pc \in [Requests -> {"idle", "listen", "channel", "select", "read",
                           "clean", "position", "respond"}]
      /\ listening \in [Requests -> BOOLEAN] /\ hasStream \in BOOLEAN
  BY DEF TypeOK
<1>1. ASSUME NEW k \in Kinds, NEW forMe \in BOOLEAN, Store(k, forMe) PROVE Listens'
  BY <1>1, <1>a, <1>b DEF Store, tables, notifier, requests, client
<1>2. ASSUME NEW k \in Kinds, Advance(k) PROVE Listens'
  BY <1>2, <1>a, <1>b DEF Advance, tables, notifier, requests, client
<1>3. ASSUME NEW k \in Kinds, NEW swept \in BOOLEAN, OnNew(k, swept) PROVE Listens'
  BY <1>3, <1>a, <1>b DEF OnNew, RemoveEmptyUserStreams, tables, notifier, requests, client
<1>4. ASSUME NEW r \in Requests, NEW immediate \in BOOLEAN, OnIncomingSyncRequest(r, immediate) PROVE Listens'
  BY <1>4, <1>a, <1>b DEF OnIncomingSyncRequest, tables, notifier, requests, client
<1>5. ASSUME NEW r \in Requests, NEW swept \in BOOLEAN, GetListener(r, swept) PROVE Listens'
  BY <1>5, <1>a, <1>b DEF GetListener, tables, notifier, requests, client
<1>6. ASSUME NEW r \in Requests, GetNotifyChannel(r) PROVE Listens'
  BY <1>6, <1>a, <1>b DEF GetNotifyChannel, tables, notifier, requests, client
<1>7. ASSUME NEW r \in Requests, WakeUp(r) PROVE Listens'
  BY <1>7, <1>a, <1>b DEF WakeUp, tables, notifier, requests, client
<1>8. ASSUME NEW r \in Requests, GiveUp(r) PROVE Listens'
  BY <1>8, <1>a, <1>b DEF GiveUp, tables, notifier, requests, client
<1>9. ASSUME NEW r \in Requests, ReadStream(r) PROVE Listens'
  BY <1>9, <1>a, <1>b DEF ReadStream, Asking, notifier
<1>10. ASSUME NEW r \in Requests, ReadFails(r) PROVE Listens'
  BY <1>10, <1>a, <1>b DEF ReadFails, tables, notifier, requests, client
<1>11. ASSUME NEW r \in Requests, CleanSendToDevice(r) PROVE Listens'
  BY <1>11, <1>a, <1>b DEF CleanSendToDevice, tables, notifier, requests, client
<1>12. ASSUME NEW r \in Requests, CleanFails(r) PROVE Listens'
  BY <1>12, <1>a, <1>b DEF CleanFails, tables, notifier, requests, client
<1>13. ASSUME NEW r \in Requests, AccountDataPosition(r) PROVE Listens'
  BY <1>13, <1>a, <1>b DEF AccountDataPosition, tables, notifier, requests, client
<1>14. ASSUME NEW r \in Requests, Respond(r) PROVE Listens'
  BY <1>14, <1>a, <1>b DEF Respond, Return, Answered, tables, notifier, requests, client
<1>15. ASSUME NEW r \in Requests, ResponseLost(r) PROVE Listens'
  BY <1>15, <1>a, <1>b DEF ResponseLost, Return, Answered, tables, notifier, requests, client
<1>16. CASE Restart
  BY <1>16, <1>a, <1>b DEF Restart, tables, notifier, requests, client
<1>17. CASE UNCHANGED vars
  BY <1>17, <1>a DEF vars, tables, notifier, requests, client
<1> QED
  BY ZenonT(60), <1>1, <1>2, <1>3, <1>4, <1>5, <1>6, <1>7, <1>8, <1>9, <1>10, <1>11, <1>12, <1>13, <1>14, <1>15, <1>16, <1>17, NextCases

-----------------------------------------------------------------------------
(* The theorems.                                                             *)

IInv == TypeOK /\ TablesInv /\ PositionsInv /\ TokensInv /\ ListenInv

\* A server that has just been set up satisfies the invariant.
LEMMA InitIInv == Init => IInv
<1> SUFFICES ASSUME Init PROVE IInv
  OBVIOUS
<1>1. \A k \in Kinds : ZeroToken[k] = 0 /\ NoItems[k] = {}
  BY DEF ZeroToken, NoItems
<1>2. ZeroToken \in Tokens /\ NoItems \in [Kinds -> SUBSET Nat]
  BY DEF ZeroToken, NoItems
<1>3. TypeOK
  <2>1. 1 \in 1..Len(KindOrder) + 1 /\ 0 \in 0..MaxFaults
    BY SMTT(30), KindFacts, BoundAssumption
  <2> QED BY <1>2, <2>1 DEF Init, TypeOK
<1>4. TablesInv
  BY SMTT(30), <1>1, KindFacts DEF Init, TablesInv
<1>5. PositionsInv
  BY SMTT(30), <1>1, KindFacts DEF Init, PositionsInv
<1>6. TokensInv
  BY SMTT(30), <1>1, KindFacts DEF Init, TokensInv
<1>7. ListenInv
  BY DEF Init, ListenInv
<1> QED BY <1>3, <1>4, <1>5, <1>6, <1>7 DEF IInv

\* Every step keeps the invariant.
LEMMA NextIInv == IInv /\ [Next]_vars => IInv'
<1> SUFFICES ASSUME IInv, [Next]_vars PROVE IInv'
  OBVIOUS
<1> USE DEF IInv
<1>1. TypeOK'
  BY TypeStep
<1>2. TablesInv'
  BY TablesStep
<1>3. PositionsInv'
  BY <1>1, PositionsStep
<1>4. TokensInv'
  BY TokensStep
<1>5. ListenInv'
  BY ListenStep
<1> QED BY <1>1, <1>2, <1>3, <1>4, <1>5

\* Every reachable state satisfies the invariant.
LEMMA Invariance == Spec => []IInv
BY InitIInv, NextIInv, PTL DEF Spec

\* Every variable keeps its type; after a restart too, the positions that Setup
\* reads are naturals.
THEOREM Typed == Spec => []TypeOK
<1>1. IInv => TypeOK
  BY DEF IInv
<1> QED BY <1>1, Invariance, PTL

\* No client holds a token that is ahead of the providers, whatever restarts:
\* CleanSendToDeviceUpdates spares the newest row, so Setup finds it again.
THEOREM TokensAreKnown == Spec => []TokenIsKnown
<1>1. IInv => TokenIsKnown
  BY DEF IInv, TokensInv, TokenIsKnown
<1> QED BY <1>1, Invariance, PTL

-----------------------------------------------------------------------------
\* What the tokens promise: the client has, or the response holds, everything of
\* the device's up to them; and what is deleted was received.
DeliveryInv ==
    \A k \in Exact :
        /\ \A p \in mine[k] : p <= token[k] => p \in received[k]
        /\ \A p \in mine[k] : p \notin rows[k] => p \in received[k]
        /\ \A r \in Requests : \A p \in mine[k] :
              /\ p <= since[r][k] => p \in received[k]
              /\ p <= nextBatch[r][k] => p \in received[k] \/ p \in items[r][k]

\* The device's stream has been told of every announced update, and the requests
\* that wait without a closed channel have seen them all.
WakeInv ==
    \A k \in Exact : \A p \in mine[k] : p <= currPos[k] =>
        /\ hasStream => p <= streamPos[k]
        /\ \A r \in Requests : pc[r] = "select" /\ ~closed[r] => p <= since[r][k]

-----------------------------------------------------------------------------
\* Every step keeps what the tokens promise, if the reads of room events do not
\* fail: the incremental PDU sync returns `to` when they do.
LEMMA DeliveryStep ==
    ASSUME TypeOK, TablesInv, PositionsInv, TokensInv, DeliveryInv, "pdu" \notin FailingReads, [Next]_vars
    PROVE  DeliveryInv'
<1> SUFFICES ASSUME NEW j \in Exact, NEW p \in mine'[j]
             PROVE  (/\ p <= token[j] => p \in received[j]
                     /\ p \notin rows[j] => p \in received[j]
                     /\ \A q \in Requests :
                           /\ p <= since[q][j] => p \in received[j]
                           /\ p <= nextBatch[q][j] => p \in received[j] \/ p \in items[q][j])'
  BY DEF DeliveryInv
<1> DEFINE Covered == /\ p <= token[j] => p \in received[j]
                      /\ p \notin rows[j] => p \in received[j]
                      /\ \A q \in Requests :
                            /\ p <= since[q][j] => p \in received[j]
                            /\ p <= nextBatch[q][j] => p \in received[j] \/ p \in items[q][j]
<1>a. /\ j \in Kinds /\ j \in {"pdu", "invite", "toDevice"}
      /\ token[j] \in Nat /\ latest[j] \in Nat /\ sequence[j] \in Nat
      /\ token[j] <= latest[j] /\ latest[j] <= sequence[j]
      /\ \A q \in Requests : /\ since[q][j] \in Nat /\ nextBatch[q][j] \in Nat
                             /\ since[q][j] <= latest[j] /\ nextBatch[q][j] <= latest[j]
  BY SMTT(30), KindFacts DEF TypeOK, TokensInv, PositionsInv
<1>b. p \in mine[j] => Covered /\ p \in 1..sequence[j]
  BY KindFacts DEF DeliveryInv, TablesInv
<1>c. /\ since \in [Requests -> Tokens] /\ nextBatch \in [Requests -> Tokens]
      /\ items \in [Requests -> [Kinds -> SUBSET Nat]]
      /\ rows \in [Kinds -> SUBSET Nat] /\ mine \in [Kinds -> SUBSET Nat]
  BY DEF TypeOK
<1>d. ZeroToken[j] = 0 /\ NoItems[j] = {}
  BY <1>a DEF ZeroToken, NoItems
<1>1. ASSUME NEW k \in Kinds, NEW forMe \in BOOLEAN, Store(k, forMe) PROVE Covered'
  <2>1. UNCHANGED <<token, received, since, nextBatch, items>>
    BY <1>1 DEF Store, requests, client
  <2>2. CASE p \in mine[j]
    <3>1. p \in rows[j] => p \in rows'[j]
      BY <1>1, <1>a, <1>c DEF Store
    <3> QED BY <1>b, <2>1, <2>2, <3>1
  <2>3. CASE p \notin mine[j]
    <3>1. j = k /\ p = sequence[j] + 1
      BY <1>1, <1>a, <1>c, <2>3 DEF Store
    <3>2. p \in rows'[j]
      BY <1>1, <1>a, <1>c, <3>1 DEF Store
    <3>3. ~(p <= token[j]) /\ \A q \in Requests : ~(p <= since[q][j]) /\ ~(p <= nextBatch[q][j])
      BY SMTT(30), <1>a, <3>1
    <3> QED BY <2>1, <3>2, <3>3
  <2> QED BY <2>2, <2>3
<1>2. ASSUME NEW k \in Kinds, Advance(k) PROVE Covered'
  BY <1>2, <1>b DEF Advance, tables, notifier, requests, client
<1>3. ASSUME NEW k \in Kinds, NEW swept \in BOOLEAN, OnNew(k, swept) PROVE Covered'
  BY <1>3, <1>b DEF OnNew, tables, notifier, requests, client
<1>4. ASSUME NEW r \in Requests, NEW immediate \in BOOLEAN, OnIncomingSyncRequest(r, immediate) PROVE Covered'
  <2>1. since' = [since EXCEPT ![r] = token] /\ UNCHANGED <<mine, rows, nextBatch, items, token, received>>
    BY <1>4 DEF OnIncomingSyncRequest, tables, client
  <2> QED BY <1>b, <1>c, <2>1
<1>5. ASSUME NEW r \in Requests, NEW swept \in BOOLEAN, GetListener(r, swept) PROVE Covered'
  BY <1>5, <1>b DEF GetListener, tables, notifier, requests, client
<1>6. ASSUME NEW r \in Requests, GetNotifyChannel(r) PROVE Covered'
  BY <1>6, <1>b DEF GetNotifyChannel, tables, notifier, requests, client
<1>7. ASSUME NEW r \in Requests, WakeUp(r) PROVE Covered'
  BY <1>7, <1>b DEF WakeUp, tables, notifier, requests, client
<1>8. ASSUME NEW r \in Requests, GiveUp(r) PROVE Covered'
  <2>1. nextBatch' = [nextBatch EXCEPT ![r] = since[r]] /\ UNCHANGED <<mine, rows, since, items, token, received>>
    BY <1>8 DEF GiveUp, tables, client
  <2> QED BY <1>b, <1>c, <2>1
<1>9. ASSUME NEW r \in Requests, ReadStream(r) PROVE Covered'
  <2> DEFINE k == KindOrder[at[r]]
             result == Sync(k, IsEmpty(since[r]), since[r][k], Upper(r, k))
  <2>1. k \in Kinds
    BY <1>9, AskedKind DEF ReadStream
  <2>2. since[r][k] \in Nat /\ Upper(r, k) \in Nat
    BY <2>1, UpperFacts
  <2>3. IsEmpty(since[r]) \in BOOLEAN
    BY DEF IsEmpty
  <2>4. /\ items' = [items EXCEPT ![r][k] = result.items]
        /\ nextBatch' = [nextBatch EXCEPT ![r][k] = result.pos]
        /\ UNCHANGED <<mine, rows, since, token, received>>
    BY <1>9 DEF ReadStream, tables, client
  <2>5. k = j => \A x \in mine[j] : x <= result.pos =>
           x <= since[r][j] \/ x \notin rows[j] \/ x \in result.items
    BY <2>1, <2>2, <2>3, SyncFacts
  <2> HIDE DEF k, result
  <2>6. \A q \in Requests :
           /\ nextBatch'[q][j] = IF q = r /\ k = j THEN result.pos ELSE nextBatch[q][j]
           /\ items'[q][j] = IF q = r /\ k = j THEN result.items ELSE items[q][j]
    BY <1>a, <1>c, <2>1, <2>4
  <2>7. p \in mine[j]
    BY <2>4
  <2>8. k = j /\ p <= result.pos => p \in received[j] \/ p \in result.items
    BY <1>b, <2>5, <2>7
  <2> QED BY SMTT(30), <1>b, <2>4, <2>6, <2>7, <2>8
<1>10. ASSUME NEW r \in Requests, ReadFails(r) PROVE Covered'
  <2> DEFINE k == KindOrder[at[r]]
             pos == PositionOnError(k, IsEmpty(since[r]), since[r][k], Upper(r, k))
  <2>1. k \in Kinds
    BY <1>10, AskedKind DEF ReadFails
  <2>2. since[r][k] \in Nat /\ Upper(r, k) \in Nat
    BY <2>1, UpperFacts
  <2>3. k \in FailingReads
    BY <1>10 DEF ReadFails
  <2>4. k = j => pos = since[r][j]
    BY <1>a, <2>3 DEF PositionOnError
  <2>5. nextBatch' = [nextBatch EXCEPT ![r][k] = pos] /\ UNCHANGED <<mine, rows, since, items, token, received>>
    BY <1>10 DEF ReadFails, tables, client
  <2> HIDE DEF k, pos
  <2>6. \A q \in Requests : nextBatch'[q][j] = IF q = r /\ k = j THEN pos ELSE nextBatch[q][j]
    BY <1>a, <1>c, <2>1, <2>5
  <2> QED BY <1>b, <2>4, <2>5, <2>6
<1>11. ASSUME NEW r \in Requests, CleanSendToDevice(r) PROVE Covered'
  <2>1. UNCHANGED <<mine, since, nextBatch, items, token, received>>
    BY <1>11 DEF CleanSendToDevice, client
  <2>2. p \in mine[j] /\ p \in Nat
    BY <1>a, <1>c, <2>1
  <2>3. p \in rows[j] => p \in rows'[j] \/ p < since[r][j]
    BY <1>11, <1>a, <1>c DEF CleanSendToDevice
  <2>4. p < since[r][j] => p \in received[j]
    <3>1. since[r][j] \in Nat /\ (p <= since[r][j] => p \in received[j])
      BY <1>a, <1>b, <2>2
    <3> QED BY SMTT(30), <2>2, <3>1
  <2> QED BY <1>b, <2>1, <2>2, <2>3, <2>4
<1>12. ASSUME NEW r \in Requests, CleanFails(r) PROVE Covered'
  <2>1. \A q \in Requests :
           /\ nextBatch'[q][j] = IF q = r /\ j = "toDevice" THEN since[r][j] ELSE nextBatch[q][j]
           /\ items'[q][j] = IF q = r /\ j = "toDevice" THEN {} ELSE items[q][j]
    BY <1>12, <1>a, <1>c DEF CleanFails
  <2> QED BY SMTT(30), <1>12, <1>b, <2>1 DEF CleanFails, tables, client
<1>13. ASSUME NEW r \in Requests, AccountDataPosition(r) PROVE Covered'
  <2>1. \A q \in Requests : nextBatch'[q][j] = nextBatch[q][j]
    BY <1>13, <1>a, <1>c DEF AccountDataPosition
  <2> QED BY <1>13, <1>b, <2>1 DEF AccountDataPosition, tables, client
<1>14. ASSUME NEW r \in Requests, Respond(r) PROVE Covered'
  <2>1. /\ since' = [since EXCEPT ![r] = ZeroToken] /\ nextBatch' = [nextBatch EXCEPT ![r] = ZeroToken]
        /\ items' = [items EXCEPT ![r] = NoItems]
        /\ token' = nextBatch[r] /\ UNCHANGED <<mine, rows>>
        /\ received'[j] = received[j] \cup items[r][j]
    BY <1>14, <1>a DEF Respond, Return, tables
  <2>2. p \in mine[j] /\ p \in Nat /\ ~(p <= 0)
    BY SMTT(30), <1>a, <1>b, <2>1
  <2>3. \A q \in Requests : since'[q][j] = IF q = r THEN 0 ELSE since[q][j]
    BY <1>c, <1>d, <2>1
  <2>4. \A q \in Requests : nextBatch'[q][j] = IF q = r THEN 0 ELSE nextBatch[q][j]
    BY <1>c, <1>d, <2>1
  <2>5. \A q \in Requests : q # r => items'[q][j] = items[q][j]
    BY <1>c, <2>1
  <2> QED BY SMTT(30), <1>b, <2>1, <2>2, <2>3, <2>4, <2>5
<1>15. ASSUME NEW r \in Requests, ResponseLost(r) PROVE Covered'
  <2>1. /\ since' = [since EXCEPT ![r] = ZeroToken] /\ nextBatch' = [nextBatch EXCEPT ![r] = ZeroToken]
        /\ items' = [items EXCEPT ![r] = NoItems]
        /\ UNCHANGED <<mine, rows, token, received>>
    BY <1>15, <1>a DEF ResponseLost, Return, tables, client
  <2>2. p \in mine[j] /\ p \in Nat /\ ~(p <= 0)
    BY SMTT(30), <1>a, <1>b, <2>1
  <2>3. \A q \in Requests : since'[q][j] = IF q = r THEN 0 ELSE since[q][j]
    BY <1>c, <1>d, <2>1
  <2>4. \A q \in Requests : nextBatch'[q][j] = IF q = r THEN 0 ELSE nextBatch[q][j]
    BY <1>c, <1>d, <2>1
  <2>5. \A q \in Requests : q # r => items'[q][j] = items[q][j]
    BY <1>c, <2>1
  <2> QED BY SMTT(30), <1>b, <2>1, <2>2, <2>3, <2>4, <2>5
<1>16. CASE Restart
  <2>1. UNCHANGED <<mine, rows, token, received>>
    BY <1>16 DEF Restart, tables, client
  <2>2. p \in mine[j] /\ p \in Nat /\ ~(p <= 0)
    BY SMTT(30), <1>a, <1>b, <2>1
  <2>3. \A q \in Requests : since'[q][j] = 0 /\ nextBatch'[q][j] = 0
    BY <1>16, <1>a, <1>d DEF Restart
  <2> QED BY <1>b, <2>1, <2>2, <2>3
<1>17. CASE UNCHANGED vars
  BY <1>17, <1>b DEF vars, tables, notifier, requests, client
<1> QED
  BY <1>1, <1>2, <1>3, <1>4, <1>5, <1>6, <1>7, <1>8, <1>9, <1>10, <1>11, <1>12, <1>13, <1>14, <1>15, <1>16, <1>17, NextCases

\* Every step keeps the waiting requests informed, if there is no account data
\* stream: OnNewAccountData replaces the position of the device's stream.
LEMMA WakeStep ==
    ASSUME TypeOK, TablesInv, PositionsInv, ListenInv, WakeInv, "account" \notin Kinds, [Next]_vars
    PROVE  WakeInv'
<1> SUFFICES ASSUME NEW j \in Exact, NEW p \in mine'[j]
             PROVE  (p <= currPos[j] =>
                        /\ hasStream => p <= streamPos[j]
                        /\ \A q \in Requests : pc[q] = "select" /\ ~closed[q] => p <= since[q][j])'
  BY DEF WakeInv
<1> DEFINE Told == p <= currPos[j] =>
               /\ hasStream => p <= streamPos[j]
               /\ \A q \in Requests : pc[q] = "select" /\ ~closed[q] => p <= since[q][j]
<1>a. /\ j \in Kinds /\ j \in {"pdu", "invite", "toDevice"}
      /\ currPos[j] \in Nat /\ streamPos[j] \in Nat /\ sequence[j] \in Nat /\ latest[j] \in Nat
      /\ currPos[j] <= latest[j] /\ latest[j] <= sequence[j]
      /\ \A q \in Requests : since[q][j] \in Nat
  BY SMTT(30), KindFacts DEF TypeOK, PositionsInv
<1>b. p \in mine[j] => Told /\ p \in 1..sequence[j]
  BY KindFacts DEF WakeInv, TablesInv
<1>c. /\ pc \in [Requests -> {"idle", "listen", "channel", "select", "read",
                              "clean", "position", "respond"}]
      /\ since \in [Requests -> Tokens] /\ mine \in [Kinds -> SUBSET Nat]
      /\ closed \in [Requests -> BOOLEAN] /\ hasStream \in BOOLEAN
  BY DEF TypeOK
<1>1. ASSUME NEW k \in Kinds, NEW forMe \in BOOLEAN, Store(k, forMe) PROVE Told'
  <2>1. UNCHANGED <<pc, closed, since, currPos, streamPos, hasStream>>
    BY <1>1 DEF Store, notifier, requests
  <2>2. p \in mine[j] \/ p = sequence[j] + 1
    BY <1>1, <1>a, <1>c DEF Store
  <2> QED BY SMTT(30), <1>a, <1>b, <2>1, <2>2
<1>2. ASSUME NEW k \in Kinds, Advance(k) PROVE Told'
  BY <1>2, <1>b, <1>c DEF Advance, tables, notifier, requests, client
<1>3. ASSUME NEW k \in Kinds, NEW swept \in BOOLEAN, OnNew(k, swept) PROVE Told'
  <2> DEFINE posUpdate == [ZeroToken EXCEPT ![k] = sequence[k]]
             newPos    == ApplyUpdates(currPos, posUpdate)
  <2>1. /\ currPos' = newPos /\ hasStream' = (hasStream /\ ~swept)
        /\ UNCHANGED <<mine, pc, since, listening>>
    BY <1>3 DEF OnNew, tables
  <2>2. newPos[j] = IF k = j /\ sequence[j] > currPos[j] THEN sequence[j] ELSE currPos[j]
    BY SMTT(30), <1>a DEF ApplyUpdates, ZeroToken
  <2>3. p \in mine[j] /\ p \in Nat
    BY <1>a, <1>c, <2>1
  <2>4. ~hasStream' => \A q \in Requests : pc[q] # "select"
    BY <1>3, <2>1, <1>c DEF OnNew, RemoveEmptyUserStreams, ListenInv
  <2>5. CASE hasStream' /\ sequence[k] \in mine[k]
    <3>1. streamPos' = newPos /\ closed' = [q \in Requests |-> closed[q] \/ pc[q] = "select"]
      BY <1>3, <2>5, "account" # k DEF OnNew, Broadcast, BroadcastPosition
    <3>2. \A q \in Requests : pc[q] = "select" => closed'[q]
      BY <3>1
    <3> HIDE DEF newPos
    <3> QED BY <2>1, <3>1, <3>2
  <2>6. CASE ~(hasStream' /\ sequence[k] \in mine[k])
    <3>1. UNCHANGED <<streamPos, closed>>
      BY <1>3, <2>6 DEF OnNew
    <3>2. CASE ~hasStream'
      BY <2>1, <2>4, <3>2
    <3>3. CASE hasStream'
      <4>1. currPos[j] < p => p = sequence[j]
        BY <2>3 DEF PositionsInv
      <4>2. p <= newPos[j] => p <= currPos[j]
        BY SMTT(30), <1>a, <2>2, <2>3, <2>6, <3>3, <4>1
      <4> HIDE DEF newPos
      <4>3. hasStream
        BY <2>1, <3>3
      <4> QED BY <1>b, <2>1, <2>3, <3>1, <4>2, <4>3
    <3> QED BY <3>2, <3>3
  <2> QED BY <2>5, <2>6
<1>4. ASSUME NEW r \in Requests, NEW immediate \in BOOLEAN, OnIncomingSyncRequest(r, immediate) PROVE Told'
  <2>1. UNCHANGED <<mine, currPos, streamPos, hasStream, closed>>
    BY <1>4 DEF OnIncomingSyncRequest, tables, notifier
  <2>2. \A q \in Requests : pc'[q] = "select" => pc[q] = "select" /\ since'[q] = since[q]
    BY <1>4, <1>c DEF OnIncomingSyncRequest
  <2> QED BY <1>b, <2>1, <2>2
<1>5. ASSUME NEW r \in Requests, NEW swept \in BOOLEAN, GetListener(r, swept) PROVE Told'
  <2>1. /\ UNCHANGED <<mine, currPos, since, closed>>
        /\ (streamPos' = streamPos /\ hasStream) \/ streamPos' = currPos
    BY <1>5 DEF GetListener, tables
  <2>2. \A q \in Requests : pc'[q] = "select" => pc[q] = "select"
    BY <1>5, <1>c DEF GetListener
  <2> QED BY <1>a, <1>b, <2>1, <2>2
<1>6. ASSUME NEW r \in Requests, GetNotifyChannel(r) PROVE Told'
  <2>1. UNCHANGED <<mine, currPos, streamPos, hasStream, since>>
    BY <1>6 DEF GetNotifyChannel, tables, notifier
  <2>2. hasStream
    BY <1>6 DEF GetNotifyChannel, ListenInv
  <2>3. IsAfter(streamPos, since[r]) \in BOOLEAN
    BY DEF IsAfter
  <2>4. closed'[r] = IsAfter(streamPos, since[r])
    BY <1>6, <1>c DEF GetNotifyChannel
  <2>5. ~closed'[r] => streamPos[j] <= since[r][j]
    BY SMTT(30), <1>a, <2>4 DEF IsAfter
  <2>6. \A q \in Requests : q # r => pc'[q] = pc[q] /\ closed'[q] = closed[q]
    BY <1>6, <1>c, <2>3 DEF GetNotifyChannel
  <2>7. p \in mine[j] /\ p \in Nat
    BY <1>a, <1>c, <2>1
  <2>8. p <= currPos[j] /\ ~closed'[r] => p <= since[r][j]
    BY SMTT(30), <1>a, <1>b, <2>2, <2>5, <2>7
  <2> QED BY <1>b, <2>1, <2>6, <2>7, <2>8
<1>7. ASSUME NEW r \in Requests, WakeUp(r) PROVE Told'
  BY <1>7, <1>b, <1>c DEF WakeUp, tables, notifier, requests, client
<1>8. ASSUME NEW r \in Requests, GiveUp(r) PROVE Told'
  BY <1>8, <1>b, <1>c DEF GiveUp, tables, notifier, requests, client
<1>9. ASSUME NEW r \in Requests, ReadStream(r) PROVE Told'
  <2>1. UNCHANGED <<mine, currPos, streamPos, hasStream, closed, since>>
    BY <1>9 DEF ReadStream, tables, notifier
  <2>2. \A q \in Requests : pc'[q] = "select" => pc[q] = "select"
    BY <1>9, <1>c DEF ReadStream
  <2> QED BY <1>b, <2>1, <2>2
<1>10. ASSUME NEW r \in Requests, ReadFails(r) PROVE Told'
  BY <1>10, <1>b, <1>c DEF ReadFails, tables, notifier, requests, client
<1>11. ASSUME NEW r \in Requests, CleanSendToDevice(r) PROVE Told'
  BY <1>11, <1>b, <1>c DEF CleanSendToDevice, tables, notifier, requests, client
<1>12. ASSUME NEW r \in Requests, CleanFails(r) PROVE Told'
  BY <1>12, <1>b, <1>c DEF CleanFails, tables, notifier, requests, client
<1>13. ASSUME NEW r \in Requests, AccountDataPosition(r) PROVE Told'
  BY <1>13, <1>b, <1>c DEF AccountDataPosition, tables, notifier, requests, client
<1>14. ASSUME NEW r \in Requests, Respond(r) PROVE Told'
  <2>1. pc' = [pc EXCEPT ![r] = "idle"] /\ closed' = [closed EXCEPT ![r] = FALSE]
        /\ since' = [since EXCEPT ![r] = ZeroToken] /\ UNCHANGED <<mine, currPos, streamPos, hasStream>>
    BY <1>14 DEF Respond, Return, tables, notifier
  <2>2. \A q \in Requests : pc'[q] = "select" => q # r
    BY <1>c, <2>1
  <2>3. \A q \in Requests : q # r => /\ pc'[q] = pc[q] /\ closed'[q] = closed[q]
                                     /\ since'[q] = since[q]
    BY <1>c, <2>1
  <2> QED BY <1>b, <2>1, <2>2, <2>3
<1>15. ASSUME NEW r \in Requests, ResponseLost(r) PROVE Told'
  <2>1. pc' = [pc EXCEPT ![r] = "idle"] /\ closed' = [closed EXCEPT ![r] = FALSE]
        /\ since' = [since EXCEPT ![r] = ZeroToken] /\ UNCHANGED <<mine, currPos, streamPos, hasStream>>
    BY <1>15 DEF ResponseLost, Return, tables, notifier
  <2>2. \A q \in Requests : pc'[q] = "select" => q # r
    BY <1>c, <2>1
  <2>3. \A q \in Requests : q # r => /\ pc'[q] = pc[q] /\ closed'[q] = closed[q]
                                     /\ since'[q] = since[q]
    BY <1>c, <2>1
  <2> QED BY <1>b, <2>1, <2>2, <2>3
<1>16. CASE Restart
  BY <1>16, <1>b, <1>c DEF Restart, tables
<1>17. CASE UNCHANGED vars
  BY <1>17, <1>b DEF vars, tables, notifier, requests, client
<1> QED
  BY ZenonT(60), <1>1, <1>2, <1>3, <1>4, <1>5, <1>6, <1>7, <1>8, <1>9, <1>10, <1>11, <1>12, <1>13, <1>14, <1>15, <1>16, <1>17, NextCases

-----------------------------------------------------------------------------
(* The theorems.                                                             *)

\* A server that has just been set up has promised nothing.
LEMMA InitPromises == Init => DeliveryInv /\ WakeInv
<1> SUFFICES ASSUME Init PROVE DeliveryInv /\ WakeInv
  OBVIOUS
<1>1. \A k \in Kinds : ZeroToken[k] = 0 /\ NoItems[k] = {}
  BY DEF ZeroToken, NoItems
<1>2. DeliveryInv
  BY <1>1, KindFacts DEF Init, DeliveryInv
<1>3. WakeInv
  BY <1>1, KindFacts DEF Init, WakeInv
<1> QED BY <1>2, <1>3

\* Tokens keep their promises as long as reads of room events do not fail.
LEMMA DeliveryInvariance ==
    ASSUME "pdu" \notin FailingReads
    PROVE  Spec => []DeliveryInv
<1>1. IInv /\ DeliveryInv /\ [Next]_vars => DeliveryInv'
  BY DeliveryStep DEF IInv
<1> QED BY <1>1, InitPromises, Invariance, PTL DEF Spec

\* A client that follows its tokens misses no room event, invite or to-device
\* message, with any number of requests open, responses lost, and restarts.
\* The reads of room events must not fail: PDUStreamProvider.IncrementalSync
\* returns `to` when they do.
THEOREM ClientMissesNothing ==
    ASSUME "pdu" \notin FailingReads
    PROVE  Spec => []NothingMissed
<1>1. DeliveryInv => NothingMissed
  BY DEF DeliveryInv, NothingMissed, NotMissed
<1> QED BY <1>1, DeliveryInvariance, PTL

\* CleanSendToDeviceUpdates deletes only what the client has received.
THEOREM DeletedIsReceived ==
    ASSUME "pdu" \notin FailingReads
    PROVE  Spec => []KeptUntilReceived
<1>1. DeliveryInv => KeptUntilReceived
  BY DEF DeliveryInv, KeptUntilReceived, Exact
<1> QED BY <1>1, DeliveryInvariance, PTL

\* Without an account data stream no wake-up is lost: between GetListener,
\* GetNotifyChannel and Broadcast there is no gap.  (OnNewAccountData replaces
\* the position of the device's stream, so a wake-up can be lost with it.)
THEOREM WakeUpsAreKept ==
    ASSUME "account" \notin Kinds
    PROVE  Spec => []NoLostWakeUp
<1>1. IInv /\ WakeInv /\ [Next]_vars => WakeInv'
  BY WakeStep DEF IInv
<1>2. IInv /\ WakeInv => NoLostWakeUp
  <2> SUFFICES ASSUME IInv, WakeInv, NEW r \in Requests, pc[r] = "select", ~closed[r],
                      NEW k \in Exact, NEW p \in mine[k], p <= currPos[k]
               PROVE  ~(since[r][k] < p)
    BY DEF NoLostWakeUp
  <2>1. p <= since[r][k]
    BY DEF WakeInv
  <2>2. p \in Nat /\ since[r][k] \in Nat
    BY SMTT(30), KindFacts DEF IInv, TypeOK
  <2> QED BY SMTT(30), <2>1, <2>2
<1> QED BY <1>1, <1>2, InitPromises, Invariance, PTL DEF Spec
=============================================================================
