------------------------ MODULE OutgoingQueuesProofs ------------------------
(***************************************************************************)
(* For any sets of PDUs, EDUs and queue objects and any limits: the queues *)
(* of a destination implement the at-least-once outbox of DurableOutbox,   *)
(* their lists in memory never outgrow the limit and hold no item twice,   *)
(* and no call blocks on a backoff.                                        *)
(*                                                                         *)
(* The key is that whatever a queue holds in memory is Known: it has a row *)
(* or the destination has already received it.  Known only grows, because  *)
(* a row is deleted only for what a worker got an answer for.              *)
(***************************************************************************)
EXTENDS OutgoingQueues, TLAPS, SequenceTheorems, FiniteSetTheorems

Known == rows \cup received

\* A worker at one of these steps has the destination's answer.
Answered == {"cleanpdus", "cleanedus", "sent"}

Shape ==
  /\ rows \subseteq Items /\ received \subseteq Items
  /\ pending \in [Queues -> [Kinds -> Seq(Known)]]
  /\ toSend \in [Queues -> [Kinds -> Seq(Known)]]
  /\ DOMAIN wpc = Queues
  /\ DOMAIN cpc = Calls

AnsweredIsReceived ==
  \A q \in Queues : wpc[q] \in Answered => \A k \in Kinds : toSend[q][k] \in Seq(received)

AssociatedIsKnown == \A i \in Items : cpc[i] = "append" => i \in Known

\* While a worker sends, its batch is the front of its lists.
BatchIsFront ==
  \A q \in Queues, k \in Kinds :
    wpc[q] \in {"sending"} \cup Answered =>
      /\ Len(toSend[q][k]) <= Len(pending[q][k])
      /\ \A j \in 1..Len(toSend[q][k]) : toSend[q][k][j] = pending[q][k][j]

IInv ==
  Shape /\ AnsweredIsReceived /\ AssociatedIsKnown /\ MemoryBounded /\ BatchIsFront

\* The elements of a sequence over S are in S.
LEMMA ElementsSubset ==
  ASSUME NEW S, NEW s \in Seq(S)
  PROVE  Elements(s) \subseteq S
BY ElementOfSeq, LenProperties DEF Elements

\* A sequence whose elements are in T is a sequence over T.
LEMMA SeqOverElements ==
  ASSUME NEW S, NEW T, NEW s \in Seq(S), Elements(s) \subseteq T
  PROVE  s \in Seq(T)
<1>1. \A j \in 1..Len(s) : s[j] \in T
  BY DEF Elements
<1>2. QED
  BY <1>1

\* What Append keeps.
LEMMA AppendKeeps ==
  ASSUME NEW S, NEW s \in Seq(S), NEW e \in S
  PROVE  /\ Append(s, e) \in Seq(S)
         /\ Len(Append(s, e)) = Len(s) + 1
         /\ \A j \in 1..Len(s) : Append(s, e)[j] = s[j]
         /\ Len(s) \in Nat
BY AppendProperties, LenProperties

\* Lists over a smaller set are lists over a larger one.
LEMMA ListsMonotonic ==
  ASSUME NEW S, NEW T, S \subseteq T, NEW f \in [Queues -> [Kinds -> Seq(S)]]
  PROVE  f \in [Queues -> [Kinds -> Seq(T)]]
BY SeqMonotonic

\* The empty lists.
LEMMA EmptyLists == ASSUME NEW S PROVE Empty \in [Kinds -> Seq(S)]
BY EmptySeq DEF Empty

\* A function on 1..n is a sequence of length n.
LEMMA FunctionIsSeq ==
  ASSUME NEW n \in Nat, NEW S, NEW f \in [1..n -> S]
  PROVE  f \in Seq(S) /\ Len(f) = n
OBVIOUS

\* What a refill may add are rows of the destination, and no more of them
\* than there is room for.
LEMMA FetchedFits ==
  ASSUME NEW k \in Kinds, NEW s \in Seq(Known), Len(s) <= MaxInMemory,
         rows \subseteq Items, NEW t \in Fetched(k, s)
  PROVE  /\ t \in Seq(Known)
         /\ Len(s) + Len(t) <= MaxInMemory
<1> DEFINE room == MaxInMemory - Len(s)
           mine == rows \cap ItemsOf(k)
           n == IF Cardinality(mine) < room THEN Cardinality(mine) ELSE room
<1>1. IsFiniteSet(mine) /\ Cardinality(mine) \in Nat
  BY ItemsFinite, FS_Subset, FS_CardinalityType, mine \subseteq Items
<1>2. Len(s) \in Nat /\ room \in Int /\ MaxInMemory \in Nat
  BY LenProperties, LimitsPositive
<1>3. CASE t = <<>>
  BY <1>2, <1>3, EmptySeq
<1>4. CASE t # <<>>
  <2>1. PICK S \in SUBSET mine : Cardinality(S) = n /\ t \in Orders(S \ Elements(s)) /\ room > 0
    BY <1>4, ZenonT(30) DEF Fetched
  <2> DEFINE R == S \ Elements(s)
  <2>2. IsFiniteSet(R) /\ Cardinality(R) \in Nat /\ Cardinality(R) <= Cardinality(S)
    BY <1>1, FS_Subset, FS_CardinalityType, R \subseteq S, S \subseteq mine
  <2>3. t \in [1..Cardinality(R) -> R]
    BY <2>1, ZenonT(30) DEF Orders
  <2>4. t \in Seq(R) /\ Len(t) = Cardinality(R)
    BY <2>2, <2>3, FunctionIsSeq, ZenonT(30)
  <2>5. R \subseteq Known
    BY DEF Known
  <2>6. t \in Seq(Known)
    BY <2>4, <2>5, SeqMonotonic
  <2>7. Cardinality(S) <= room
    BY <2>1, <1>1, <1>2
  <2>8. Cardinality(S) \in Nat
    BY SMTT(30), <1>1, FS_Subset, FS_CardinalityType
  <2>9. QED
    BY SMTT(30), <2>2, <2>4, <2>6, <2>7, <2>8, <1>2
<1>5. QED
  BY <1>3, <1>4

-----------------------------------------------------------------------------
(* Every step is a step of the outbox, or leaves it alone *)

\* A step of the queues is a step of the outbox, or a stutter.
LEMMA OutboxStep ==
  ASSUME IInv, [Next]_vars
  PROVE  [Outbox!Next]_(Outbox!vars)
<1> USE DEF IInv, Outbox!Next, Outbox!Accept, Outbox!Deliver, Outbox!Forget, Outbox!vars
<1>1. ASSUME NEW i \in Items, Associate(i)
      PROVE  [Outbox!Next]_(Outbox!vars)
  BY <1>1 DEF Associate
<1>2. ASSUME NEW q \in Queues, SendAnswered(q) \/ SendFailed(q)
      PROVE  [Outbox!Next]_(Outbox!vars)
  <2>1. toSend[q]["pdu"] \in Seq(Known) /\ toSend[q]["edu"] \in Seq(Known)
    BY DEF Shape, Kinds
  <2>2. Sent(q) \subseteq Known /\ Known \subseteq Items
    BY <2>1, ElementsSubset DEF Sent, Known, Shape
  <2>3. CASE received' = received \cup Sent(q)
    <3>1. UNCHANGED rows
      BY <1>2 DEF SendAnswered, SendFailed
    <3>2. Sent(q) \in SUBSET Items /\ Outbox!Deliver(Sent(q))
      BY <2>2, <2>3, <3>1 DEF Known
    <3>3. QED
      BY <3>2 DEF Outbox!Next
  <2>4. CASE received' = received
    BY <1>2, <2>4 DEF SendAnswered, SendFailed
  <2>5. QED
    BY <1>2, <2>3, <2>4 DEF SendAnswered, SendFailed
<1>3. ASSUME NEW q \in Queues, CleanPDUs(q) \/ CleanEDUs(q)
      PROVE  [Outbox!Next]_(Outbox!vars)
  <2>1. PICK k \in Kinds : rows' \in {rows, rows \ Elements(toSend[q][k])}
    BY <1>3 DEF CleanPDUs, CleanEDUs, Kinds
  <2>2. toSend[q][k] \in Seq(received)
    BY <1>3 DEF CleanPDUs, CleanEDUs, At, AnsweredIsReceived, Answered
  <2>3. Elements(toSend[q][k]) \subseteq received /\ received \subseteq Items
    BY <2>2, ElementsSubset DEF Shape
  <2>4. UNCHANGED received
    BY <1>3 DEF CleanPDUs, CleanEDUs
  <2>5. CASE rows' = rows \ Elements(toSend[q][k])
    <3>1. Elements(toSend[q][k]) \in SUBSET Items /\ Outbox!Forget(Elements(toSend[q][k]))
      BY <2>3, <2>4, <2>5
    <3>2. QED
      BY <3>1 DEF Outbox!Next
  <2>6. QED
    BY SMTT(30), <2>1, <2>4, <2>5
<1>4. ASSUME UNCHANGED <<rows, received>>
      PROVE  [Outbox!Next]_(Outbox!vars)
  BY SMTT(30), <1>4
<1>5. ASSUME NEW i \in Items, SendBegin(i) \/ AppendPending(i) \/ wakeQueueIfNeeded(i) \/ Notify(i)
      PROVE  UNCHANGED <<rows, received>>
  BY SMTT(30), <1>5 DEF SendBegin, AppendPending, wakeQueueIfNeeded, Notify
<1>6. ASSUME RetryServer \/ HydrateQueues \/ OtherRequest \/ BackoffElapses \/ Crash
             \/ UNCHANGED vars \/ \E c \in {Retry, Hydrate} : Wake(c)
      PROVE  UNCHANGED <<rows, received>>
  BY <1>6 DEF RetryServer, HydrateQueues, OtherRequest, BackoffElapses, Crash, Wake,
              wakeQueueIfNeeded, vars
<1>7. ASSUME NEW q \in Queues,
             \/ BackgroundStart(q) \/ LoopTop(q) \/ Notified(q) \/ IdleTimeout(q)
             \/ CheckBackoff(q) \/ BackoffDone(q) \/ Snapshot(q) \/ DropSent(q) \/ clearQueue(q)
      PROVE  UNCHANGED <<rows, received>>
  BY <1>7, ZenonT(30) DEF BackgroundStart, LoopTop, Notified, IdleTimeout, CheckBackoff, BackoffDone,
              Snapshot, DropSent, clearQueue
<1>8. QED
  BY SMTT(30), <1>1, <1>2, <1>3, <1>4, <1>5, <1>6, <1>7 DEF Next, Send, Worker

\* No step forgets an item that was once associated.
LEMMA KnownGrows ==
  ASSUME rows \subseteq Items, received \subseteq Items, [Outbox!Next]_(Outbox!vars)
  PROVE  /\ Known \subseteq Known' /\ received \subseteq received'
         /\ rows' \subseteq Items /\ received' \subseteq Items
BY DEF Known, Outbox!Next, Outbox!Accept, Outbox!Deliver, Outbox!Forget, Outbox!vars

-----------------------------------------------------------------------------
(* The inductive invariant *)

\* The inductive invariant holds when the process starts with empty tables.
LEMMA InitIInv == Init => IInv
<1> SUFFICES ASSUME Init PROVE IInv
  OBVIOUS
<1> USE DEF Init
<1>1. Shape
  BY EmptyLists DEF Shape
<1>2. AnsweredIsReceived /\ BatchIsFront
  BY DEF AnsweredIsReceived, BatchIsFront, Answered
<1>3. AssociatedIsKnown
  BY DEF AssociatedIsKnown, Calls
<1>4. MemoryBounded
  BY LimitsPositive DEF MemoryBounded, Empty
<1>5. QED
  BY <1>1, <1>2, <1>3, <1>4 DEF IInv

\* A step that leaves the lists and the workers alone.
LEMMA ListsUntouched ==
  ASSUME IInv, [Outbox!Next]_(Outbox!vars), UNCHANGED <<pending, toSend, wpc>>,
         DOMAIN cpc' = Calls, AssociatedIsKnown'
  PROVE  IInv'
<1>1. Known \subseteq Known' /\ received \subseteq received' /\ rows' \subseteq Items
      /\ received' \subseteq Items
  BY KnownGrows DEF IInv, Shape
<1>2. Shape'
  BY <1>1, ListsMonotonic DEF IInv, Shape
<1>3. AnsweredIsReceived'
  BY <1>1, SeqMonotonic DEF IInv, AnsweredIsReceived
<1>4. MemoryBounded' /\ BatchIsFront'
  BY DEF IInv, MemoryBounded, BatchIsFront
<1>5. QED
  BY <1>2, <1>3, <1>4 DEF IInv

\* A step of queue q's worker, which replaces the lists of q only.
LEMMA WorkerStep ==
  ASSUME IInv, [Outbox!Next]_(Outbox!vars), NEW q \in Queues, UNCHANGED cpc,
         NEW p \in [Kinds -> Seq(Known)], NEW t \in [Kinds -> Seq(Known)], NEW w,
         pending' = [pending EXCEPT ![q] = p],
         toSend' = [toSend EXCEPT ![q] = t],
         wpc' = [wpc EXCEPT ![q] = w],
         w \in Answered => \A k \in Kinds : t[k] \in Seq(received'),
         w \in {"sending"} \cup Answered =>
           \A k \in Kinds : /\ Len(t[k]) <= Len(p[k])
                           /\ \A j \in 1..Len(t[k]) : t[k][j] = p[k][j],
         \A k \in Kinds : Len(p[k]) <= MaxInMemory
  PROVE  IInv'
<1> USE DEF IInv
<1>1. Known \subseteq Known' /\ received \subseteq received' /\ rows' \subseteq Items
      /\ received' \subseteq Items
  BY SMTT(30), KnownGrows DEF Shape
<1>2. Shape'
  <2>1. pending' \in [Queues -> [Kinds -> Seq(Known)]] /\ toSend' \in [Queues -> [Kinds -> Seq(Known)]]
    BY DEF Shape
  <2>2. pending' \in [Queues -> [Kinds -> Seq(Known')]] /\ toSend' \in [Queues -> [Kinds -> Seq(Known')]]
    BY SMTT(30), <1>1, <2>1, ListsMonotonic
  <2>3. QED
    BY SMTT(30), <1>1, <2>2 DEF Shape
<1>3. AnsweredIsReceived'
  <2> SUFFICES ASSUME NEW r \in Queues, NEW k \in Kinds, wpc'[r] \in Answered
               PROVE  toSend'[r][k] \in Seq(received')
    BY DEF AnsweredIsReceived
  <2>1. CASE r = q
    BY <2>1 DEF Shape
  <2>2. CASE r # q
    <3>1. toSend'[r][k] \in Seq(received)
      BY <2>2 DEF Shape, AnsweredIsReceived
    <3>2. QED
      BY SMTT(30), <1>1, <3>1, SeqMonotonic
  <2>3. QED
    BY SMTT(30), <2>1, <2>2
<1>4. AssociatedIsKnown'
  BY SMTT(30), <1>1 DEF AssociatedIsKnown
<1>5. MemoryBounded'
  BY SMTT(30) DEF MemoryBounded, Shape
<1>6. BatchIsFront'
  <2> SUFFICES ASSUME NEW r \in Queues, NEW k \in Kinds, wpc'[r] \in {"sending"} \cup Answered
               PROVE  /\ Len(toSend'[r][k]) <= Len(pending'[r][k])
                      /\ \A j \in 1..Len(toSend'[r][k]) : toSend'[r][k][j] = pending'[r][k][j]
    BY DEF BatchIsFront
  <2>1. CASE r = q
    BY SMTT(30), <2>1 DEF Shape
  <2>2. CASE r # q
    BY <2>2 DEF Shape, BatchIsFront
  <2>3. QED
    BY SMTT(30), <2>1, <2>2
<1>7. QED
  BY SMTT(30), <1>2, <1>3, <1>4, <1>5, <1>6

\* The front of a list.
LEMMA BatchProperties ==
  ASSUME NEW S, NEW s \in Seq(S)
  PROVE  /\ Batch(s) \in Seq(S)
         /\ Len(Batch(s)) <= Len(s)
         /\ \A j \in 1..Len(Batch(s)) : Batch(s)[j] = s[j]
<1> DEFINE n == IF Len(s) > MaxPerTransaction THEN MaxPerTransaction ELSE Len(s)
<1>1. n \in Nat /\ n <= Len(s) /\ Len(s) \in Nat
  BY LenProperties, LimitsPositive
<1>2. \A i \in 1..n : s[i] \in S
  BY SMTT(30), <1>1, ElementOfSeq
<1>3. /\ SubSeq(s, 1, n) \in Seq(S)
      /\ Len(SubSeq(s, 1, n)) = IF 1 <= n THEN n - 1 + 1 ELSE 0
      /\ \A i \in 1..(n - 1 + 1) : SubSeq(s, 1, n)[i] = s[1 + i - 1]
  BY SMTT(30), <1>1, <1>2, SubSeqProperties
<1>4. Batch(s) = SubSeq(s, 1, n)
  BY DEF Batch
<1> HIDE DEF n
<1>5. QED
  BY <1>1, <1>3, <1>4

\* What is left of a list when its first n elements are cut off.
LEMMA CutProperties ==
  ASSUME NEW S, NEW s \in Seq(S), NEW n \in Nat
  PROVE  /\ SubSeq(s, n + 1, Len(s)) \in Seq(S)
         /\ Len(SubSeq(s, n + 1, Len(s))) \in Nat
         /\ Len(SubSeq(s, n + 1, Len(s))) <= Len(s)
<1>1. Len(s) \in Nat
  BY LenProperties
<1>2. \A i \in (n + 1)..Len(s) : s[i] \in S
  BY SMTT(30), <1>1, ElementOfSeq
<1>3. /\ SubSeq(s, n + 1, Len(s)) \in Seq(S)
      /\ Len(SubSeq(s, n + 1, Len(s))) = IF n + 1 <= Len(s) THEN Len(s) - (n + 1) + 1 ELSE 0
  BY SMTT(30), <1>1, <1>2, SubSeqProperties
<1>4. QED
  BY <1>1, <1>3

\* The steps of a worker that replace nothing but its own place in the loop.
LEMMA WorkerMoves ==
  ASSUME IInv, [Next]_vars, NEW q \in Queues,
         BackgroundStart(q) \/ Notified(q) \/ IdleTimeout(q) \/ BackoffDone(q)
  PROVE  IInv'
<1>1. [Outbox!Next]_(Outbox!vars) /\ UNCHANGED <<cpc, pending, toSend>>
  BY SMTT(30), OutboxStep DEF BackgroundStart, Notified, IdleTimeout, BackoffDone, callVars
<1>2. PICK w : \/ w \notin {"sending"} \cup Answered /\ wpc' = [wpc EXCEPT ![q] = w]
               \/ wpc' = wpc
  BY SMTT(30) DEF BackgroundStart, Notified, IdleTimeout, BackoffDone, Go, Answered
<1>3. pending[q] \in [Kinds -> Seq(Known)] /\ toSend[q] \in [Kinds -> Seq(Known)]
      /\ pending' = [pending EXCEPT ![q] = pending[q]]
      /\ toSend' = [toSend EXCEPT ![q] = toSend[q]]
      /\ \A k \in Kinds : Len(pending[q][k]) <= MaxInMemory
  BY <1>1 DEF IInv, Shape, MemoryBounded
<1>4. CASE wpc' = wpc
  <2>1. AssociatedIsKnown' /\ DOMAIN cpc' = Calls
    BY <1>1, KnownGrows DEF IInv, AssociatedIsKnown, Shape
  <2>2. QED
    BY SMTT(30), <1>1, <1>4, <2>1, ListsUntouched
<1>5. CASE wpc' # wpc
  BY <1>1, <1>2, <1>3, <1>5, WorkerStep, ZenonT(30)
<1>6. QED
  BY SMTT(30), <1>4, <1>5

\* The top of the loop: the lists grow by what the database returns.
LEMMA LoopTopStep ==
  ASSUME IInv, [Next]_vars, NEW q \in Queues, LoopTop(q)
  PROVE  IInv'
<1>1. [Outbox!Next]_(Outbox!vars) /\ UNCHANGED <<cpc, toSend>> /\ wpc' = [wpc EXCEPT ![q] = "select"]
  BY OutboxStep DEF LoopTop, callVars, Go
<1>2. /\ pending[q] \in [Kinds -> Seq(Known)] /\ toSend[q] \in [Kinds -> Seq(Known)]
      /\ toSend' = [toSend EXCEPT ![q] = toSend[q]]
      /\ \A k \in Kinds : Len(pending[q][k]) <= MaxInMemory
      /\ rows \subseteq Items
  BY <1>1 DEF IInv, Shape, MemoryBounded
<1>3. CASE UNCHANGED pending
  <2>1. pending' = [pending EXCEPT ![q] = pending[q]]
    BY <1>3 DEF IInv, Shape
  <2>2. QED
    BY <1>1, <1>2, <2>1, WorkerStep, ZenonT(30) DEF Answered
<1>4. CASE getPendingFromDatabase(q)
  <2>1. PICK new \in [pdu : Fetched("pdu", pending[q]["pdu"]), edu : Fetched("edu", pending[q]["edu"])] :
          pending' = [pending EXCEPT ![q] = [k \in Kinds |-> pending[q][k] \o new[k]]]
    BY <1>4, ZenonT(30) DEF getPendingFromDatabase
  <2> DEFINE now == [k \in Kinds |-> pending[q][k] \o new[k]]
  <2>2. \A k \in Kinds : new[k] \in Fetched(k, pending[q][k])
    BY DEF Kinds
  <2>3. ASSUME NEW k \in Kinds
        PROVE  now[k] \in Seq(Known) /\ Len(now[k]) <= MaxInMemory
    <3>1. pending[q][k] \in Seq(Known) /\ Len(pending[q][k]) <= MaxInMemory
      BY <1>2
    <3>2. new[k] \in Seq(Known) /\ Len(pending[q][k]) + Len(new[k]) <= MaxInMemory
      BY <1>2, <2>2, <3>1, FetchedFits, ZenonT(30)
    <3>3. QED
      BY <3>1, <3>2, ConcatProperties, ZenonT(30)
  <2>4. now \in [Kinds -> Seq(Known)]
    BY <2>3, ZenonT(30)
  <2>5. pending' = [pending EXCEPT ![q] = now]
    BY <2>1
  <2> HIDE DEF now
  <2>6. QED
    BY <1>1, <1>2, <2>3, <2>4, <2>5, WorkerStep, ZenonT(30) DEF Answered
<1>5. QED
  BY SMTT(30), <1>3, <1>4 DEF LoopTop

\* The steps of a worker that take a batch, give up or stop.
LEMMA WorkerTakes ==
  ASSUME IInv, [Next]_vars, NEW q \in Queues,
         CheckBackoff(q) \/ Snapshot(q) \/ clearQueue(q)
  PROVE  IInv'
<1>1. [Outbox!Next]_(Outbox!vars) /\ UNCHANGED cpc
  BY OutboxStep DEF CheckBackoff, Snapshot, clearQueue, callVars
<1>2. /\ pending[q] \in [Kinds -> Seq(Known)] /\ toSend[q] \in [Kinds -> Seq(Known)]
      /\ toSend = [toSend EXCEPT ![q] = toSend[q]]
      /\ pending = [pending EXCEPT ![q] = pending[q]]
      /\ \A k \in Kinds : Len(pending[q][k]) <= MaxInMemory
  BY DEF IInv, Shape, MemoryBounded
<1>3. Empty \in [Kinds -> Seq(Known)] /\ \A k \in Kinds : Len(Empty[k]) <= MaxInMemory
  BY EmptyLists, LimitsPositive DEF Empty
<1>4. CASE CheckBackoff(q)
  <2>1. PICK p \in {Empty, pending[q]} : pending' = [pending EXCEPT ![q] = p]
    BY SMTT(30), <1>2, <1>4 DEF CheckBackoff
  <2>2. PICK w \in {"stop", "backoff", "snapshot"} : wpc' = [wpc EXCEPT ![q] = w]
    BY SMTT(30), <1>4 DEF CheckBackoff, Go
  <2>3. toSend' = [toSend EXCEPT ![q] = toSend[q]]
    BY SMTT(30), <1>2, <1>4 DEF CheckBackoff
  <2>4. p \in [Kinds -> Seq(Known)] /\ \A k \in Kinds : Len(p[k]) <= MaxInMemory
    BY <1>2, <1>3
  <2>5. QED
    BY <1>1, <1>2, <2>1, <2>2, <2>3, <2>4, WorkerStep, ZenonT(30) DEF Answered
<1>5. CASE clearQueue(q)
  <2>1. /\ pending' = [pending EXCEPT ![q] = Empty]
        /\ toSend' = [toSend EXCEPT ![q] = toSend[q]]
        /\ wpc' = [wpc EXCEPT ![q] = "none"]
    BY <1>2, <1>5 DEF clearQueue, Go
  <2>2. QED
    BY <1>1, <1>2, <1>3, <2>1, WorkerStep, ZenonT(30) DEF Answered
<1>6. CASE Snapshot(q)
  <2> DEFINE t == [k \in Kinds |-> Batch(pending[q][k])]
  <2>1. PICK w \in {"top", "sending"} : wpc' = [wpc EXCEPT ![q] = w]
    BY <1>6, ZenonT(30) DEF Snapshot, Go
  <2>2. /\ pending' = [pending EXCEPT ![q] = pending[q]]
        /\ toSend' = [toSend EXCEPT ![q] = t]
    BY SMTT(30), <1>2, <1>6 DEF Snapshot
  <2>3. \A k \in Kinds : /\ t[k] \in Seq(Known)
                         /\ Len(t[k]) <= Len(pending[q][k])
                         /\ \A j \in 1..Len(t[k]) : t[k][j] = pending[q][k][j]
    BY SMTT(30), <1>2, BatchProperties
  <2>4. t \in [Kinds -> Seq(Known)]
    BY <2>3
  <2> HIDE DEF t
  <2>5. QED
    BY <1>1, <1>2, <2>1, <2>2, <2>3, <2>4, WorkerStep, ZenonT(30) DEF Answered
<1>7. QED
  BY ZenonT(30), <1>4, <1>5, <1>6

\* The transaction: sent, answered or failed, and what it carried forgotten.
LEMMA WorkerSends ==
  ASSUME IInv, [Next]_vars, NEW q \in Queues,
         SendAnswered(q) \/ SendFailed(q) \/ CleanPDUs(q) \/ CleanEDUs(q) \/ DropSent(q)
  PROVE  IInv'
<1>1. [Outbox!Next]_(Outbox!vars) /\ UNCHANGED cpc
  BY OutboxStep, ZenonT(30) DEF SendAnswered, SendFailed, CleanPDUs, CleanEDUs, DropSent, callVars
<1>2. /\ pending[q] \in [Kinds -> Seq(Known)] /\ toSend[q] \in [Kinds -> Seq(Known)]
      /\ toSend = [toSend EXCEPT ![q] = toSend[q]]
      /\ pending = [pending EXCEPT ![q] = pending[q]]
      /\ \A k \in Kinds : Len(pending[q][k]) <= MaxInMemory
  BY DEF IInv, Shape, MemoryBounded
<1>3. Empty \in [Kinds -> Seq(Known)]
  BY EmptyLists
<1>4. received \subseteq received'
  BY <1>1, KnownGrows DEF IInv, Shape
<1>5. CASE SendFailed(q)
  <2>1. /\ pending' = [pending EXCEPT ![q] = pending[q]]
        /\ toSend' = [toSend EXCEPT ![q] = Empty]
        /\ wpc' = [wpc EXCEPT ![q] = "top"]
    BY <1>2, <1>5 DEF SendFailed, Go
  <2>2. QED
    BY <1>1, <1>2, <1>3, <2>1, WorkerStep, ZenonT(30) DEF Answered
<1>6. CASE SendAnswered(q) \/ CleanPDUs(q) \/ CleanEDUs(q)
  <2>1. PICK w \in Answered : wpc' = [wpc EXCEPT ![q] = w]
    BY <1>6, ZenonT(30) DEF SendAnswered, CleanPDUs, CleanEDUs, Go, Answered
  <2>2. /\ pending' = [pending EXCEPT ![q] = pending[q]]
        /\ toSend' = [toSend EXCEPT ![q] = toSend[q]]
    BY <1>2, <1>6 DEF SendAnswered, CleanPDUs, CleanEDUs
  <2>3. wpc[q] \in {"sending"} \cup Answered
    BY <1>6, ZenonT(30) DEF SendAnswered, CleanPDUs, CleanEDUs, At, Answered
  <2>4. \A k \in Kinds : /\ Len(toSend[q][k]) <= Len(pending[q][k])
                         /\ \A j \in 1..Len(toSend[q][k]) : toSend[q][k][j] = pending[q][k][j]
    BY <2>3, ZenonT(30) DEF IInv, BatchIsFront
  <2>5. ASSUME NEW k \in Kinds
        PROVE  toSend[q][k] \in Seq(received')
    <3>1. CASE SendAnswered(q)
      <4>1. Elements(toSend[q][k]) \subseteq received'
        BY <3>1, ZenonT(30) DEF SendAnswered, Sent, Kinds
      <4>2. toSend[q][k] \in Seq(Known)
        BY <1>2
      <4>3. QED
        BY SMTT(30), <4>1, <4>2, SeqOverElements
    <3>2. CASE CleanPDUs(q) \/ CleanEDUs(q)
      <4>1. toSend[q][k] \in Seq(received)
        BY <3>2, ZenonT(30) DEF CleanPDUs, CleanEDUs, At, Answered, IInv, AnsweredIsReceived
      <4>2. QED
        BY <1>4, <4>1, SeqMonotonic, ZenonT(30)
    <3>3. QED
      BY SMTT(30), <1>6, <3>1, <3>2
  <2>6. QED
    BY <1>1, <1>2, <2>1, <2>2, <2>4, <2>5, WorkerStep, ZenonT(30)
<1>7. CASE DropSent(q)
  <2> DEFINE p == [k \in Kinds |-> SubSeq(pending[q][k], Len(toSend[q][k]) + 1, Len(pending[q][k]))]
  <2>1. ASSUME NEW k \in Kinds
        PROVE  p[k] \in Seq(Known) /\ Len(p[k]) <= MaxInMemory
    <3>1. pending[q][k] \in Seq(Known) /\ Len(pending[q][k]) \in Nat /\ Len(toSend[q][k]) \in Nat
          /\ Len(pending[q][k]) <= MaxInMemory /\ MaxInMemory \in Nat
      BY <1>2, LenProperties, LimitsPositive
    <3>2. p[k] = SubSeq(pending[q][k], Len(toSend[q][k]) + 1, Len(pending[q][k]))
      OBVIOUS
    <3>3. p[k] \in Seq(Known) /\ Len(p[k]) \in Nat /\ Len(p[k]) <= Len(pending[q][k])
      BY <3>1, <3>2, CutProperties, ZenonT(30)
    <3>4. QED
      BY SMTT(30), <3>1, <3>3
  <2>2. p \in [Kinds -> Seq(Known)]
    BY <2>1, ZenonT(30)
  <2>3. /\ pending' = [pending EXCEPT ![q] = p]
        /\ toSend' = [toSend EXCEPT ![q] = Empty]
        /\ wpc' = [wpc EXCEPT ![q] = "top"]
    BY ZenonT(30), <1>7 DEF DropSent, Go, IInv, Shape
  <2> HIDE DEF p
  <2>4. QED
    BY <1>1, <1>3, <2>1, <2>2, <2>3, WorkerStep, ZenonT(30) DEF Answered
<1>8. QED
  BY SMTT(30), <1>5, <1>6, <1>7

\* The steps of a call, which may replace the lists of the queue it is given.
LEMMA CallStep ==
  ASSUME IInv, [Next]_vars, NEW c \in Calls,
         \/ c \in Items /\ (SendBegin(c) \/ Associate(c) \/ Notify(c))
         \/ wakeQueueIfNeeded(c)
         \/ c = Retry /\ RetryServer
         \/ c = Hydrate /\ HydrateQueues
  PROVE  IInv'
<1>1. [Outbox!Next]_(Outbox!vars)
  BY OutboxStep, ZenonT(30)
<1>2. Known \subseteq Known' /\ Retry \notin Items /\ Hydrate \notin Items
  BY <1>1, KnownGrows, KindsDisjoint, ZenonT(30) DEF IInv, Shape
<1>3. DOMAIN cpc' = Calls /\ AssociatedIsKnown'
  <2>1. PICK step : cpc' = [cpc EXCEPT ![c] = step] /\ (step = "append" => c \in Known')
    <3>1. CASE Associate(c)
      BY ZenonT(30), <3>1 DEF Associate, Finish, Step, Known
    <3>2. CASE SendBegin(c) \/ Notify(c) \/ wakeQueueIfNeeded(c)
      BY SMTT(30), <3>2 DEF SendBegin, Notify, wakeQueueIfNeeded, NoQueueFor, getQueue, Finish, Step
    <3>3. CASE c \in {Retry, Hydrate} /\ ((c = Retry /\ RetryServer) \/ (c = Hydrate /\ HydrateQueues))
      BY SMTT(30), <3>3 DEF RetryServer, HydrateQueues, NoQueueFor, getQueue, Finish, Step
    <3>4. QED
      BY SMTT(30), <3>1, <3>2, <3>3
  <2>2. QED
    BY SMTT(30), <1>2, <2>1 DEF IInv, Shape, AssociatedIsKnown
<1>4. CASE UNCHANGED <<pending, toSend, wpc>>
  BY <1>1, <1>3, <1>4, ListsUntouched
<1>5. CASE \E q \in Queues : /\ Unused(q)
                             /\ pending' = [pending EXCEPT ![q] = Empty]
                             /\ toSend' = [toSend EXCEPT ![q] = Empty]
                             /\ UNCHANGED <<wpc, rows, received>>
  <2>1. PICK q \in Queues : /\ wpc[q] = "none"
                            /\ pending' = [pending EXCEPT ![q] = Empty]
                            /\ toSend' = [toSend EXCEPT ![q] = Empty]
                            /\ UNCHANGED <<wpc, rows, received>>
    BY <1>5, ZenonT(30) DEF Unused
  <2>2. Shape'
    BY SMTT(30), <1>3, <2>1, EmptyLists DEF IInv, Shape, Known
  <2>3. AnsweredIsReceived'
    BY SMTT(30), <2>1 DEF IInv, Shape, AnsweredIsReceived, Answered
  <2>4. MemoryBounded'
    BY SMTT(30), <2>1, LimitsPositive DEF IInv, Shape, MemoryBounded, Empty
  <2>5. BatchIsFront'
    BY <2>1 DEF IInv, Shape, BatchIsFront, Answered
  <2>6. QED
    BY SMTT(30), <1>3, <2>2, <2>3, <2>4, <2>5 DEF IInv
<1>6. QED
  BY SMTT(30), <1>4, <1>5 DEF SendBegin, Associate, Notify, wakeQueueIfNeeded, RetryServer, HydrateQueues,
                    NoQueueFor, getQueue, queueVars

\* A call appends what it has persisted to the list of its queue.
LEMMA AppendStep ==
  ASSUME IInv, [Next]_vars, NEW i \in Items, AppendPending(i)
  PROVE  IInv'
<1>1. [Outbox!Next]_(Outbox!vars) /\ UNCHANGED <<rows, received, toSend, wpc>> /\ i \in Known
  BY SMTT(30), OutboxStep DEF AppendPending, IInv, AssociatedIsKnown
<1>2. DOMAIN cpc' = Calls /\ AssociatedIsKnown'
  BY <1>1 DEF AppendPending, Finish, Step, IInv, Shape, AssociatedIsKnown, Known, Calls
<1>3. CASE UNCHANGED pending
  BY SMTT(30), <1>1, <1>2, <1>3, ListsUntouched
<1>4. CASE ~UNCHANGED pending
  <2> DEFINE q == cq[i]
             k == KindOf(i)
             s == pending[q][k]
  <2>1. pending' = [pending EXCEPT ![q][k] = Append(s, i)] /\ Len(s) < MaxInMemory
    BY <1>4 DEF AppendPending
  <2>2. q \in Queues
    BY ZenonT(30), <1>4, <2>1 DEF IInv, Shape
  <2>3. k \in Kinds /\ s \in Seq(Known)
    BY <2>2 DEF KindOf, Kinds, IInv, Shape
  <2>4. /\ Append(s, i) \in Seq(Known)
        /\ Len(Append(s, i)) = Len(s) + 1
        /\ \A j \in 1..Len(s) : Append(s, i)[j] = s[j]
        /\ Len(s) \in Nat
    <3> HIDE DEF s
    <3>1. QED
      BY <1>1, <2>3, AppendKeeps, ZenonT(30)
  <2>5. /\ pending'[q][k] = Append(s, i)
        /\ \A r \in Queues, l \in Kinds : r # q \/ l # k => pending'[r][l] = pending[r][l]
        /\ pending' \in [Queues -> [Kinds -> Seq(Known)]]
    BY ZenonT(30), <2>1, <2>2, <2>3, <2>4 DEF IInv, Shape
  <2> HIDE DEF q, k, s
  <2>6. Shape'
    BY SMTT(30), <1>1, <1>2, <2>5 DEF IInv, Shape, Known
  <2>7. AnsweredIsReceived'
    BY SMTT(30), <1>1 DEF IInv, AnsweredIsReceived
  <2>8. MemoryBounded'
    BY SMTT(30), <2>1, <2>4, <2>5, LimitsPositive DEF IInv, MemoryBounded
  <2>9. BatchIsFront'
    <3> SUFFICES ASSUME NEW r \in Queues, NEW l \in Kinds, wpc[r] \in {"sending"} \cup Answered
                 PROVE  /\ Len(toSend[r][l]) <= Len(pending'[r][l])
                        /\ \A j \in 1..Len(toSend[r][l]) : toSend[r][l][j] = pending'[r][l][j]
      BY SMTT(30), <1>1 DEF BatchIsFront
    <3>1. /\ Len(toSend[r][l]) <= Len(pending[r][l]) /\ Len(toSend[r][l]) \in Nat
          /\ \A j \in 1..Len(toSend[r][l]) : toSend[r][l][j] = pending[r][l][j]
      <4>1. toSend[r][l] \in Seq(Known)
        BY SMTT(30) DEF IInv, Shape
      <4>2. Len(toSend[r][l]) \in Nat
        BY SMTT(30), <4>1, LenProperties
      <4>3. QED
        BY SMTT(30), <4>2 DEF IInv, BatchIsFront
    <3>2. CASE r # q \/ l # k
      BY ZenonT(30), <2>5, <3>1, <3>2
    <3>3. CASE r = q /\ l = k
      <4>1. pending[r][l] = s /\ pending'[r][l] = Append(s, i)
        BY SMTT(30), <2>5, <3>3 DEF s
      <4>2. Len(toSend[r][l]) <= Len(s) /\ \A j \in 1..Len(toSend[r][l]) : toSend[r][l][j] = s[j]
        BY SMTT(30), <3>1, <4>1
      <4>3. Len(toSend[r][l]) <= Len(Append(s, i))
        BY SMTT(30), <2>4, <3>1, <4>2
      <4>4. ASSUME NEW j \in 1..Len(toSend[r][l])
            PROVE  toSend[r][l][j] = Append(s, i)[j]
        <5>1. j \in 1..Len(s)
          BY SMTT(30), <2>4, <3>1, <4>2
        <5>2. QED
          BY SMTT(30), <2>4, <4>2, <5>1
      <4>5. QED
        BY ZenonT(30), <4>1, <4>3, <4>4
    <3>4. QED
      BY SMTT(30), <3>2, <3>3
  <2>10. QED
    BY ZenonT(30), <1>2, <2>6, <2>7, <2>8, <2>9 DEF IInv
<1>5. QED
  BY SMTT(30), <1>3, <1>4

\* Every step of the queues keeps the inductive invariant.
LEMMA NextIInv == IInv /\ [Next]_vars => IInv'
<1> SUFFICES ASSUME IInv, [Next]_vars PROVE IInv'
  OBVIOUS
<1>1. ASSUME NEW i \in Items, SendBegin(i) \/ Send(i) PROVE IInv'
  <2>1. i \in Calls
    BY DEF Calls
  <2>2. CASE AppendPending(i)
    BY SMTT(30), <2>2, AppendStep
  <2>3. CASE SendBegin(i) \/ Associate(i) \/ Notify(i) \/ wakeQueueIfNeeded(i)
    BY SMTT(30), <2>1, <2>3, CallStep
  <2>4. QED
    BY SMTT(30), <1>1, <2>2, <2>3 DEF Send
<1>2. ASSUME RetryServer \/ HydrateQueues \/ \E c \in {Retry, Hydrate} : Wake(c) PROVE IInv'
  <2>1. Retry \in Calls /\ Hydrate \in Calls
    BY SMTT(30) DEF Calls
  <2>2. QED
    BY SMTT(30), <1>2, <2>1, CallStep DEF Wake
<1>3. ASSUME NEW q \in Queues, Worker(q) PROVE IInv'
  BY SMTT(30), <1>3, WorkerMoves, LoopTopStep, WorkerTakes, WorkerSends DEF Worker
<1>4. ASSUME OtherRequest \/ BackoffElapses \/ UNCHANGED vars PROVE IInv'
  <2>1. UNCHANGED <<rows, received, pending, toSend, wpc, cpc>>
    BY SMTT(30), <1>4 DEF OtherRequest, BackoffElapses, vars, queueVars, callVars
  <2>2. DOMAIN cpc' = Calls /\ AssociatedIsKnown'
    BY SMTT(30), <2>1 DEF IInv, Shape, AssociatedIsKnown, Known
  <2>3. QED
    BY SMTT(30), <2>1, <2>2, OutboxStep, ListsUntouched
<1>5. ASSUME Crash PROVE IInv'
  <2> USE <1>5 DEF Crash
  <2>1. Shape'
    BY SMTT(30), EmptyLists DEF IInv, Shape, Known
  <2>2. AnsweredIsReceived' /\ BatchIsFront'
    BY SMTT(30) DEF AnsweredIsReceived, BatchIsFront, Answered
  <2>3. AssociatedIsKnown'
    BY SMTT(30) DEF AssociatedIsKnown, Calls
  <2>4. MemoryBounded'
    BY LimitsPositive DEF MemoryBounded, Empty
  <2>5. QED
    BY SMTT(30), <2>1, <2>2, <2>3, <2>4 DEF IInv
<1>6. QED
  BY SMTT(30), <1>1, <1>2, <1>3, <1>4, <1>5 DEF Next

\* Every reachable state satisfies the inductive invariant.
LEMMA Invariance == Spec => []IInv
BY InitIInv, NextIInv, PTL DEF Spec

\* The queues implement the at-least-once outbox: whatever happens, a row is
\* deleted by CleanPDUs or CleanEDUs only after the destination received the
\* item, and only items that were persisted are ever sent.
THEOREM ImplementsOutbox == Spec => IsDurableOutbox
<1>1. Init => Outbox!Init
  BY DEF Init, Outbox!Init
<1>2. IInv /\ [Next]_vars => [Outbox!Next]_(Outbox!vars)
  BY OutboxStep
<1>3. QED
  BY <1>1, <1>2, Invariance, PTL DEF Spec, Outbox!Spec, IsDurableOutbox

\* The lists that SendEvent, SendEDU and the worker of a queue all extend
\* never outgrow maxPDUsInMemory and maxEDUsInMemory.
THEOREM MemoryIsBounded == Spec => []MemoryBounded
<1>1. IInv => MemoryBounded
  BY SMTT(30) DEF IInv
<1>2. QED
  BY <1>1, Invariance, PTL

\* What backgroundSend cuts off its lists after a transaction is what the
\* transaction carried.
THEOREM DropsOnlySent == Spec => []DropsWhatItSent
<1>1. IInv => DropsWhatItSent
  <2> SUFFICES ASSUME IInv, NEW q \in Queues, NEW k \in Kinds,
                      wpc[q] \in {"sending", "cleanpdus", "cleanedus", "sent"}
               PROVE  toSend[q][k] = SubSeq(pending[q][k], 1, Len(toSend[q][k]))
    BY DEF DropsWhatItSent
  <2> DEFINE t == toSend[q][k]
             s == pending[q][k]
  <2>1. t \in Seq(Known) /\ s \in Seq(Known) /\ Len(t) \in Nat /\ Len(s) \in Nat
    BY SMTT(30), LenProperties DEF IInv, Shape
  <2>2. Len(t) <= Len(s) /\ \A j \in 1..Len(t) : t[j] = s[j]
    BY DEF IInv, BatchIsFront, Answered
  <2> HIDE DEF s, t
  <2>3. QED
    BY SMTT(30), <2>1, <2>2 DEF s, t
<1>2. QED
  BY <1>1, Invariance, PTL

-----------------------------------------------------------------------------
(* Types.                                                                  *)

\* Whatever threshold is configured, it takes at least one failure to blacklist.
LEMMA LimitPositive == Limit \in Nat \ {0}
BY SMTT(30), LimitsPositive DEF Limit

\* The part of TypeOK that the lists and rows of IInv do not already give.
ControlTypes ==
  /\ blacklisted \in BOOLEAN /\ backoff \in BOOLEAN
  /\ failures \in 0..Limit
  /\ queueMap \in Queues \cup {NoQueue}
  /\ running \in [Queues -> BOOLEAN]
  /\ overflowed \in [Queues -> BOOLEAN]
  /\ notify \in [Queues -> BOOLEAN]
  /\ backingOff \in [Queues -> BOOLEAN]
  /\ spawned \in [Queues -> Nat]
  /\ wpc \in [Queues -> {"none", "top", "select", "info", "backoff", "snapshot",
                         "sending", "cleanpdus", "cleanedus", "sent", "stop"}]
  /\ cpc \in [Calls -> {"idle", "assoc", "append", "wake", "notify", "done"}]
  /\ cq \in [Calls -> Queues \cup {NoQueue}]

\* Every step of the queues keeps the types of what controls them.
LEMMA ControlStep == ControlTypes /\ [Next]_vars => ControlTypes'
<1> SUFFICES ASSUME ControlTypes, [Next]_vars PROVE ControlTypes'
  OBVIOUS
<1> USE LimitPositive DEF ControlTypes
<1>1. ASSUME Success \/ Failure
      PROVE  blacklisted' \in BOOLEAN /\ backoff' \in BOOLEAN /\ failures' \in 0..Limit
  <2>1. failures' \in 0..Limit
    BY <1>1 DEF Success, Failure, FailureBlacklists, FailureBacksOff
  <2>2. blacklisted' \in BOOLEAN /\ backoff' \in BOOLEAN
    BY <1>1, ZenonT(30) DEF Success, Failure, FailureBlacklists, FailureBacksOff
  <2> QED BY SMTT(30), <2>1, <2>2
<1>2. ASSUME NEW c \in Calls, NEW step \in {"assoc", "wake"}, UNCHANGED stats,
             NoQueueFor(c) \/ getQueue(c, step)
      PROVE  ControlTypes'
  <2>1. CASE NoQueueFor(c)
    BY ZenonT(30), <1>2, <2>1 DEF NoQueueFor, Finish, Step, queueVars, stats
  <2>2. CASE getQueue(c, step)
    BY SMTT(30), <1>2, <2>2 DEF getQueue, Step, stats
  <2> QED BY ZenonT(30), <1>2, <2>1, <2>2
<1>3. ASSUME NEW i \in Items, SendBegin(i) PROVE ControlTypes'
  BY ZenonT(30), <1>2, <1>3 DEF SendBegin, Calls
<1>4. ASSUME NEW i \in Items, Associate(i) \/ Notify(i) PROVE ControlTypes'
  BY ZenonT(30), <1>4 DEF Associate, Notify, Finish, Step, Calls, queueVars, stats
<1>5. ASSUME NEW i \in Items, AppendPending(i) PROVE ControlTypes'
  BY ZenonT(30), <1>5 DEF AppendPending, Finish, Step, Calls, stats
<1>6. ASSUME NEW c \in Calls, wakeQueueIfNeeded(c) PROVE ControlTypes'
  <2>1. spawned' \in [Queues -> Nat]
    <3>1. \/ spawned' = [spawned EXCEPT ![cq[c]] = @]
          \/ spawned' = [spawned EXCEPT ![cq[c]] = @ + 1]
      BY <1>6, ZenonT(30) DEF wakeQueueIfNeeded
    <3> QED BY <3>1
  <2> QED BY SMTT(30), <1>6, <2>1 DEF wakeQueueIfNeeded, Finish, Step, stats
<1>7. ASSUME RetryServer PROVE ControlTypes'
  BY ZenonT(30), <1>2, <1>7 DEF RetryServer, Calls
<1>8. ASSUME HydrateQueues PROVE ControlTypes'
  <2>1. CASE rows = {} /\ Finish(Hydrate) /\ UNCHANGED <<queueMap, queueVars>>
    BY ZenonT(30), <1>8, <2>1 DEF HydrateQueues, Finish, Step, Calls, queueVars, stats
  <2>2. CASE NoQueueFor(Hydrate) \/ getQueue(Hydrate, "wake")
    BY ZenonT(30), <1>2, <1>8, <2>2 DEF HydrateQueues, Calls
  <2> QED BY ZenonT(30), <1>8, <2>1, <2>2 DEF HydrateQueues
<1>9. ASSUME NEW q \in Queues, BackgroundStart(q) PROVE ControlTypes'
  <2>1. spawned' \in [Queues -> Nat]
    BY <1>9 DEF BackgroundStart
  <2>2. running' \in [Queues -> BOOLEAN] /\ overflowed' \in [Queues -> BOOLEAN]
    BY ZenonT(30), <1>9 DEF BackgroundStart
  <2> QED BY SMTT(30), <1>9, <2>1, <2>2 DEF BackgroundStart, Go, stats, callVars
<1>10. ASSUME NEW q \in Queues, LoopTop(q) PROVE ControlTypes'
  <2>1. overflowed' \in [Queues -> BOOLEAN] /\ notify' \in [Queues -> BOOLEAN]
    <3>1. CASE getPendingFromDatabase(q)
      <4>1. PICK o \in BOOLEAN, n \in BOOLEAN :
              /\ overflowed' = [overflowed EXCEPT ![q] = o]
              /\ notify' = [notify EXCEPT ![q] = n]
        BY <3>1, ZenonT(30) DEF getPendingFromDatabase
      <4> QED BY <4>1
    <3>2. CASE UNCHANGED <<pending, overflowed, notify>>
      BY ZenonT(30), <3>2
    <3> QED BY SMTT(30), <1>10, <3>1, <3>2 DEF LoopTop
  <2> QED BY ZenonT(30), <1>10, <2>1 DEF LoopTop, Go, stats, callVars
<1>11. ASSUME NEW q \in Queues, Notified(q) \/ IdleTimeout(q) \/ BackoffDone(q) PROVE ControlTypes'
  BY ZenonT(30), <1>11 DEF Notified, IdleTimeout, BackoffDone, Go, stats, callVars
<1>12. ASSUME NEW q \in Queues, CheckBackoff(q) \/ Snapshot(q) PROVE ControlTypes'
  BY <1>12 DEF CheckBackoff, Snapshot, Go, stats, callVars
<1>13. ASSUME NEW q \in Queues, SendAnswered(q) \/ CleanPDUs(q) \/ CleanEDUs(q) PROVE ControlTypes'
  BY ZenonT(30), <1>13 DEF SendAnswered, CleanPDUs, CleanEDUs, Go, stats, callVars
<1>14. ASSUME NEW q \in Queues, SendFailed(q) \/ DropSent(q) PROVE ControlTypes'
  BY ZenonT(30), <1>1, <1>14 DEF SendFailed, DropSent, Go, callVars
<1>15. ASSUME NEW q \in Queues, clearQueue(q) PROVE ControlTypes'
  BY <1>15 DEF clearQueue, Go, stats, callVars
<1>16. ASSUME OtherRequest \/ BackoffElapses PROVE ControlTypes'
  BY ZenonT(30), <1>1, <1>16 DEF OtherRequest, BackoffElapses, queueVars, callVars
<1>17. ASSUME Crash PROVE ControlTypes'
  <2>1. failures' \in 0..Limit /\ spawned' \in [Queues -> Nat]
    BY SMTT(30), <1>17 DEF Crash
  <2>2. /\ wpc' = [q \in Queues |-> "none"]
        /\ cpc' \in [Calls -> {"idle", "assoc", "append", "wake", "notify", "done"}]
        /\ cq' \in [Calls -> Queues \cup {NoQueue}] /\ queueMap' \in Queues \cup {NoQueue}
    BY <1>17 DEF Crash
  <2>3. /\ blacklisted' \in BOOLEAN /\ backoff' \in BOOLEAN
        /\ running' \in [Queues -> BOOLEAN] /\ overflowed' \in [Queues -> BOOLEAN]
        /\ notify' \in [Queues -> BOOLEAN] /\ backingOff' \in [Queues -> BOOLEAN]
    BY <1>17, ZenonT(30) DEF Crash
  <2> QED BY SMTT(30), <2>1, <2>2, <2>3
<1>18. CASE UNCHANGED vars
  BY SMTT(30), <1>18 DEF vars, queueVars, callVars, stats
<1> QED
  BY ZenonT(30), <1>3, <1>4, <1>5, <1>6, <1>7, <1>8, <1>9, <1>10, <1>11, <1>12, <1>13, <1>14, <1>15,
     <1>16, <1>17, <1>18
  DEF Next, Send, Wake, Worker, Calls

\* The types of what controls the queues when the process starts.
LEMMA InitControl == Init => ControlTypes
<1> SUFFICES ASSUME Init PROVE ControlTypes
  OBVIOUS
<1>1. failures \in 0..Limit /\ spawned \in [Queues -> Nat]
  BY SMTT(30), LimitPositive DEF Init
<1>2. /\ wpc = [q \in Queues |-> "none"] /\ cpc = [c \in Calls |-> "idle"]
      /\ cq \in [Calls -> Queues \cup {NoQueue}] /\ queueMap \in Queues \cup {NoQueue}
  BY DEF Init
<1>3. /\ blacklisted \in BOOLEAN /\ backoff \in BOOLEAN
      /\ running \in [Queues -> BOOLEAN] /\ overflowed \in [Queues -> BOOLEAN]
      /\ notify \in [Queues -> BOOLEAN] /\ backingOff \in [Queues -> BOOLEAN]
  BY ZenonT(30) DEF Init
<1> QED BY SMTT(30), <1>1, <1>2, <1>3 DEF ControlTypes

\* Every variable keeps its type: the failure counter of a destination stops at
\* the threshold, and only persisted or received items are ever held in memory.
THEOREM Typed == Spec => []TypeOK
<1>1. Init => ControlTypes
  BY InitControl
<1>2. ASSUME IInv, ControlTypes PROVE TypeOK
  <2>1. Known \subseteq Items
    BY <1>2 DEF IInv, Shape, Known
  <2>2. ASSUME NEW l \in [Queues -> [Kinds -> Seq(Known)]]
        PROVE  l \in [Queues -> [Kinds -> Seq(Items)]]
    BY <2>1, <2>2
  <2> QED BY ZenonT(30), <1>2, <2>2 DEF IInv, Shape, ControlTypes, TypeOK
<1>3. QED
  BY <1>1, <1>2, ControlStep, Invariance, PTL DEF Spec

-----------------------------------------------------------------------------
(* A call has a queue of its own                                           *)

\* getQueue makes a queue for every call: until the call has woken it, no
\* other call and no worker knows of it, and it is as getQueue made it.
OwnQueue ==
  /\ \A c, d \in Calls : cq[c] = cq[d] /\ cq[c] # NoQueue => c = d
  /\ \A c \in Calls : cpc[c] \in {"assoc", "append", "wake"} =>
       /\ cq[c] \in Queues /\ wpc[cq[c]] = "none" /\ spawned[cq[c]] = 0 /\ ~backingOff[cq[c]]
       /\ cpc[c] # "wake" => pending[cq[c]] = Empty

\* The steps of the workers leave alone every queue that its call has not woken.
LEMMA OwnWorkerStep ==
  ASSUME ControlTypes, OwnQueue, DOMAIN pending = Queues, NEW q \in Queues, Worker(q)
  PROVE  OwnQueue'
<1>1. UNCHANGED <<cpc, cq>>
  BY ZenonT(30) DEF Worker, BackgroundStart, LoopTop, Notified, IdleTimeout, CheckBackoff, BackoffDone,
     Snapshot, SendAnswered, SendFailed, CleanPDUs, CleanEDUs, DropSent, clearQueue, callVars
<1>2. ASSUME NEW r \in Queues, r # q
      PROVE  /\ wpc'[r] = wpc[r] /\ spawned'[r] = spawned[r]
             /\ backingOff'[r] = backingOff[r] /\ pending'[r] = pending[r]
  <2>1. wpc'[r] = wpc[r]
    BY ZenonT(30), <1>2 DEF ControlTypes, Worker, BackgroundStart, LoopTop, Notified, IdleTimeout, CheckBackoff,
       BackoffDone, Snapshot, SendAnswered, SendFailed, CleanPDUs, CleanEDUs, DropSent,
       clearQueue, Go
  <2>2. spawned'[r] = spawned[r]
    BY ZenonT(30), <1>2 DEF ControlTypes, Worker, BackgroundStart, LoopTop, Notified, IdleTimeout, CheckBackoff,
       BackoffDone, Snapshot, SendAnswered, SendFailed, CleanPDUs, CleanEDUs, DropSent, clearQueue
  <2>3. backingOff'[r] = backingOff[r]
    BY ZenonT(30), <1>2 DEF ControlTypes, Worker, BackgroundStart, LoopTop, Notified, IdleTimeout, CheckBackoff,
       BackoffDone, Snapshot, SendAnswered, SendFailed, CleanPDUs, CleanEDUs, DropSent, clearQueue
  <2>4. pending'[r] = pending[r]
    BY <1>2, ZenonT(30) DEF Worker, BackgroundStart, LoopTop, getPendingFromDatabase, Notified, IdleTimeout,
       CheckBackoff, BackoffDone, Snapshot, SendAnswered, SendFailed, CleanPDUs, CleanEDUs,
       DropSent, clearQueue
  <2> QED BY ZenonT(30), <2>1, <2>2, <2>3, <2>4
<1>3. wpc[q] # "none" \/ spawned[q] # 0
  <2>1. CASE BackgroundStart(q)
    BY <2>1 DEF BackgroundStart
  <2>2. CASE ~BackgroundStart(q)
    BY <2>2, ZenonT(30) DEF Worker, LoopTop, Notified, IdleTimeout, CheckBackoff, BackoffDone, Snapshot,
       SendAnswered, SendFailed, CleanPDUs, CleanEDUs, DropSent, clearQueue, At
  <2> QED BY ZenonT(30), <2>1, <2>2
<1>4. \A c \in Calls : cpc[c] \in {"assoc", "append", "wake"} => cq[c] \in Queues /\ cq[c] # q
  BY <1>3, ZenonT(30) DEF OwnQueue
<1>5. ASSUME NEW c \in Calls, cpc'[c] \in {"assoc", "append", "wake"}
      PROVE  /\ cq'[c] \in Queues /\ wpc'[cq'[c]] = "none" /\ spawned'[cq'[c]] = 0
             /\ ~backingOff'[cq'[c]] /\ (cpc'[c] # "wake" => pending'[cq'[c]] = Empty)
  BY <1>1, <1>2, <1>4, <1>5, ZenonT(30) DEF OwnQueue
<1>6. \A c, d \in Calls : cq'[c] = cq'[d] /\ cq'[c] # NoQueue => c = d
  BY <1>1, ZenonT(30) DEF OwnQueue
<1> QED
  BY <1>5, <1>6, ZenonT(30) DEF OwnQueue

\* So do the steps of the calls for the queues of other calls, and every other step.
LEMMA OwnStep ==
  ASSUME ControlTypes, OwnQueue, DOMAIN pending = Queues, [Next]_vars
  PROVE  OwnQueue'
<1> USE NoQueueIsNone DEF ControlTypes
<1>1. ASSUME NEW c \in Calls, NEW step, NoQueueFor(c) \/ getQueue(c, step)
      PROVE  OwnQueue'
  <2>1. CASE NoQueueFor(c)
    BY ZenonT(30), <2>1 DEF NoQueueFor, Finish, Step, queueVars, OwnQueue
  <2>2. CASE getQueue(c, step)
    <3>1. PICK q \in Queues :
            /\ Unused(q)
            /\ backingOff' = [backingOff EXCEPT ![q] = FALSE]
            /\ pending' = [pending EXCEPT ![q] = Empty]
            /\ cq' = [cq EXCEPT ![c] = q] /\ cpc' = [cpc EXCEPT ![c] = step]
            /\ UNCHANGED <<spawned, wpc>>
      BY <2>2, ZenonT(30) DEF getQueue, Step
    <3>2. cq'[c] = q /\ wpc'[q] = "none" /\ spawned'[q] = 0 /\ ~backingOff'[q] /\ pending'[q] = Empty
      BY <3>1 DEF Unused
    <3>3. ASSUME NEW d \in Calls, d # c
          PROVE  cq'[d] = cq[d] /\ cpc'[d] = cpc[d] /\ cq[d] # q
      BY ZenonT(30), <3>1, <3>3 DEF Unused
    <3>4. \A r \in Queues : r # q => backingOff'[r] = backingOff[r] /\ pending'[r] = pending[r]
      BY ZenonT(30), <3>1
    <3>5. ASSUME NEW d \in Calls, cpc'[d] \in {"assoc", "append", "wake"}
          PROVE  /\ cq'[d] \in Queues /\ wpc'[cq'[d]] = "none" /\ spawned'[cq'[d]] = 0
                 /\ ~backingOff'[cq'[d]] /\ (cpc'[d] # "wake" => pending'[cq'[d]] = Empty)
      <4>1. CASE d = c
        BY <3>2, <4>1
      <4>2. CASE d # c
        BY <3>1, <3>3, <3>4, <3>5, <4>2, ZenonT(30) DEF OwnQueue
      <4> QED BY ZenonT(30), <4>1, <4>2
    <3>6. ASSUME NEW d \in Calls, NEW e \in Calls, cq'[d] = cq'[e], cq'[d] # NoQueue PROVE d = e
      <4>1. CASE d # c /\ e # c
        <5>1. cq'[d] = cq[d] /\ cq'[e] = cq[e]
          BY <3>3, <4>1, ZenonT(30)
        <5> QED BY <3>6, <5>1, ZenonT(30) DEF OwnQueue
      <4>2. CASE d = c \/ e = c
        BY <3>2, <3>3, <3>6, <4>2, ZenonT(30)
      <4> QED BY <4>1, <4>2
    <3> QED BY <3>5, <3>6, ZenonT(30) DEF OwnQueue
  <2> QED BY ZenonT(30), <1>1, <2>1, <2>2
<1>2. ASSUME NEW i \in Items, SendBegin(i) PROVE OwnQueue'
  BY ZenonT(30), <1>1, <1>2 DEF SendBegin, Calls
<1>3. ASSUME NEW i \in Items, Associate(i) \/ Notify(i) PROVE OwnQueue'
  <2>1. UNCHANGED <<pending, backingOff, spawned, wpc>> /\ i \in Calls
    BY ZenonT(30), <1>3 DEF Associate, Notify, queueVars, Calls
  <2>2. PICK step, r : /\ cpc' = [cpc EXCEPT ![i] = step] /\ cq' = [cq EXCEPT ![i] = r]
                       /\ \/ step = "append" /\ cpc[i] = "assoc" /\ r = cq[i]
                          \/ step = "done" /\ r = NoQueue
    BY <1>3 DEF Associate, Notify, Finish, Step, Calls
  <2> QED BY SMTT(30), <2>1, <2>2 DEF OwnQueue
<1>4. ASSUME NEW i \in Items, AppendPending(i) PROVE OwnQueue'
  <2>1. UNCHANGED <<backingOff, spawned, wpc>> /\ i \in Calls /\ cpc[i] = "append"
    BY ZenonT(30), <1>4 DEF AppendPending, Calls
  <2>2. CASE blacklisted
    BY SMTT(30), <1>4, <2>1, <2>2 DEF AppendPending, Finish, Step, OwnQueue
  <2>3. CASE ~blacklisted
    <3>1. cpc' = [cpc EXCEPT ![i] = "wake"] /\ UNCHANGED cq
      BY ZenonT(30), <1>4, <2>3 DEF AppendPending, Step
    <3>2. \A r \in Queues : r # cq[i] => pending'[r] = pending[r]
      BY ZenonT(30), <1>4, <2>3 DEF AppendPending
    <3> QED BY SMTT(30), <2>1, <3>1, <3>2 DEF OwnQueue
  <2> QED BY ZenonT(30), <2>2, <2>3
<1>5. ASSUME NEW c \in Calls, wakeQueueIfNeeded(c) PROVE OwnQueue'
  <2>1. UNCHANGED <<backingOff, pending, wpc>> /\ cpc[c] = "wake"
    BY ZenonT(30), <1>5 DEF wakeQueueIfNeeded
  <2>2. \A r \in Queues : r # cq[c] => spawned'[r] = spawned[r]
    BY ZenonT(30), <1>5 DEF wakeQueueIfNeeded
  <2>3. PICK step, r : /\ cpc' = [cpc EXCEPT ![c] = step] /\ cq' = [cq EXCEPT ![c] = r]
                       /\ step \in {"notify", "done"} /\ r \in {cq[c], NoQueue}
    BY ZenonT(30), <1>5 DEF wakeQueueIfNeeded, Finish, Step
  <2> QED BY SMTT(30), <2>1, <2>2, <2>3 DEF OwnQueue
<1>6. ASSUME RetryServer \/ HydrateQueues PROVE OwnQueue'
  <2>1. Retry \in Calls /\ Hydrate \in Calls
    BY ZenonT(30) DEF Calls
  <2>2. CASE Finish(Hydrate) /\ UNCHANGED queueVars
    BY ZenonT(30), <2>1, <2>2 DEF Finish, Step, queueVars, OwnQueue
  <2> QED BY ZenonT(30), <1>1, <1>6, <2>1, <2>2 DEF RetryServer, HydrateQueues
<1>7. ASSUME OtherRequest \/ BackoffElapses \/ UNCHANGED vars PROVE OwnQueue'
  BY ZenonT(30), <1>7 DEF OtherRequest, BackoffElapses, vars, queueVars, callVars, OwnQueue
<1>8. ASSUME Crash PROVE OwnQueue'
  BY SMTT(30), <1>8 DEF Crash, OwnQueue
<1> QED
  BY ZenonT(30), <1>2, <1>3, <1>4, <1>5, <1>6, <1>7, <1>8, OwnWorkerStep DEF Next, Send, Wake, Calls

\* A list that is extended by what it does not hold, or cut, stays free of repetitions.
LEMMA DistinctConcat ==
  ASSUME NEW S, NEW s \in Seq(S), NEW t \in Seq(S), Distinct(s), Distinct(t),
         \A j \in DOMAIN t : t[j] \notin Elements(s)
  PROVE  Distinct(s \o t)
<1> DEFINE u == s \o t
<1>1. /\ Len(s) \in Nat /\ Len(t) \in Nat /\ DOMAIN u = 1..(Len(s) + Len(t))
      /\ DOMAIN s = 1..Len(s) /\ DOMAIN t = 1..Len(t)
      /\ \A i \in 1..Len(s) : u[i] = s[i]
      /\ \A i \in (Len(s) + 1)..(Len(s) + Len(t)) : i - Len(s) \in 1..Len(t) /\ u[i] = t[i - Len(s)]
  <2>1. Len(s) \in Nat /\ Len(t) \in Nat /\ DOMAIN s = 1..Len(s) /\ DOMAIN t = 1..Len(t)
    BY SMTT(30)
  <2>2. u \in Seq(S) /\ Len(u) = Len(s) + Len(t)
    BY SMTT(30), ConcatProperties
  <2>3. DOMAIN u = 1..(Len(s) + Len(t))
    BY SMTT(30), <2>2, LenProperties
  <2>4. \A i \in 1..(Len(s) + Len(t)) : u[i] = IF i <= Len(s) THEN s[i] ELSE t[i - Len(s)]
    BY SMTT(30), ConcatProperties
  <2> HIDE DEF u
  <2>5. \A i \in 1..Len(s) : u[i] = s[i]
    BY SMTT(30), <2>1, <2>4
  <2>6. ASSUME NEW i \in (Len(s) + 1)..(Len(s) + Len(t))
        PROVE  i - Len(s) \in 1..Len(t) /\ u[i] = t[i - Len(s)]
    BY SMTT(30), <2>1, <2>4
  <2> QED BY <2>1, <2>3, <2>5, <2>6, ZenonT(30)
<1> HIDE DEF u
<1>2. \A i \in 1..Len(s) : u[i] \in Elements(s)
  BY SMTT(30), <1>1 DEF Elements
<1>3. SUFFICES ASSUME NEW i \in DOMAIN u, NEW j \in DOMAIN u, u[i] = u[j] PROVE i = j
  BY DEF u, Distinct
<1>4. CASE i \in 1..Len(s) /\ j \in 1..Len(s)
  BY ZenonT(30), <1>1, <1>3, <1>4 DEF Distinct
<1>5. CASE i \notin 1..Len(s) /\ j \notin 1..Len(s)
  <2>1. i - Len(s) \in DOMAIN t /\ j - Len(s) \in DOMAIN t /\ t[i - Len(s)] = t[j - Len(s)]
    BY SMTT(30), <1>1, <1>3, <1>5
  <2>2. i - Len(s) = j - Len(s)
    BY ZenonT(30), <2>1 DEF Distinct
  <2> QED BY SMTT(30), <2>2, <1>1
<1>6. ASSUME NEW l \in DOMAIN u, l \notin 1..Len(s) PROVE u[l] \notin Elements(s)
  <2>1. l - Len(s) \in DOMAIN t /\ u[l] = t[l - Len(s)]
    BY SMTT(30), <1>1, <1>6
  <2> QED BY SMTT(30), <2>1
<1>7. CASE i \in 1..Len(s) <=> j \notin 1..Len(s)
  BY ZenonT(30), <1>2, <1>3, <1>6, <1>7
<1> QED BY ZenonT(30), <1>4, <1>5, <1>6, <1>7

\* What is left of a list when its first n elements are cut off.
LEMMA DistinctCut ==
  ASSUME NEW S, NEW s \in Seq(S), NEW n \in Nat, Distinct(s)
  PROVE  Distinct(SubSeq(s, n + 1, Len(s)))
<1> DEFINE u == SubSeq(s, n + 1, Len(s))
<1>1. \A i \in DOMAIN u : i + n \in DOMAIN s /\ u[i] = s[i + n] /\ i \in Int
  BY SMTT(30)
<1> HIDE DEF u
<1>2. \A i, j \in DOMAIN u : u[i] = u[j] => i + n = j + n
  BY SMTT(30), <1>1 DEF Distinct
<1>3. \A i, j \in DOMAIN u : u[i] = u[j] => i = j
  BY SMTT(30), <1>1, <1>2
<1> QED BY SMTT(30), <1>3 DEF u, Distinct

\* What a refill adds is free of repetitions, and not yet in the list.
LEMMA FetchedIsNew ==
  ASSUME NEW k, NEW s, NEW t \in Fetched(k, s)
  PROVE  Distinct(t) /\ \A j \in DOMAIN t : t[j] \notin Elements(s)
<1>1. CASE t = <<>>
  BY <1>1 DEF Distinct
<1>2. CASE t # <<>>
  <2>1. PICK S : t \in Orders(S \ Elements(s))
    BY <1>2, ZenonT(30) DEF Fetched
  <2>2. t \in [1..Cardinality(S \ Elements(s)) -> S \ Elements(s)] /\ Distinct(t)
    BY <2>1, ZenonT(30) DEF Orders
  <2> QED BY ZenonT(30), <2>2
<1> QED BY <1>1, <1>2

\* No step puts an item into a list that holds it: a call appends to the empty
\* list of its own queue, a refill skips what the list holds.
LEMMA DistinctStep ==
  ASSUME IInv, OwnQueue, NoDuplicatesPending, [Next]_vars
  PROVE  NoDuplicatesPending'
<1> USE DEF NoDuplicatesPending
<1>1. pending \in [Queues -> [Kinds -> Seq(Known)]] /\ toSend \in [Queues -> [Kinds -> Seq(Known)]]
  BY SMTT(30) DEF IInv, Shape
<1>2. \A k \in Kinds : Distinct(Empty[k])
  BY DEF Distinct, Empty
<1>3. ASSUME UNCHANGED pending PROVE NoDuplicatesPending'
  BY SMTT(30), <1>3
<1>4. ASSUME NEW q \in Queues, NEW p, pending' = [pending EXCEPT ![q] = p], \A k \in Kinds : Distinct(p[k])
      PROVE  NoDuplicatesPending'
  <2>1. ASSUME NEW r \in Queues, NEW k \in Kinds PROVE Distinct(pending'[r][k])
    <3>1. CASE r = q
      <4>1. pending'[r][k] = p[k]
        BY SMTT(30), <1>1, <1>4, <3>1
      <4> QED BY ZenonT(30), <1>4, <4>1
    <3>2. CASE r # q
      <4>1. pending'[r][k] = pending[r][k]
        BY ZenonT(30), <1>1, <1>4, <3>2
      <4> QED BY <4>1
    <3> QED BY <3>1, <3>2
  <2> QED BY SMTT(30), <2>1
<1>5. ASSUME NEW i \in Items, AppendPending(i), ~UNCHANGED pending PROVE NoDuplicatesPending'
  <2> DEFINE k == KindOf(i)
             p == [Empty EXCEPT ![k] = Append(@, i)]
  <2>1. i \in Calls /\ k \in Kinds /\ cpc[i] = "append"
    BY ZenonT(30), <1>5 DEF AppendPending, Calls, KindOf, Kinds
  <2>2. cq[i] \in Queues /\ pending[cq[i]] = Empty
    BY <2>1 DEF OwnQueue
  <2>3. pending' = [pending EXCEPT ![cq[i]][k] = Append(@, i)]
    BY <1>5, ZenonT(30) DEF AppendPending
  <2>4. pending' = [pending EXCEPT ![cq[i]] = p]
    BY SMTT(30), <1>1, <2>2, <2>3
  <2>5. \A l \in Kinds : Distinct(p[l])
    BY SMTT(30), <2>1 DEF Distinct, Empty
  <2> HIDE DEF p
  <2> QED BY ZenonT(30), <1>4, <2>2, <2>4, <2>5
<1>6. ASSUME NEW q \in Queues, LoopTop(q), ~UNCHANGED pending PROVE NoDuplicatesPending'
  <2>1. PICK new \in [pdu : Fetched("pdu", pending[q]["pdu"]), edu : Fetched("edu", pending[q]["edu"])] :
          pending' = [pending EXCEPT ![q] = [k \in Kinds |-> pending[q][k] \o new[k]]]
    BY <1>6, ZenonT(30) DEF LoopTop, getPendingFromDatabase
  <2> DEFINE now == [k \in Kinds |-> pending[q][k] \o new[k]]
  <2>2. ASSUME NEW k \in Kinds PROVE Distinct(now[k])
    <3>1. new[k] \in Fetched(k, pending[q][k])
      BY SMTT(30) DEF Kinds
    <3>2. /\ pending[q][k] \in Seq(Known) /\ Len(pending[q][k]) <= MaxInMemory
          /\ rows \subseteq Items /\ Distinct(pending[q][k])
      BY <1>1 DEF IInv, Shape, MemoryBounded
    <3>3. new[k] \in Seq(Known)
      BY <3>1, <3>2, FetchedFits, ZenonT(30)
    <3>4. Distinct(pending[q][k] \o new[k])
      BY <3>1, <3>2, <3>3, FetchedIsNew, DistinctConcat, ZenonT(30)
    <3> QED BY SMTT(30), <3>4
  <2>3. pending' = [pending EXCEPT ![q] = now]
    BY <2>1
  <2> HIDE DEF now
  <2> QED BY SMTT(30), <1>4, <2>2, <2>3
<1>7. ASSUME NEW q \in Queues, DropSent(q) PROVE NoDuplicatesPending'
  <2> DEFINE p == [k \in Kinds |-> SubSeq(pending[q][k], Len(toSend[q][k]) + 1, Len(pending[q][k]))]
  <2>1. pending' = [pending EXCEPT ![q] = p]
    BY SMTT(30), <1>1, <1>7 DEF DropSent
  <2>2. ASSUME NEW k \in Kinds PROVE Distinct(p[k])
    <3>1. pending[q][k] \in Seq(Known) /\ Len(toSend[q][k]) \in Nat /\ Distinct(pending[q][k])
      BY SMTT(30), <1>1, LenProperties
    <3>2. Distinct(SubSeq(pending[q][k], Len(toSend[q][k]) + 1, Len(pending[q][k])))
      BY <3>1, DistinctCut, ZenonT(30)
    <3> QED BY <3>2
  <2> HIDE DEF p
  <2> QED BY ZenonT(30), <1>4, <2>1, <2>2
<1>8. ASSUME NEW q \in Queues, CheckBackoff(q) \/ clearQueue(q) PROVE NoDuplicatesPending'
  <2>1. UNCHANGED pending \/ pending' = [pending EXCEPT ![q] = Empty]
    BY <1>8 DEF CheckBackoff, clearQueue
  <2> QED BY ZenonT(30), <1>2, <1>3, <1>4, <2>1
<1>9. ASSUME NEW q \in Queues,
             \/ BackgroundStart(q) \/ Notified(q) \/ IdleTimeout(q) \/ BackoffDone(q) \/ Snapshot(q)
             \/ SendAnswered(q) \/ SendFailed(q) \/ CleanPDUs(q) \/ CleanEDUs(q)
      PROVE  UNCHANGED pending
  BY <1>9, ZenonT(30) DEF BackgroundStart, Notified, IdleTimeout, BackoffDone, Snapshot, SendAnswered,
     SendFailed, CleanPDUs, CleanEDUs
<1>10. ASSUME NEW c, NEW step, NoQueueFor(c) \/ getQueue(c, step) PROVE NoDuplicatesPending'
  <2>1. UNCHANGED pending \/ \E q \in Queues : pending' = [pending EXCEPT ![q] = Empty]
    BY <1>10, ZenonT(30) DEF NoQueueFor, getQueue, queueVars
  <2> QED BY SMTT(30), <1>2, <1>3, <1>4, <2>1
<1>11. ASSUME NEW i \in Items, SendBegin(i) \/ Send(i) PROVE NoDuplicatesPending'
  <2>1. Associate(i) \/ wakeQueueIfNeeded(i) \/ Notify(i) => UNCHANGED pending
    BY ZenonT(30) DEF Associate, wakeQueueIfNeeded, Notify, queueVars
  <2> QED BY <1>3, <1>5, <1>10, <1>11, <2>1, ZenonT(30) DEF SendBegin, Send
<1>12. ASSUME RetryServer \/ HydrateQueues PROVE NoDuplicatesPending'
  <2>1. UNCHANGED queueVars => UNCHANGED pending
    BY DEF queueVars
  <2> QED BY <1>3, <1>10, <1>12, <2>1, ZenonT(30) DEF RetryServer, HydrateQueues
<1>13. ASSUME \/ OtherRequest \/ BackoffElapses \/ UNCHANGED vars
              \/ \E c \in {Retry, Hydrate} : Wake(c)
       PROVE  UNCHANGED pending
  BY <1>13, ZenonT(30) DEF OtherRequest, BackoffElapses, vars, queueVars, Wake, wakeQueueIfNeeded
<1>14. ASSUME Crash PROVE NoDuplicatesPending'
  BY <1>2, <1>14 DEF Crash
<1>15. ASSUME NEW q \in Queues, Worker(q) PROVE NoDuplicatesPending'
  BY <1>3, <1>6, <1>7, <1>8, <1>9, <1>15, ZenonT(30) DEF Worker
<1> QED
  BY <1>3, <1>11, <1>12, <1>13, <1>14, <1>15, ZenonT(30) DEF Next

\* Every reachable state has the types and a queue of its own for every call.
LEMMA OwnInvariance == Spec => [](ControlTypes /\ OwnQueue)
<1>1. Init => ControlTypes /\ OwnQueue
  <2>1. Init => OwnQueue
    BY DEF Init, OwnQueue
  <2> QED BY SMTT(30), <2>1, InitControl
<1>2. IInv => DOMAIN pending = Queues
  BY DEF IInv, Shape
<1>3. QED
  BY <1>1, <1>2, ControlStep, OwnStep, Invariance, PTL DEF Spec

\* A call never finds its queue backing off, so the send on interruptBackoff in
\* wakeQueueIfNeeded, which would block the caller, is never reached.
THEOREM WakeNeverBlocks == Spec => []WakeFindsNoBackoff
<1>1. OwnQueue => WakeFindsNoBackoff
  BY DEF OwnQueue, WakeFindsNoBackoff
<1>2. QED
  BY <1>1, OwnInvariance, PTL

\* No list in memory holds an item twice, although the call that persisted the
\* item and the worker that reads its row may both put it there.
THEOREM HeldOnce == Spec => []NoDuplicatesPending
<1>1. Init => NoDuplicatesPending
  BY DEF Init, NoDuplicatesPending, Empty, Distinct
<1>2. QED
  BY <1>1, DistinctStep, Invariance, OwnInvariance, PTL DEF Spec
=============================================================================
