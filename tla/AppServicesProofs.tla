------------------------ MODULE AppServicesProofs ------------------------
(***************************************************************************)
(* Proofs about the application services, for any services, any clients,   *)
(* any batch size and any number of faults.  The first half is about       *)
(* values: what one operation of the consumer or of a worker does to the   *)
(* queue of one service.  The second applies that to the steps.            *)
(*                                                                         *)
(* Delivery is the hard part.  The queue of a service is one set of rows   *)
(* that the consumer adds to while the worker is between two statements,   *)
(* and the worker holds in memory what it read some steps ago.  The        *)
(* invariant says of each service what its rows are (Queued) and what the  *)
(* worker still knows about them at each of its steps (Knows).             *)
(***************************************************************************)
EXTENDS AppServices, FiniteSetTheorems, TLAPS

USE ZenonT(30)

-----------------------------------------------------------------------------
(* Numbers and listings                                                      *)

\* A nonempty set of naturals has a least element.
LEMMA LeastExists ==
  ASSUME NEW T \in SUBSET Nat, T # {}
  PROVE  \E x \in T : \A y \in T : x <= y
<1> DEFINE R == OpToRel(<, Nat)
<1>1. \E x \in T : \A y \in T : ~(<<y, x>> \in R)
  <2>1. IsWellFoundedOn(R, Nat)
    BY NatLessThanWellFounded
  <2> HIDE DEF R
  <2> QED BY <2>1, WFMin
<1>2. PICK x \in T : \A y \in T : ~(<<y, x>> \in R)
  BY <1>1
<1>3. \A y \in T : <<y, x>> \in R <=> y < x
  BY DEF OpToRel
<1>4. \A y \in T : ~(y < x)
  <2> HIDE DEF R
  <2> QED BY <1>2, <1>3
<1> QED BY SMTT(30), <1>4

\* What Min and Max return.
LEMMA MinIs ==
  ASSUME NEW T \in SUBSET Nat, T # {}
  PROVE  Min(T) \in T /\ \A y \in T : Min(T) <= y
BY LeastExists DEF Min

LEMMA MaxIs ==
  ASSUME NEW T \in SUBSET Nat, NEW x \in T, \A y \in T : y <= x
  PROVE  Max(T) = x
<1>1. \E y \in T : \A z \in T : y >= z
  OBVIOUS
<1>2. Max(T) \in T /\ \A z \in T : Max(T) >= z
  BY <1>1 DEF Max
<1>3. Max(T) >= x /\ Max(T) <= x /\ Max(T) \in Nat /\ x \in Nat
  BY <1>2
<1> QED BY SMTT(30), <1>3

Increasing(f, n) == \A i, j \in 1..n : i < j => f[i] < f[j]

\* An increasing sequence whose elements are among those of another, with nothing
\* left out in between, is a beginning of it.
LEMMA ListedInOrder ==
  ASSUME NEW m \in Nat, NEW n \in Nat, NEW f \in [1..m -> Nat], NEW g \in [1..n -> Nat],
         Increasing(f, m), Increasing(g, n),
         \A i \in 1..m : \E j \in 1..n : f[i] = g[j],
         \A j \in 1..n : \E i \in 1..m : g[j] = f[i]
  PROVE  m <= n /\ \A i \in 1..m : f[i] = g[i]
<1> DEFINE wrong == {i \in 1..m : ~(i <= n /\ f[i] = g[i])}
<1>1. CASE wrong = {}
  <2>1. \A i \in 1..m : i <= n /\ f[i] = g[i]
    BY <1>1
  <2> QED BY SMTT(30), <2>1
<1>2. CASE wrong # {}
  <2>1. PICK i \in wrong : \A k \in wrong : i <= k
    <3>1. wrong \in SUBSET Nat
      BY SMTT(30)
    <3> HIDE DEF wrong
    <3> QED BY <1>2, <3>1, LeastExists
  <2>a. i \in 1..m
    BY <2>1
  <2>2. ASSUME NEW k \in 1..m, k < i PROVE k \in 1..n /\ f[k] = g[k]
    <3>1. k \notin wrong
      BY SMTT(30), <2>1, <2>2, <2>a
    <3> QED BY SMTT(30), <3>1
  <2>3. PICK j \in 1..n : f[i] = g[j]
    BY <2>1
  <2>4. ~(j < i)
    <3> SUFFICES ASSUME j < i PROVE FALSE
      OBVIOUS
    <3>1. f[j] = g[j] /\ f[j] < f[i]
      BY SMTT(30), <2>1, <2>2 DEF Increasing
    <3> QED BY SMTT(30), <2>3, <3>1
  <2>5. i \in 1..n
    BY SMTT(30), <2>1, <2>4
  <2>6. ~(i < j)
    <3> SUFFICES ASSUME i < j PROVE FALSE
      OBVIOUS
    <3>1. g[i] < f[i]
      BY <2>3, <2>5 DEF Increasing
    <3>2. PICK k \in 1..m : g[i] = f[k]
      BY <2>5
    <3>3. k < i
      <4>1. f[k] \in Nat /\ f[i] \in Nat /\ f[k] < f[i]
        BY <3>1, <3>2, <2>a
      <4>2. i < k => f[i] < f[k]
        BY <2>a DEF Increasing
      <4>3. CASE i = k
        BY SMTT(30), <4>1, <4>3
      <4>4. CASE i < k
        BY SMTT(30), <4>1, <4>2, <4>4
      <4> QED BY SMTT(30), <4>3, <4>4, <2>a
    <3>4. f[k] = g[k] /\ k \in 1..n /\ g[k] < g[i]
      BY <3>3, <2>2, <2>5, <2>a DEF Increasing
    <3> QED BY SMTT(30), <3>2, <3>4, <2>5
  <2> QED BY SMTT(30), <2>1, <2>3, <2>4, <2>5, <2>6
<1> QED BY <1>1, <1>2

-----------------------------------------------------------------------------
(* The inductive invariant                                                   *)

Events == [id : 1..MaxEvents, type : {"join", "leave", "message"},
           about : Services \cup {None}, txn : Txns \cup {None}]
Row    == [id : Nat \ {0}, ev : Events, txn : Int]
Entry  == [id : Nat \ {0}, ev : Events]

Marked(rows) == {r \in rows : r.txn # -1}

\* A service with the rows E, for which I was inserted and which has taken D in
\* the transactions A: the rows it has not taken are what was inserted after D.
\* At most one transaction is under way, and its rows come before all others.
Queued(E, I, D, A, next, counter) ==
  /\ E \in SUBSET Row /\ IsFiniteSet(E)
  /\ I \in Seq(Entry) /\ D \in Seq(Events) /\ A \in SUBSET (1..counter)
  /\ next \in Nat \ {0} /\ counter \in Nat
  /\ \A i \in 1..Len(I) : I[i].id < next
  /\ \A i, j \in 1..Len(I) : i < j => I[i].id < I[j].id
  /\ \A r \in E : r.txn = -1 \/ r.txn \in 1..counter
  /\ \A r, q \in E : r.id = q.id => r = q
  /\ \A r, q \in E : r.txn # -1 => q.txn = r.txn \/ (q.txn = -1 /\ r.id < q.id)
  /\ Cardinality(Marked(E)) <= BatchSize
  /\ Len(D) <= Len(I) /\ \A i \in 1..Len(D) : D[i] = I[i].ev
  /\ \A i \in (Len(D) + 1)..Len(I) :
        \E r \in E : r.id = I[i].id /\ r.ev = I[i].ev /\ r.txn \notin A
  /\ \A r \in E : r.txn \notin A =>
        \E i \in (Len(D) + 1)..Len(I) : r.id = I[i].id /\ r.ev = I[i].ev
  /\ \A r \in E : r.txn \in A => \E i \in 1..Len(D) : r.id = I[i].id

\* The batch w holds is what comes after D.
Follows(w, I, D) ==
  /\ Len(D) + Len(w.batch) <= Len(I)
  /\ \A i \in 1..Len(w.batch) : w.batch[i] = I[Len(D) + i].ev
  /\ w.maxID = I[Len(D) + Len(w.batch)].id

Workers == [pc : {"start", "wait", "waiting", "select", "number", "mark", "send", "remove"},
            ready : BOOLEAN, txn : Int, maxID : Nat, batch : Seq(Events),
            remaining : BOOLEAN]

\* What the worker w knows about the rows, whatever the consumer adds to them.
Knows(w, E, I, D, A, next, counter) ==
  /\ w \in Workers
  /\ w.txn <= counter /\ w.maxID < next /\ Len(w.batch) <= BatchSize
  /\ w.pc \in {"number", "mark"} =>
        w.batch # <<>> /\ Follows(w, I, D) /\ \A r \in E : r.txn = -1
  /\ w.pc = "mark" => w.txn \in 1..counter /\ w.txn \notin A
  /\ w.pc = "send" /\ w.batch = <<>> => w.txn = 0 /\ w.maxID = 0
  /\ w.pc = "send" /\ w.batch # <<>> =>
        /\ w.txn \in 1..counter
        /\ \A r \in E : r.txn = w.txn <=> r.id <= w.maxID
        /\ w.txn \notin A => Follows(w, I, D)
  /\ w.pc = "remove" => \A r \in E : r.id <= w.maxID => r.txn \in A

Delivery ==
  /\ events \in [Services -> SUBSET Row] /\ inserted \in [Services -> Seq(Entry)]
  /\ delivered \in [Services -> Seq(Events)] /\ accepted \in [Services -> SUBSET Nat]
  /\ worker \in [Services -> Workers]
  /\ \A s \in Services :
        /\ Queued(events[s], inserted[s], delivered[s], accepted[s], nextID, txnCounter)
        /\ Knows(worker[s], events[s], inserted[s], delivered[s], accepted[s], nextID, txnCounter)

-----------------------------------------------------------------------------
\* Where the consumer is.
Consuming ==
  /\ log \in Seq(Seq(Events) \ {<<>>}) /\ offset \in 0..Len(log)
  /\ consumer \in [as : 1..(Len(WorkerStates) + 1), ev : Nat \ {0},
                   notify : Services \cup {None}]
  /\ offset = Len(log) => consumer = NewConsumer
  /\ offset < Len(log) => consumer.ev \in 1..Len(Message)
  /\ failed \in SUBSET (1..Len(log)) /\ made \in 0..MaxEvents /\ joined \in SUBSET Services

WasInserted(s, ev) == \E k \in 1..Len(inserted[s]) : inserted[s][k].ev = ev

\* The part of the current message that the loops have passed.
Passed(a, j) == a < consumer.as \/ (a = consumer.as /\ j < consumer.ev)

PassedIsInserted ==
  offset < Len(log) /\ offset + 1 \notin failed =>
     \A a \in 1..Len(WorkerStates), j \in 1..Len(Message) :
        Passed(a, j) /\ Message[j].about = WorkerStates[a] => WasInserted(WorkerStates[a], Message[j])

\* Transaction IDs in the log are in the table.
LoggedIsKnown ==
  /\ txnTable \in SUBSET Txns
  /\ \A i \in 1..Len(log) : log[i][1].txn # None => log[i][1].txn \in txnTable

ClientTypes ==
  /\ requests \in 0..MaxRequests
  /\ waiting \in [Txns -> Nat] /\ \A t \in Txns : waiting[t] <= requests
  /\ DOMAIN txnsMaps = 1..2 /\ \A m \in 1..2 : txnsMaps[m] \in SUBSET Txns

IInv ==
  /\ Delivery /\ Consuming /\ PassedIsInserted /\ ConsumedIsInserted
  /\ LoggedIsKnown /\ OnePerTransaction /\ ClientTypes

-----------------------------------------------------------------------------
(* What each operation does to the queue of one service                      *)

\* The rows that were inserted, and the rows there are, have numbers.
LEMMA EntryIs ==
  ASSUME NEW I \in Seq(Entry), NEW i \in 1..Len(I)
  PROVE  I[i] \in Entry /\ I[i].id \in Nat \ {0} /\ I[i].ev \in Events
<1>1. I[i] \in Entry
  BY SMTT(30)
<1> QED BY <1>1 DEF Entry

LEMMA RowIs ==
  ASSUME NEW E \in SUBSET Row, NEW r \in E
  PROVE  r.id \in Nat \ {0} /\ r.ev \in Events /\ r.txn \in Int
BY DEF Row

\* Rows and transactions of other services only move the sequences.
LEMMA QueuedGrows ==
  ASSUME NEW E, NEW I, NEW D, NEW A, NEW next, NEW counter,
         NEW next2 \in Nat, NEW counter2 \in Nat, next <= next2, counter <= counter2,
         Queued(E, I, D, A, next, counter)
  PROVE  Queued(E, I, D, A, next2, counter2)
<1> USE DEF Queued
<1>1. next2 \in Nat \ {0} /\ A \in SUBSET (1..counter2)
  BY SMTT(30)
<1>2. \A i \in 1..Len(I) : I[i].id < next2
  <2>1. \A i \in 1..Len(I) : I[i].id \in Nat
    BY EntryIs
  <2> QED BY SMTT(30), <2>1
<1>3. \A r \in E : r.txn = -1 \/ r.txn \in 1..counter2
  BY SMTT(30) DEF Row
<1> QED BY <1>1, <1>2, <1>3

LEMMA KnowsGrows ==
  ASSUME NEW w, NEW E, NEW I, NEW D, NEW A, NEW next \in Nat, NEW counter \in Nat,
         NEW next2 \in Nat, NEW counter2 \in Nat, next <= next2, counter <= counter2,
         Knows(w, E, I, D, A, next, counter)
  PROVE  Knows(w, E, I, D, A, next2, counter2)
<1>1. /\ w.txn \in Int /\ w.maxID \in Nat
  BY DEF Knows, Workers
<1>2. w.txn <= counter2 /\ w.maxID < next2
  BY SMTT(30), <1>1 DEF Knows
<1>3. w.txn \in 1..counter => w.txn \in 1..counter2
  BY SMTT(30), <1>1
<1> QED BY <1>2, <1>3 DEF Knows

\* InsertEvent: the new row has the largest ID and no transaction.
LEMMA InsertKeepsQueued ==
  ASSUME NEW E, NEW I, NEW D, NEW A, NEW next, NEW counter, NEW ev \in Events,
         Queued(E, I, D, A, next, counter)
  PROVE  Queued(E \cup {[id |-> next, ev |-> ev, txn |-> -1]},
                Append(I, [id |-> next, ev |-> ev]), D, A, next + 1, counter)
<1> DEFINE new == [id |-> next, ev |-> ev, txn |-> -1]
           entry == [id |-> next, ev |-> ev]
           E2 == E \cup {new}
           I2 == Append(I, entry)
<1>1. new \in Row /\ entry \in Entry /\ I \in Seq(Entry) /\ next \in Nat \ {0} /\ D \in Seq(Events)
  BY SMTT(30) DEF Queued, Row, Entry
<1>2. E2 \in SUBSET Row /\ IsFiniteSet(E2)
  BY <1>1, FS_AddElement DEF Queued
<1>3. /\ I2 \in Seq(Entry) /\ Len(I2) = Len(I) + 1 /\ I2[Len(I) + 1] = entry
      /\ \A i \in 1..Len(I) : I2[i] = I[i]
  BY SMTT(30), <1>1
<1>4. Len(I) \in Nat /\ Len(D) \in Nat /\ Len(D) <= Len(I)
  BY SMTT(30), <1>1 DEF Queued
<1>5. \A i \in 1..Len(I) : I[i].id < next /\ I[i].id \in Nat
  BY <1>1, EntryIs DEF Queued
<1>6. \A r \in E : r.id < next /\ r.id \in Nat
  <2> SUFFICES ASSUME NEW r \in E PROVE r.id < next /\ r.id \in Nat
    OBVIOUS
  <2>1. \E i \in 1..Len(I) : r.id = I[i].id
    <3>1. CASE r.txn \in A
      BY SMTT(30), <3>1, <1>4 DEF Queued
    <3>2. CASE r.txn \notin A
      BY SMTT(30), <3>2, <1>4 DEF Queued
    <3> QED BY <3>1, <3>2
  <2> QED BY <2>1, <1>5
<1>7. new.id = next /\ new.ev = ev /\ new.txn = -1 /\ entry.id = next /\ entry.ev = ev
  OBVIOUS
<1>8. -1 \notin A /\ A \in SUBSET (1..counter) /\ counter \in Nat
  BY SMTT(30) DEF Queued
<1> HIDE DEF new, entry
<1>9. \A i \in 1..Len(I2) : I2[i].id < next + 1
  BY SMTT(30), <1>1, <1>3, <1>4, <1>5, <1>7
<1>10. \A i, j \in 1..Len(I2) : i < j => I2[i].id < I2[j].id
  <2> SUFFICES ASSUME NEW i \in 1..Len(I2), NEW j \in 1..Len(I2), i < j
               PROVE  I2[i].id < I2[j].id
    OBVIOUS
  <2>1. CASE j \in 1..Len(I)
    BY SMTT(30), <2>1, <1>3, <1>4 DEF Queued
  <2>2. CASE j = Len(I) + 1
    BY SMTT(30), <2>2, <1>3, <1>4, <1>5, <1>7
  <2> QED BY SMTT(30), <2>1, <2>2, <1>3, <1>4
<1>11. \A r \in E2 : r.txn = -1 \/ r.txn \in 1..counter
  BY <1>7 DEF Queued
<1>12. \A r, q \in E2 : r.id = q.id => r = q
  BY SMTT(30), <1>6, <1>7 DEF Queued
<1>13. \A r, q \in E2 : r.txn # -1 => q.txn = r.txn \/ (q.txn = -1 /\ r.id < q.id)
  BY <1>6, <1>7 DEF Queued
<1>14. Cardinality(Marked(E2)) <= BatchSize
  <2>1. Marked(E2) = Marked(E)
    BY <1>7 DEF Marked
  <2> QED BY <2>1 DEF Queued
<1>15. Len(D) <= Len(I2) /\ \A i \in 1..Len(D) : D[i] = I2[i].ev
  BY SMTT(30), <1>3, <1>4 DEF Queued
<1>16. \A i \in (Len(D) + 1)..Len(I2) :
          \E r \in E2 : r.id = I2[i].id /\ r.ev = I2[i].ev /\ r.txn \notin A
  <2> SUFFICES ASSUME NEW i \in (Len(D) + 1)..Len(I2)
               PROVE  \E r \in E2 : r.id = I2[i].id /\ r.ev = I2[i].ev /\ r.txn \notin A
    OBVIOUS
  <2>1. CASE i \in 1..Len(I)
    BY SMTT(30), <2>1, <1>3, <1>4 DEF Queued
  <2>2. CASE i = Len(I) + 1
    BY <2>2, <1>3, <1>7, <1>8
  <2> QED BY SMTT(30), <2>1, <2>2, <1>3, <1>4
<1>17. \A r \in E2 : r.txn \notin A =>
          \E i \in (Len(D) + 1)..Len(I2) : r.id = I2[i].id /\ r.ev = I2[i].ev
  <2> SUFFICES ASSUME NEW r \in E2, r.txn \notin A
               PROVE  \E i \in (Len(D) + 1)..Len(I2) : r.id = I2[i].id /\ r.ev = I2[i].ev
    OBVIOUS
  <2>1. CASE r \in E
    BY SMTT(30), <2>1, <1>3, <1>4 DEF Queued
  <2>2. CASE r = new
    BY SMTT(30), <2>2, <1>3, <1>4, <1>7
  <2> QED BY <2>1, <2>2
<1>18. \A r \in E2 : r.txn \in A => \E i \in 1..Len(D) : r.id = I2[i].id
  BY SMTT(30), <1>3, <1>4, <1>7, <1>8 DEF Queued
<1>19. D \in Seq(Events) /\ next + 1 \in Nat \ {0}
  BY SMTT(30), <1>1
<1> HIDE DEF E2, I2
<1>20. Queued(E2, I2, D, A, next + 1, counter)
  BY <1>2, <1>3, <1>8, <1>9, <1>10, <1>11, <1>12, <1>13, <1>14, <1>15, <1>16, <1>17, <1>18, <1>19,
     ZenonT(30)
  DEF Queued
<1> QED BY <1>20 DEF E2, I2, new, entry

\* The fields of a worker have their types.
LEMMA WorkerIs ==
  ASSUME NEW w \in Workers
  PROVE  /\ w.txn \in Int /\ w.maxID \in Nat
         /\ w.batch \in Seq(Events) /\ Len(w.batch) \in Nat
         /\ w.batch = <<>> <=> Len(w.batch) = 0
<1>1. w.txn \in Int /\ w.maxID \in Nat /\ w.batch \in Seq(Events)
  BY DEF Workers
<1> QED BY SMTT(30), <1>1

\* What follows D still follows it when a row is added at the end.
LEMMA FollowsGrows ==
  ASSUME NEW w \in Workers, NEW I \in Seq(Entry), NEW D \in Seq(Events), NEW e \in Entry,
         w.batch # <<>>, Follows(w, I, D)
  PROVE  Follows(w, Append(I, e), D)
<1> DEFINE I2 == Append(I, e)
           n == Len(w.batch)
<1>1. n \in Nat /\ n > 0 /\ Len(D) \in Nat /\ Len(I) \in Nat
  BY SMTT(30), WorkerIs
<1>2. Len(I2) = Len(I) + 1 /\ \A i \in 1..Len(I) : I2[i] = I[i]
  BY SMTT(30)
<1> HIDE DEF I2, n
<1>3. Len(D) + n <= Len(I) /\ \A i \in 1..n : w.batch[i] = I[Len(D) + i].ev
  BY DEF Follows, n
<1>4. w.maxID = I[Len(D) + n].id
  BY DEF Follows, n
<1>5. \A i \in 1..n : Len(D) + i \in 1..Len(I)
  BY SMTT(30), <1>1, <1>3
<1>6. n \in 1..n
  BY SMTT(30), <1>1
<1>7. Len(D) + n <= Len(I2) /\ \A i \in 1..n : w.batch[i] = I2[Len(D) + i].ev
  <2>1. Len(D) + n <= Len(I2)
    BY SMTT(30), <1>1, <1>2, <1>3
  <2>2. \A i \in 1..n : I2[Len(D) + i] = I[Len(D) + i]
    BY <1>2, <1>5
  <2> QED BY <1>3, <2>1, <2>2
<1>8. w.maxID = I2[Len(D) + n].id
  BY <1>2, <1>4, <1>5, <1>6
<1> QED BY <1>7, <1>8 DEF Follows, I2, n

\* InsertEvent: what the worker of the service has read stays true.
LEMMA InsertKeepsKnows ==
  ASSUME NEW w, NEW E, NEW I, NEW D, NEW A, NEW next, NEW counter, NEW ev \in Events,
         Queued(E, I, D, A, next, counter), Knows(w, E, I, D, A, next, counter)
  PROVE  Knows(w, E \cup {[id |-> next, ev |-> ev, txn |-> -1]},
               Append(I, [id |-> next, ev |-> ev]), D, A, next + 1, counter)
<1> DEFINE new == [id |-> next, ev |-> ev, txn |-> -1]
           entry == [id |-> next, ev |-> ev]
           E2 == E \cup {new}
           I2 == Append(I, entry)
<1>1. /\ next \in Nat \ {0} /\ counter \in Nat /\ E \in SUBSET Row
      /\ I \in Seq(Entry) /\ D \in Seq(Events) /\ entry \in Entry
  BY DEF Queued, Entry
<1>2. new.id = next /\ new.txn = -1
  OBVIOUS
<1>3. /\ w \in Workers /\ w.txn \in Int /\ w.maxID \in Nat
      /\ w.maxID < next /\ w.txn <= counter /\ Len(w.batch) <= BatchSize
  BY WorkerIs DEF Knows
<1>4. w.batch # <<>> /\ Follows(w, I, D) => Follows(w, I2, D)
  BY <1>1, <1>3, FollowsGrows
<1> HIDE DEF new, entry, I2
<1>5. w.maxID < next + 1 /\ ~(new.id <= w.maxID) /\ \A t \in 1..counter : new.txn # t
  BY SMTT(30), <1>1, <1>2, <1>3
<1>6. w.pc \in {"number", "mark"} =>
        w.batch # <<>> /\ Follows(w, I2, D) /\ \A r \in E2 : r.txn = -1
  BY <1>2, <1>4 DEF Knows
<1>7. w.pc = "send" /\ w.batch # <<>> =>
        /\ w.txn \in 1..counter
        /\ \A r \in E2 : r.txn = w.txn <=> r.id <= w.maxID
        /\ w.txn \notin A => Follows(w, I2, D)
  BY <1>4, <1>5 DEF Knows
<1>8. w.pc = "remove" => \A r \in E2 : r.id <= w.maxID => r.txn \in A
  BY <1>5 DEF Knows
<1>9. /\ w.pc = "mark" => w.txn \in 1..counter /\ w.txn \notin A
      /\ w.pc = "send" /\ w.batch = <<>> => w.txn = 0 /\ w.maxID = 0
  BY DEF Knows
<1> HIDE DEF E2
<1>10. Knows(w, E2, I2, D, A, next + 1, counter)
  BY <1>3, <1>5, <1>6, <1>7, <1>8, <1>9 DEF Knows
<1> QED BY <1>10 DEF E2, I2, new, entry

\* A worker that waits or is about to read knows nothing.
LEMMA IdleKnows ==
  ASSUME NEW w \in Workers, NEW E, NEW I, NEW D, NEW A, NEW next, NEW counter,
         w.pc \in {"start", "wait", "waiting", "select"},
         w.txn <= counter, w.maxID < next, Len(w.batch) <= BatchSize
  PROVE  Knows(w, E, I, D, A, next, counter)
BY DEF Knows

\* GetLatestTxnID: the ID is new, so no service has taken a transaction with it.
LEMMA NumberKeepsKnows ==
  ASSUME NEW w, NEW E, NEW I, NEW D, NEW A, NEW next, NEW counter,
         Queued(E, I, D, A, next, counter), Knows(w, E, I, D, A, next, counter),
         w.pc = "number"
  PROVE  Knows([w EXCEPT !.txn = counter + 1, !.pc = "mark"], E, I, D, A, next, counter + 1)
<1> DEFINE w2 == [w EXCEPT !.txn = counter + 1, !.pc = "mark"]
<1>1. /\ w \in Workers /\ counter \in Nat
      /\ w.maxID < next /\ Len(w.batch) <= BatchSize
      /\ w.batch # <<>> /\ Follows(w, I, D) /\ \A r \in E : r.txn = -1
  BY DEF Knows, Queued
<1>2. /\ w2 \in Workers /\ w2.txn = counter + 1 /\ w2.pc = "mark"
      /\ w2.batch = w.batch /\ w2.maxID = w.maxID
  <2>1. /\ w2.txn = counter + 1 /\ w2.pc = "mark"
        /\ w2.batch = w.batch /\ w2.maxID = w.maxID
    BY <1>1 DEF Workers
  <2>2. counter + 1 \in Int
    BY SMTT(30), <1>1
  <2>3. w2 \in Workers
    BY <1>1, <2>2 DEF Workers
  <2> QED BY <2>1, <2>3
<1>3. counter + 1 \notin A /\ counter + 1 \in 1..(counter + 1) /\ counter + 1 <= counter + 1
  BY SMTT(30), <1>1 DEF Queued
<1> HIDE DEF w2
<1>4. Follows(w2, I, D)
  BY <1>1, <1>2 DEF Follows
<1>5. Knows(w2, E, I, D, A, next, counter + 1)
  BY <1>1, <1>2, <1>3, <1>4 DEF Knows
<1> QED BY <1>5 DEF w2

\* UpdateTxnIDForEvents.  The rows up to maxID are those of the batch, whatever
\* was inserted since it was read.
Mark(r, maxID, txn) == [r EXCEPT !.txn = IF r.id <= maxID THEN txn ELSE @]

LEMMA MarkIs ==
  ASSUME NEW r \in Row, NEW maxID \in Nat, NEW txn \in Int, r.txn = -1
  PROVE  /\ Mark(r, maxID, txn) \in Row
         /\ Mark(r, maxID, txn).id = r.id /\ Mark(r, maxID, txn).ev = r.ev
         /\ Mark(r, maxID, txn).txn = IF r.id <= maxID THEN txn ELSE -1
BY DEF Row, Mark

\* No more rows are marked than the batch has events.
LEMMA MarkedIsBatch ==
  ASSUME NEW w, NEW E, NEW I, NEW D, NEW A, NEW next, NEW counter,
         Queued(E, I, D, A, next, counter), Knows(w, E, I, D, A, next, counter),
         w.pc = "mark"
  PROVE  Cardinality(Marked({Mark(r, w.maxID, w.txn) : r \in E})) <= BatchSize
<1> DEFINE n == Len(w.batch)
           d == Len(D)
           T == w.txn
           m == w.maxID
           M == Marked({Mark(r, m, T) : r \in E})
           row(i) == CHOOSE r \in E : r.id = I[d + i].id
           f == [i \in 1..n |-> Mark(row(i), m, T)]
<1>1. /\ w \in Workers /\ n \in Nat /\ n <= BatchSize /\ T \in 1..counter /\ m \in Nat
      /\ Follows(w, I, D) /\ \A r \in E : r.txn = -1
  BY WorkerIs DEF Knows
<1>2. n > 0 /\ T \in Int /\ T # -1 /\ counter \in Nat
  BY SMTT(30), <1>1, WorkerIs DEF Knows, Queued
<1>3. /\ E \in SUBSET Row /\ I \in Seq(Entry) /\ d \in Nat /\ Len(I) \in Nat /\ -1 \notin A
      /\ \A i, j \in 1..Len(I) : i < j => I[i].id < I[j].id
      /\ \A r, q \in E : r.id = q.id => r = q
  BY SMTT(30) DEF Queued
<1>4. d + n <= Len(I) /\ m = I[d + n].id
  BY <1>1 DEF Follows
<1>5. \A i \in 1..n : d + i \in 1..Len(I) /\ I[d + i].id <= m
  <2> SUFFICES ASSUME NEW i \in 1..n PROVE d + i \in 1..Len(I) /\ I[d + i].id <= m
    OBVIOUS
  <2>1. d + i \in 1..Len(I) /\ d + n \in 1..Len(I) /\ (i = n \/ d + i < d + n)
    BY SMTT(30), <1>1, <1>3, <1>4
  <2>2. I[d + i].id \in Nat /\ I[d + n].id \in Nat
    BY <1>3, <2>1, EntryIs
  <2>3. d + i < d + n => I[d + i].id < I[d + n].id
    BY <1>3, <2>1
  <2> QED BY SMTT(30), <1>4, <2>1, <2>2, <2>3
<1>6. \A i \in 1..n : row(i) \in E /\ row(i).id = I[d + i].id
  <2> SUFFICES ASSUME NEW i \in 1..n PROVE \E r \in E : r.id = I[d + i].id
    OBVIOUS
  <2>1. d + i \in (d + 1)..Len(I)
    BY SMTT(30), <1>3, <1>5
  <2> QED BY <2>1 DEF Queued
<1> HIDE DEF row
<1>7. \A r \in E : /\ Mark(r, m, T).id = r.id /\ Mark(r, m, T) \in Row
                   /\ Mark(r, m, T).txn = IF r.id <= m THEN T ELSE -1
  <2> SUFFICES ASSUME NEW r \in E
               PROVE  /\ Mark(r, m, T).id = r.id /\ Mark(r, m, T) \in Row
                      /\ Mark(r, m, T).txn = IF r.id <= m THEN T ELSE -1
    OBVIOUS
  <2>1. r \in Row /\ r.txn = -1 /\ m \in Nat /\ T \in Int
    BY <1>1, <1>2, <1>3
  <2> QED BY <2>1, MarkIs
<1>8. \A i \in 1..n : f[i] \in M
  BY <1>2, <1>5, <1>6, <1>7 DEF Marked
<1>9. ASSUME NEW q \in M PROVE \E i \in 1..n : f[i] = q
  <2>1. PICK r \in E : q = Mark(r, m, T)
    BY DEF Marked
  <2>2. q.txn # -1
    BY DEF Marked
  <2>3. r.id <= m
    BY <1>7, <2>1, <2>2
  <2>4. r.txn \notin A
    BY <1>1, <1>3
  <2>5. PICK k \in (d + 1)..Len(I) : r.id = I[k].id
    BY <2>4 DEF Queued
  <2>6. k <= d + n
    <3> SUFFICES ASSUME d + n < k PROVE FALSE
      BY SMTT(30), <1>1, <1>3
    <3>1. d + n \in 1..Len(I) /\ k \in 1..Len(I)
      BY SMTT(30), <1>1, <1>2, <1>3, <1>4
    <3>2. I[d + n].id \in Nat /\ I[k].id \in Nat /\ I[d + n].id < I[k].id
      BY <1>3, <3>1, EntryIs
    <3> QED BY SMTT(30), <1>4, <2>3, <2>5, <3>2
  <2>7. k - d \in 1..n /\ d + (k - d) = k
    BY SMTT(30), <1>1, <1>3, <2>6
  <2>8. row(k - d) = r
    BY <1>3, <1>6, <2>5, <2>7
  <2>9. f[k - d] = q
    BY <2>1, <2>7, <2>8
  <2> QED BY <2>7, <2>9
<1>10. f \in Surjection(1..n, M)
  <2>1. f \in [1..n -> M]
    BY <1>8
  <2> HIDE DEF f, M
  <2> QED BY <1>9, <2>1 DEF Surjection
<1>11. IsFiniteSet(1..n) /\ Cardinality(1..n) = n
  <2> HIDE DEF n
  <2>1. 1 \in Int /\ n \in Int /\ ~(1 > n) /\ n - 1 + 1 = n
    BY SMTT(30), <1>1, <1>2
  <2>2. IsFiniteSet(1..n) /\ Cardinality(1..n) = IF 1 > n THEN 0 ELSE n - 1 + 1
    BY <2>1, FS_Interval
  <2> QED BY <2>1, <2>2
<1>12. IsFiniteSet(M) /\ Cardinality(M) <= n
  <2> HIDE DEF f, M
  <2> QED BY SMTT(30), <1>10, <1>11, FS_Surjection
<1>13. Cardinality(M) \in Nat
  <2> HIDE DEF M
  <2> QED BY <1>12, FS_CardinalityType
<1> QED BY SMTT(30), <1>1, <1>12, <1>13, AppServicesAssumption

LEMMA MarkKeepsQueued ==
  ASSUME NEW w, NEW E, NEW I, NEW D, NEW A, NEW next, NEW counter,
         Queued(E, I, D, A, next, counter), Knows(w, E, I, D, A, next, counter),
         w.pc = "mark"
  PROVE  Queued({Mark(r, w.maxID, w.txn) : r \in E}, I, D, A, next, counter)
<1> DEFINE m == w.maxID
           T == w.txn
           E2 == {Mark(r, m, T) : r \in E}
<1>1. /\ T \in 1..counter /\ T \notin A /\ m \in Nat /\ \A r \in E : r.txn = -1
  BY WorkerIs DEF Knows
<1>2. E \in SUBSET Row /\ IsFiniteSet(E) /\ counter \in Nat /\ T \in Int /\ T # -1 /\ -1 \notin A
  BY SMTT(30), <1>1 DEF Queued
<1>3. \A r \in E : /\ Mark(r, m, T) \in Row /\ Mark(r, m, T).id = r.id /\ Mark(r, m, T).ev = r.ev
                   /\ Mark(r, m, T).txn = IF r.id <= m THEN T ELSE -1
  BY <1>1, <1>2, MarkIs
<1>4. Cardinality(Marked(E2)) <= BatchSize
  BY MarkedIsBatch
<1>5. E2 \in SUBSET Row
  BY <1>3
<1>6. IsFiniteSet(E2)
  <2> DEFINE f == [r \in E |-> Mark(r, m, T)]
  <2>1. f \in Surjection(E, E2)
    BY DEF Surjection
  <2> HIDE DEF f, E2
  <2> QED BY <1>2, <2>1, FS_Surjection
<1>7. \A q \in E2 : \E r \in E : /\ q = Mark(r, m, T) /\ q.id = r.id /\ q.ev = r.ev
                                 /\ q.txn = IF r.id <= m THEN T ELSE -1
  BY <1>3
<1>8. \A r \in E : \E q \in E2 : /\ q.id = r.id /\ q.ev = r.ev
                                 /\ q.txn = IF r.id <= m THEN T ELSE -1
  BY <1>3
<1> HIDE DEF E2
<1>9. \A q \in E2 : q.txn \in {T, -1} /\ q.txn \notin A
  BY <1>1, <1>2, <1>7
<1>10. \A r \in E2 : r.txn = -1 \/ r.txn \in 1..counter
  BY <1>1, <1>9
<1>11. \A r, q \in E2 : r.id = q.id => r = q
  <2> SUFFICES ASSUME NEW r \in E2, NEW q \in E2, r.id = q.id PROVE r = q
    OBVIOUS
  <2>1. PICK r1 \in E : r = Mark(r1, m, T) /\ r.id = r1.id
    BY <1>7
  <2>2. PICK q1 \in E : q = Mark(q1, m, T) /\ q.id = q1.id
    BY <1>7
  <2>3. r1 = q1
    BY SMTT(30), <2>1, <2>2 DEF Queued
  <2> QED BY <2>1, <2>2, <2>3
<1>12. \A r, q \in E2 : r.txn # -1 => q.txn = r.txn \/ (q.txn = -1 /\ r.id < q.id)
  <2> SUFFICES ASSUME NEW r \in E2, NEW q \in E2, r.txn # -1, q.txn # r.txn
               PROVE  q.txn = -1 /\ r.id < q.id
    OBVIOUS
  <2>1. r.txn = T /\ q.txn = -1
    BY <1>9
  <2>2. r.id <= m /\ ~(q.id <= m)
    BY <1>2, <1>7, <2>1
  <2>3. r.id \in Nat /\ q.id \in Nat
    BY <1>5, RowIs
  <2> QED BY SMTT(30), <1>1, <2>1, <2>2, <2>3
<1>13. \A i \in (Len(D) + 1)..Len(I) :
          \E r \in E2 : r.id = I[i].id /\ r.ev = I[i].ev /\ r.txn \notin A
  <2> SUFFICES ASSUME NEW i \in (Len(D) + 1)..Len(I)
               PROVE  \E r \in E2 : r.id = I[i].id /\ r.ev = I[i].ev /\ r.txn \notin A
    OBVIOUS
  <2>1. PICK r \in E : r.id = I[i].id /\ r.ev = I[i].ev
    BY DEF Queued
  <2> QED BY <1>8, <1>9, <2>1
<1>14. \A r \in E2 : r.txn \notin A =>
          \E i \in (Len(D) + 1)..Len(I) : r.id = I[i].id /\ r.ev = I[i].ev
  <2> SUFFICES ASSUME NEW q \in E2
               PROVE  \E i \in (Len(D) + 1)..Len(I) : q.id = I[i].id /\ q.ev = I[i].ev
    OBVIOUS
  <2>1. PICK r \in E : q.id = r.id /\ q.ev = r.ev
    BY <1>7
  <2>2. r.txn \notin A
    BY <1>1, <1>2
  <2> QED BY SMTT(30), <2>1, <2>2 DEF Queued
<1>15. \A r \in E2 : r.txn \in A => \E i \in 1..Len(D) : r.id = I[i].id
  BY <1>9
<1>16. Queued(E2, I, D, A, next, counter)
  BY <1>4, <1>5, <1>6, <1>10, <1>11, <1>12, <1>13, <1>14, <1>15 DEF Queued
<1> QED BY <1>16 DEF E2

LEMMA MarkKeepsKnows ==
  ASSUME NEW w, NEW E, NEW I, NEW D, NEW A, NEW next, NEW counter,
         Queued(E, I, D, A, next, counter), Knows(w, E, I, D, A, next, counter),
         w.pc = "mark"
  PROVE  Knows([w EXCEPT !.pc = "send"], {Mark(r, w.maxID, w.txn) : r \in E},
               I, D, A, next, counter)
<1> DEFINE m == w.maxID
           T == w.txn
           E2 == {Mark(r, m, T) : r \in E}
           w2 == [w EXCEPT !.pc = "send"]
<1>1. /\ w \in Workers /\ T \in 1..counter /\ T \notin A /\ m \in Nat /\ \A r \in E : r.txn = -1
      /\ w.txn <= counter /\ w.maxID < next /\ Len(w.batch) <= BatchSize
      /\ w.batch # <<>> /\ Follows(w, I, D)
  BY WorkerIs DEF Knows
<1>2. E \in SUBSET Row /\ counter \in Nat /\ T \in Int /\ T # -1
  BY SMTT(30), <1>1 DEF Queued
<1>3. \A q \in E2 : q.txn = T <=> q.id <= m
  <2> SUFFICES ASSUME NEW r \in E
               PROVE  Mark(r, m, T).txn = T <=> Mark(r, m, T).id <= m
    OBVIOUS
  <2>1. Mark(r, m, T).id = r.id /\ Mark(r, m, T).txn = IF r.id <= m THEN T ELSE -1
    BY <1>1, <1>2, MarkIs
  <2> QED BY <1>2, <2>1
<1>4. w2 \in Workers
  BY <1>1 DEF Workers
<1>5. w2.pc = "send" /\ w2.batch = w.batch /\ w2.maxID = m /\ w2.txn = T
  BY <1>1 DEF Workers
<1> HIDE DEF w2, E2
<1>6. Follows(w2, I, D)
  BY <1>1, <1>5 DEF Follows
<1>7. Knows(w2, E2, I, D, A, next, counter)
  BY <1>1, <1>3, <1>4, <1>5, <1>6 DEF Knows
<1> QED BY <1>7 DEF w2, E2

\* RemoveEventsBeforeAndIncludingID: only rows that the service has taken go.
LEMMA RemoveKeepsQueued ==
  ASSUME NEW w, NEW E, NEW I, NEW D, NEW A, NEW next, NEW counter,
         Queued(E, I, D, A, next, counter), Knows(w, E, I, D, A, next, counter),
         w.pc = "remove"
  PROVE  Queued({r \in E : r.id > w.maxID}, I, D, A, next, counter)
<1> DEFINE E2 == {r \in E : r.id > w.maxID}
<1>1. w.maxID \in Nat /\ \A r \in E : r.id <= w.maxID => r.txn \in A
  BY WorkerIs DEF Knows
<1>2. E2 \in SUBSET E /\ E2 \in SUBSET Row /\ IsFiniteSet(E2)
  BY FS_Subset DEF Queued
<1>3. \A r \in E : r.txn \notin A => r \in E2
  <2> SUFFICES ASSUME NEW r \in E, r.txn \notin A PROVE r.id > w.maxID
    OBVIOUS
  <2>1. r.id \in Nat
    BY RowIs DEF Queued
  <2> QED BY SMTT(30), <1>1, <2>1
<1>4. Cardinality(Marked(E2)) <= BatchSize
  <2>1. Marked(E2) \in SUBSET Marked(E) /\ IsFiniteSet(Marked(E))
    BY FS_Subset DEF Marked, Queued
  <2>2. /\ Cardinality(Marked(E2)) <= Cardinality(Marked(E)) /\ IsFiniteSet(Marked(E2))
    BY <2>1, FS_Subset
  <2>3. Cardinality(Marked(E2)) \in Nat /\ Cardinality(Marked(E)) \in Nat
    BY <2>1, <2>2, FS_CardinalityType
  <2>4. Cardinality(Marked(E)) <= BatchSize
    BY DEF Queued
  <2> QED BY SMTT(30), <2>2, <2>3, <2>4, AppServicesAssumption
<1> HIDE DEF E2
<1> QED
  <2>1. Queued(E2, I, D, A, next, counter)
    BY <1>2, <1>3, <1>4 DEF Queued
  <2> QED BY <2>1 DEF E2

\* TakeTransaction: a service takes the next events, or nothing.
Taken(w, A) == IF w.batch = <<>> THEN A ELSE A \cup {w.txn}
Extended(w, D, A) == IF w.txn \in A THEN D ELSE D \o w.batch

LEMMA TakeKeepsQueued ==
  ASSUME NEW w, NEW E, NEW I, NEW D, NEW A, NEW next, NEW counter,
         Queued(E, I, D, A, next, counter), Knows(w, E, I, D, A, next, counter),
         w.pc = "send"
  PROVE  Queued(E, I, Extended(w, D, A), Taken(w, A), next, counter)
<1>1. /\ w \in Workers /\ w.batch \in Seq(Events) /\ Len(w.batch) \in Nat /\ w.maxID \in Nat
      /\ w.batch = <<>> <=> Len(w.batch) = 0
  BY WorkerIs DEF Knows
<1>2. /\ D \in Seq(Events) /\ I \in Seq(Entry) /\ Len(D) \in Nat /\ Len(I) \in Nat
      /\ A \in SUBSET (1..counter) /\ counter \in Nat /\ E \in SUBSET Row
  BY SMTT(30) DEF Queued
<1>3. CASE w.batch = <<>>
  <2>1. w.txn = 0 /\ w.txn \notin A
    BY SMTT(30), <1>2, <1>3 DEF Knows
  <2>2. Extended(w, D, A) = D /\ Taken(w, A) = A
    BY SMTT(30), <1>2, <1>3, <2>1 DEF Extended, Taken
  <2> QED BY <2>2
<1>4. CASE w.batch # <<>> /\ w.txn \in A
  <2>1. Extended(w, D, A) = D /\ Taken(w, A) = A
    BY <1>4 DEF Extended, Taken
  <2> QED BY <2>1
<1>5. CASE w.batch # <<>> /\ w.txn \notin A
  <2> DEFINE D2 == D \o w.batch
             A2 == A \cup {w.txn}
             d == Len(D)
             n == Len(w.batch)
  <2>1. Extended(w, D, A) = D2 /\ Taken(w, A) = A2
    BY <1>5 DEF Extended, Taken
  <2>2. /\ w.txn \in 1..counter /\ Follows(w, I, D)
        /\ \A r \in E : r.txn = w.txn <=> r.id <= w.maxID
    BY <1>5 DEF Knows
  <2>3. /\ D2 \in Seq(Events) /\ Len(D2) = d + n
        /\ \A i \in 1..d : D2[i] = D[i]
        /\ \A i \in 1..n : D2[d + i] = w.batch[i]
    BY SMTT(30), <1>1, <1>2
  <2>4. A2 \in SUBSET (1..counter)
    BY <1>2, <2>2
  <2>5. n > 0 /\ d + n <= Len(I) /\ w.maxID = I[d + n].id /\ \A i \in 1..n : w.batch[i] = I[d + i].ev
    BY SMTT(30), <1>1, <1>5, <2>2 DEF Follows
  <2>6. d \in Nat /\ n \in Nat /\ d + n \in 1..Len(I) /\ -1 \notin A2
    BY SMTT(30), <1>1, <1>2, <2>4, <2>5
  <2> HIDE DEF D2, d, n
  <2>7. Len(D2) <= Len(I) /\ \A i \in 1..Len(D2) : D2[i] = I[i].ev
    <3> SUFFICES ASSUME NEW i \in 1..Len(D2) PROVE D2[i] = I[i].ev
      BY <2>3, <2>5
    <3>1. CASE i \in 1..d
      BY <2>3, <3>1 DEF Queued, d
    <3>2. CASE i \notin 1..d
      <4>1. i - d \in 1..n /\ d + (i - d) = i
        BY SMTT(30), <2>3, <2>6, <3>2
      <4>2. D2[d + (i - d)] = I[d + (i - d)].ev
        BY <2>3, <2>5, <4>1
      <4> QED BY <4>1, <4>2
    <3> QED BY <3>1, <3>2
  <2>8. \A i \in 1..Len(I) : I[i].id \in Nat
    BY <1>2, EntryIs
  <2>9. \A i \in 1..Len(I) : I[i].id <= w.maxID <=> i <= d + n
    <3> SUFFICES ASSUME NEW i \in 1..Len(I) PROVE I[i].id <= w.maxID <=> i <= d + n
      OBVIOUS
    <3>1. /\ i < d + n => I[i].id < I[d + n].id
          /\ d + n < i => I[d + n].id < I[i].id
      BY <2>6 DEF Queued
    <3>2. I[i].id \in Nat /\ I[d + n].id \in Nat
      BY <2>6, <2>8
    <3> QED BY SMTT(30), <2>5, <2>6, <3>1, <3>2
  <2>10. \A i \in (Len(D2) + 1)..Len(I) :
            \E r \in E : r.id = I[i].id /\ r.ev = I[i].ev /\ r.txn \notin A2
    <3> SUFFICES ASSUME NEW i \in (Len(D2) + 1)..Len(I)
                 PROVE  \E r \in E : r.id = I[i].id /\ r.ev = I[i].ev /\ r.txn \notin A2
      OBVIOUS
    <3>1. i \in (d + 1)..Len(I) /\ i \in 1..Len(I) /\ ~(i <= d + n)
      BY SMTT(30), <1>2, <2>3, <2>6
    <3>2. PICK r \in E : r.id = I[i].id /\ r.ev = I[i].ev /\ r.txn \notin A
      BY <3>1 DEF Queued, d
    <3>3. ~(r.id <= w.maxID)
      BY <2>9, <3>1, <3>2
    <3> QED BY <2>2, <3>2, <3>3
  <2>11. \A r \in E : r.txn \notin A2 =>
            \E i \in (Len(D2) + 1)..Len(I) : r.id = I[i].id /\ r.ev = I[i].ev
    <3> SUFFICES ASSUME NEW r \in E, r.txn \notin A2
                 PROVE  \E i \in (Len(D2) + 1)..Len(I) : r.id = I[i].id /\ r.ev = I[i].ev
      OBVIOUS
    <3>1. PICK i \in (d + 1)..Len(I) : r.id = I[i].id /\ r.ev = I[i].ev
      BY DEF Queued, d
    <3>2. ~(r.id <= w.maxID)
      BY <2>2
    <3>3. i \in 1..Len(I)
      BY SMTT(30), <1>2, <2>6
    <3>4. ~(i <= d + n)
      BY <2>9, <3>1, <3>2, <3>3
    <3>5. i \in (Len(D2) + 1)..Len(I)
      BY SMTT(30), <1>2, <2>3, <2>6, <3>4
    <3> QED BY <3>1, <3>5
  <2>12. \A r \in E : r.txn \in A2 => \E i \in 1..Len(D2) : r.id = I[i].id
    <3> SUFFICES ASSUME NEW r \in E, r.txn \in A2 PROVE \E i \in 1..Len(D2) : r.id = I[i].id
      OBVIOUS
    <3>1. CASE r.txn \in A
      <4>1. PICK i \in 1..d : r.id = I[i].id
        BY <3>1 DEF Queued, d
      <4>2. i \in 1..Len(D2)
        BY SMTT(30), <2>3, <2>6
      <4> QED BY <4>1, <4>2
    <3>2. CASE r.txn \notin A
      <4>1. PICK i \in (d + 1)..Len(I) : r.id = I[i].id
        BY <3>2 DEF Queued, d
      <4>2. r.id <= w.maxID /\ i \in 1..Len(I)
        BY SMTT(30), <1>2, <2>2, <2>6, <3>2
      <4>3. i <= d + n
        BY <2>9, <4>1, <4>2
      <4>4. i \in 1..Len(D2)
        BY SMTT(30), <2>3, <4>2, <4>3
      <4> QED BY <4>1, <4>4
    <3> QED BY <3>1, <3>2
  <2> HIDE DEF A2
  <2>13. Queued(E, I, D2, A2, next, counter)
    BY <2>3, <2>4, <2>7, <2>10, <2>11, <2>12 DEF Queued
  <2> QED BY <2>1, <2>13
<1> QED BY <1>3, <1>4, <1>5

\* Once it is answered with OK, what the worker will remove is taken.
LEMMA SentKnows ==
  ASSUME NEW w, NEW E, NEW I, NEW D, NEW A, NEW next, NEW counter, NEW ready \in BOOLEAN,
         Queued(E, I, D, A, next, counter), Knows(w, E, I, D, A, next, counter),
         w.pc = "send"
  PROVE  Knows([w EXCEPT !.pc = "remove", !.ready = ready], E, I,
               Extended(w, D, A), Taken(w, A), next, counter)
<1> DEFINE w2 == [w EXCEPT !.pc = "remove", !.ready = ready]
<1>1. w \in Workers /\ w.txn <= counter /\ w.maxID < next /\ Len(w.batch) <= BatchSize
  BY DEF Knows
<1>2. w2 \in Workers
  BY <1>1 DEF Workers
<1>3. w2.pc = "remove" /\ w2.batch = w.batch /\ w2.maxID = w.maxID /\ w2.txn = w.txn
  BY <1>1 DEF Workers
<1>4. \A r \in E : r.id <= w.maxID => r.txn \in Taken(w, A)
  <2>1. CASE w.batch = <<>>
    <3>1. w.maxID = 0
      BY <2>1 DEF Knows
    <3>2. \A r \in E : r.id \in Nat \ {0}
      BY RowIs DEF Queued
    <3> QED BY SMTT(30), <3>1, <3>2
  <2>2. CASE w.batch # <<>>
    BY <2>2 DEF Knows, Taken
  <2> QED BY <2>1, <2>2
<1> HIDE DEF w2
<1>5. Knows(w2, E, I, Extended(w, D, A), Taken(w, A), next, counter)
  BY <1>1, <1>2, <1>3, <1>4 DEF Knows
<1> QED BY <1>5 DEF w2

-----------------------------------------------------------------------------
(* What the query returns and what the worker makes of it                    *)

\* A result of the query over the rows E.
Listing(rows, E) ==
  /\ rows \in [1..Cardinality(E) -> E] /\ Range(rows) = E
  /\ \A i, j \in DOMAIN rows : i < j => Before(rows[i], rows[j])

\* Every ID was drawn from the sequence.
LEMMA RowBelow ==
  ASSUME NEW E, NEW I, NEW D, NEW A, NEW next, NEW counter,
         Queued(E, I, D, A, next, counter), NEW r \in E
  PROVE  r.id < next
<1>1. Len(I) \in Nat /\ Len(D) \in Nat /\ Len(D) <= Len(I)
  BY SMTT(30) DEF Queued
<1>2. PICK i \in 1..Len(I) : r.id = I[i].id
  <2>1. CASE r.txn \in A
    BY SMTT(30), <1>1, <2>1 DEF Queued
  <2>2. CASE r.txn \notin A
    BY SMTT(30), <1>1, <2>2 DEF Queued
  <2> QED BY <2>1, <2>2
<1> QED BY <1>2 DEF Queued

\* So was every transaction ID.
LEMMA TxnBelow ==
  ASSUME NEW E, NEW I, NEW D, NEW A, NEW next, NEW counter,
         Queued(E, I, D, A, next, counter)
  PROVE  A \subseteq 0..counter /\ \A r \in E : r.txn <= counter
<1>1. /\ A \in SUBSET (1..counter) /\ counter \in Nat
      /\ \A r \in E : r.txn = -1 \/ r.txn \in 1..counter
  BY DEF Queued
<1> QED BY SMTT(30), <1>1

\* The query lists each row once, and in the order of the IDs: the rows of the
\* transaction under way come first and have the smaller IDs.
LEMMA ListingIs ==
  ASSUME NEW E, NEW I, NEW D, NEW A, NEW next, NEW counter,
         Queued(E, I, D, A, next, counter), NEW rows, Listing(rows, E)
  PROVE  /\ Cardinality(E) \in Nat /\ rows \in Seq(Row) /\ Len(rows) = Cardinality(E)
         /\ DOMAIN rows = 1..Len(rows)
         /\ \A i \in 1..Len(rows) : rows[i] \in E /\ rows[i].id \in Nat
         /\ \A r \in E : \E i \in 1..Len(rows) : rows[i] = r
         /\ \A i, j \in 1..Len(rows) : i < j => rows[i].id < rows[j].id
         /\ \A i, j \in 1..Len(rows) : i < j => rows[i].txn >= rows[j].txn
<1>1. Cardinality(E) \in Nat
  BY FS_CardinalityType DEF Queued
<1>2. rows \in [1..Cardinality(E) -> E] /\ Range(rows) = E /\ E \in SUBSET Row
  BY DEF Listing, Queued
<1>3. rows \in Seq(Row) /\ Len(rows) = Cardinality(E) /\ DOMAIN rows = 1..Len(rows)
  BY SMTT(30), <1>1, <1>2
<1>4. \A i \in 1..Len(rows) : rows[i] \in E
  BY <1>2, <1>3
<1>5. \A i \in 1..Len(rows) : rows[i].id \in Nat /\ rows[i].txn \in Int
  BY <1>2, <1>4, RowIs
<1>6. \A r \in E : \E i \in 1..Len(rows) : rows[i] = r
  BY <1>2, <1>3 DEF Range
<1>7. ASSUME NEW i \in 1..Len(rows), NEW j \in 1..Len(rows), i < j
      PROVE  rows[i].id < rows[j].id /\ rows[i].txn >= rows[j].txn
  <2>1. Before(rows[i], rows[j])
    BY <1>3, <1>7 DEF Listing
  <2>2. CASE rows[i].txn = rows[j].txn
    BY SMTT(30), <1>5, <2>1, <2>2 DEF Before
  <2>3. CASE rows[i].txn # rows[j].txn
    <3>1. rows[i].txn > rows[j].txn
      BY <2>1, <2>3 DEF Before
    <3>2. rows[j].txn = -1 \/ rows[j].txn \in 1..counter
      BY <1>4 DEF Queued
    <3>3. rows[i].txn # -1
      BY SMTT(30), <1>5, <3>1, <3>2
    <3>4. rows[j].txn = rows[i].txn \/ rows[i].id < rows[j].id
      BY <1>4, <3>3 DEF Queued
    <3> QED BY SMTT(30), <1>5, <2>3, <3>1, <3>4
  <2> QED BY <2>2, <2>3
<1> QED BY <1>1, <1>3, <1>4, <1>5, <1>6, <1>7

\* Where the loop over the rows returns.
LEMMA ProcessedIs ==
  ASSUME NEW rows \in Seq(Row), NEW limit \in Nat \ {0}
  PROVE  LET n == Processed(rows, limit)
         IN  /\ n \in 0..Len(rows) /\ (Len(rows) > 0 => n > 0)
             /\ \A i \in 1..n : rows[i].txn = rows[1].txn /\ (rows[i].txn = -1 => i <= limit)
             /\ n < Len(rows) => \/ rows[n + 1].txn # rows[1].txn
                                 \/ rows[n + 1].txn = -1 /\ n + 1 > limit
<1> DEFINE N == Len(rows)
           returns == {i \in 1..N : rows[i].txn # rows[1].txn \/ (rows[i].txn = -1 /\ i > limit)}
           S == {N + 1} \cup returns
           n == Processed(rows, limit)
<1>1. N \in Nat
  BY SMTT(30)
<1>2. n = Min(S) - 1
  BY DEF Processed
<1>3. S \in SUBSET Nat /\ S # {} /\ N + 1 \in S
  BY SMTT(30), <1>1
<1>4. Min(S) \in S /\ \A y \in S : Min(S) <= y
  <2> HIDE DEF S
  <2> QED BY <1>3, MinIs
<1>5. Min(S) \in 1..(N + 1)
  BY SMTT(30), <1>1, <1>3, <1>4
<1>6. n \in 0..N /\ Min(S) = n + 1
  <2> HIDE DEF S, N, n
  <2> QED BY SMTT(30), <1>1, <1>2, <1>5
<1>7. N > 0 => n > 0
  <2> SUFFICES ASSUME N > 0 PROVE Min(S) # 1
    BY SMTT(30), <1>1, <1>6
  <2>1. 1 \notin S
    BY SMTT(30), <1>1
  <2> QED BY <1>4, <2>1
<1>8. ASSUME NEW i \in 1..n PROVE rows[i].txn = rows[1].txn /\ (rows[i].txn = -1 => i <= limit)
  <2>1. i \in 1..N /\ ~(n + 1 <= i)
    BY SMTT(30), <1>1, <1>6
  <2>2. i \notin S
    BY <1>4, <1>6, <2>1
  <2>3. i \notin returns
    BY <2>2
  <2> QED BY SMTT(30), <2>1, <2>3
<1>9. ASSUME n < N PROVE rows[n + 1].txn # rows[1].txn \/ (rows[n + 1].txn = -1 /\ n + 1 > limit)
  <2>1. n + 1 \in S /\ n + 1 # N + 1
    BY SMTT(30), <1>1, <1>4, <1>6, <1>9
  <2> QED BY <2>1
<1> QED BY <1>6, <1>7, <1>8, <1>9

\* If the service has taken none of its rows, they are in the order they were
\* inserted in the ones that come after D.
LEMMA UntakenListing ==
  ASSUME NEW E, NEW I, NEW D, NEW A, NEW next, NEW counter,
         Queued(E, I, D, A, next, counter), NEW rows, Listing(rows, E),
         \A r \in E : r.txn \notin A
  PROVE  /\ Len(rows) = Len(I) - Len(D)
         /\ \A i \in 1..Len(rows) : /\ rows[i].id = I[Len(D) + i].id
                                    /\ rows[i].ev = I[Len(D) + i].ev
<1> DEFINE N == Len(rows)
<1>1. /\ N \in Nat /\ \A i \in 1..N : rows[i] \in E /\ rows[i].id \in Nat
      /\ \A r \in E : \E i \in 1..N : rows[i] = r
      /\ \A i, j \in 1..N : i < j => rows[i].id < rows[j].id
  BY SMTT(30), ListingIs
<1> DEFINE d == Len(D)
           M == Len(I) - d
           f == [i \in 1..N |-> rows[i].id]
           g == [j \in 1..M |-> I[d + j].id]
<1>2. d \in Nat /\ Len(I) \in Nat /\ M \in Nat /\ I \in Seq(Entry)
  BY SMTT(30) DEF Queued
<1>3. \A j \in 1..M : d + j \in (d + 1)..Len(I) /\ d + j \in 1..Len(I)
  BY SMTT(30), <1>2
<1>4. \A k \in (d + 1)..Len(I) : k - d \in 1..M /\ d + (k - d) = k /\ k \in 1..Len(I)
  BY SMTT(30), <1>2
<1>5. f \in [1..N -> Nat] /\ Increasing(f, N)
  BY <1>1 DEF Increasing
<1>6. g \in [1..M -> Nat] /\ Increasing(g, M)
  <2>1. \A j \in 1..M : I[d + j].id \in Nat
    BY <1>2, <1>3, EntryIs
  <2>2. ASSUME NEW i \in 1..M, NEW j \in 1..M, i < j PROVE I[d + i].id < I[d + j].id
    <3>1. d + i < d + j
      BY SMTT(30), <1>2, <2>2
    <3> QED BY <1>3, <3>1 DEF Queued
  <2> HIDE DEF M, d
  <2> QED BY <2>1, <2>2 DEF Increasing
<1>7. ASSUME NEW i \in 1..N
      PROVE  \E j \in 1..M : rows[i].id = I[d + j].id /\ rows[i].ev = I[d + j].ev
  <2>1. PICK k \in (d + 1)..Len(I) : rows[i].id = I[k].id /\ rows[i].ev = I[k].ev
    BY <1>1 DEF Queued
  <2> QED BY <1>4, <2>1
<1>8. ASSUME NEW j \in 1..M PROVE \E i \in 1..N : I[d + j].id = rows[i].id
  <2>1. PICK r \in E : r.id = I[d + j].id
    BY <1>3 DEF Queued
  <2>2. PICK i \in 1..N : rows[i] = r
    BY <1>1
  <2> QED BY <2>1, <2>2
<1>9. /\ \A i \in 1..N : f[i] = rows[i].id
      /\ \A j \in 1..M : g[j] = I[d + j].id
  OBVIOUS
<1> HIDE DEF f, g, N, M, d
<1>10. /\ \A i \in 1..N : \E j \in 1..M : f[i] = g[j]
       /\ \A j \in 1..M : \E i \in 1..N : g[j] = f[i]
  BY SMTT(30), <1>7, <1>8, <1>9
<1>11. N <= M /\ \A i \in 1..N : f[i] = g[i]
  <2>1. N \in Nat /\ M \in Nat
    BY <1>1, <1>2
  <2> QED BY <2>1, <1>5, <1>6, <1>10, ListedInOrder
<1>12. M <= N
  BY <1>1, <1>2, <1>5, <1>6, <1>10, ListedInOrder
<1>13. N = M
  BY SMTT(30), <1>1, <1>2, <1>11, <1>12
<1>14. ASSUME NEW i \in 1..N PROVE rows[i].id = I[d + i].id /\ rows[i].ev = I[d + i].ev
  <2>1. PICK j \in 1..M : rows[i].id = I[d + j].id /\ rows[i].ev = I[d + j].ev
    BY <1>7
  <2>2. g[i] = g[j] /\ g[i] \in Nat /\ i \in 1..M
    BY <1>6, <1>9, <1>11, <1>13, <2>1
  <2>3. i = j
    BY SMTT(30), <1>6, <2>2 DEF Increasing
  <2> QED BY <2>1, <2>3
<1> QED BY <1>13, <1>14 DEF N, M, d

\* The worker after the query.
Reader(w, read) ==
  [pc |-> IF read.txn = -1 THEN "number" ELSE "send", ready |-> w.ready, txn |-> read.txn,
   maxID |-> read.maxID, batch |-> read.batch, remaining |-> read.remaining]

\* What RetrieveEvents returns for a nonempty queue: a beginning of the listing,
\* with the ID of its last row.
LEMMA RetrievedIs ==
  ASSUME NEW E, NEW I, NEW D, NEW A, NEW next, NEW counter,
         Queued(E, I, D, A, next, counter), NEW rows, Listing(rows, E), Len(rows) > 0
  PROVE  LET n == Processed(rows, BatchSize)
             read == RetrieveEvents(rows)
         IN  /\ n \in 1..Len(rows) /\ read.txn = rows[1].txn /\ read.maxID = rows[n].id
             /\ read.batch = [i \in 1..n |-> rows[i].ev] /\ read.remaining \in BOOLEAN
             /\ read.batch \in Seq(Events) /\ Len(read.batch) = n
<1> DEFINE n == Processed(rows, BatchSize)
           read == RetrieveEvents(rows)
           ids == {0} \cup {rows[i].id : i \in 1..n}
<1>1. /\ rows \in Seq(Row) /\ \A i \in 1..Len(rows) : rows[i] \in E /\ rows[i].id \in Nat
      /\ \A i, j \in 1..Len(rows) : i < j => rows[i].id < rows[j].id
  BY ListingIs
<1>2. n \in 1..Len(rows)
  <2>1. n \in 0..Len(rows) /\ n > 0
    BY <1>1, ProcessedIs, AppServicesAssumption
  <2> QED BY SMTT(30), <2>1
<1> HIDE DEF n
<1>3. \A i \in 1..n : i \in 1..Len(rows) /\ rows[i].id \in Nat /\ rows[i].ev \in Events
  <2>1. E \in SUBSET Row
    BY DEF Queued
  <2> QED BY SMTT(30), <1>1, <1>2, <2>1, RowIs
<1>4. Max(ids) = rows[n].id
  <2>1. ids \in SUBSET Nat
    BY SMTT(30), <1>3
  <2>2. n \in 1..n
    BY SMTT(30), <1>2
  <2>3. rows[n].id \in ids
    BY <2>2
  <2>4. \A i \in 1..n : rows[i].id <= rows[n].id
    <3> SUFFICES ASSUME NEW i \in 1..n PROVE rows[i].id <= rows[n].id
      OBVIOUS
    <3>1. i = n \/ i < n
      BY SMTT(30), <1>2
    <3> QED BY SMTT(30), <1>1, <1>2, <1>3, <2>2, <3>1
  <2>5. \A y \in ids : y <= rows[n].id
    BY SMTT(30), <1>3, <2>2, <2>4
  <2> HIDE DEF ids
  <2> QED BY <2>1, <2>3, <2>5, MaxIs
<1>5. rows # <<>>
  BY SMTT(30), <1>1
<1>6. /\ read.txn = rows[1].txn /\ read.maxID = Max(ids)
      /\ read.batch = [i \in 1..n |-> rows[i].ev]
      /\ read.remaining = (n < Len(rows))
  BY <1>5 DEF RetrieveEvents, Results, n
<1>7. read.remaining \in BOOLEAN
  <2>1. (n < Len(rows)) \in BOOLEAN
    BY SMTT(30), <1>1, <1>2
  <2> HIDE DEF read
  <2> QED BY <1>6, <2>1
<1>8. read.batch \in Seq(Events) /\ Len(read.batch) = n
  <2>1. read.batch \in [1..n -> Events] /\ n \in Nat
    BY SMTT(30), <1>2, <1>3, <1>6
  <2> HIDE DEF read
  <2> QED BY SMTT(30), <2>1
<1> QED BY <1>2, <1>4, <1>6, <1>7, <1>8 DEF n

\* The worker of a service with no rows sends a transaction without events.
LEMMA ReadNothing ==
  ASSUME NEW w \in Workers, NEW E, NEW I, NEW D, NEW A, NEW next, NEW counter,
         Queued(E, I, D, A, next, counter), NEW rows, Listing(rows, E), Len(rows) = 0
  PROVE  Knows(Reader(w, RetrieveEvents(rows)), E, I, D, A, next, counter)
<1> DEFINE n == Processed(rows, BatchSize)
           read == RetrieveEvents(rows)
           w2 == Reader(w, read)
<1>1. rows \in Seq(Row)
  BY ListingIs
<1>2. n = 0 /\ rows = <<>>
  <2>1. n \in 0..Len(rows)
    BY <1>1, ProcessedIs, AppServicesAssumption
  <2> QED BY SMTT(30), <1>1, <2>1
<1>3. Max({0} \cup {rows[i].id : i \in 1..n}) = 0
  <2>1. {0} \cup {rows[i].id : i \in 1..n} = {0}
    BY SMTT(30), <1>2
  <2>2. Max({0}) = 0
    BY SMTT(30), MaxIs
  <2> QED BY <2>1, <2>2
<1>4. /\ read.txn = 0 /\ read.maxID = 0
      /\ read.batch = [i \in 1..n |-> rows[i].ev] /\ read.remaining = (n < Len(rows))
  BY <1>2, <1>3 DEF RetrieveEvents, Results
<1>5. read.batch = <<>>
  BY SMTT(30), <1>2, <1>4
<1> HIDE DEF read
<1>6. read.remaining \in BOOLEAN /\ w.ready \in BOOLEAN
  <2>1. (n < Len(rows)) \in BOOLEAN
    BY SMTT(30), <1>2
  <2>2. read.remaining \in BOOLEAN
    BY <1>4, <2>1
  <2>3. w.ready \in BOOLEAN
    BY DEF Workers
  <2> QED BY <2>2, <2>3
<1>7. w2.pc = "send" /\ w2.txn = 0 /\ w2.maxID = 0 /\ w2.batch = <<>>
  <2>1. read.txn # -1
    BY SMTT(30), <1>4
  <2> QED BY <1>4, <1>5, <2>1 DEF Reader
<1>8. 0 \in Int /\ 0 \in Nat /\ <<>> \in Seq(Events)
  BY SMTT(30)
<1>9. w2 \in Workers
  BY <1>4, <1>5, <1>6, <1>8 DEF Reader, Workers
<1>10. 0 <= counter /\ 0 < next /\ Len(<<>>) <= BatchSize
  BY SMTT(30), AppServicesAssumption DEF Queued
<1> HIDE DEF w2
<1>11. Knows(w2, E, I, D, A, next, counter)
  BY <1>7, <1>9, <1>10 DEF Knows
<1> QED BY <1>11 DEF w2, read

\* Otherwise it has the rows of the transaction under way, or else the first rows
\* that have none; unless they were taken already they are what comes next.
LEMMA ReadSome ==
  ASSUME NEW w \in Workers, NEW E, NEW I, NEW D, NEW A, NEW next, NEW counter,
         Queued(E, I, D, A, next, counter), NEW rows, Listing(rows, E), Len(rows) > 0
  PROVE  Knows(Reader(w, RetrieveEvents(rows)), E, I, D, A, next, counter)
<1> DEFINE N == Len(rows)
           n == Processed(rows, BatchSize)
           read == RetrieveEvents(rows)
           w2 == Reader(w, read)
           T == rows[1].txn
<1>1. /\ rows \in Seq(Row) /\ N \in Nat
      /\ \A i \in 1..N : rows[i] \in E /\ rows[i].id \in Nat
      /\ \A r \in E : \E i \in 1..N : rows[i] = r
      /\ \A i, j \in 1..N : i < j => rows[i].id < rows[j].id
      /\ \A i, j \in 1..N : i < j => rows[i].txn >= rows[j].txn
  BY ListingIs
<1>2. /\ \A i \in 1..n : rows[i].txn = T /\ (rows[i].txn = -1 => i <= BatchSize)
      /\ n < N => rows[n + 1].txn # T \/ (rows[n + 1].txn = -1 /\ n + 1 > BatchSize)
  BY <1>1, ProcessedIs, AppServicesAssumption
<1>3. /\ n \in 1..N /\ read.txn = T /\ read.maxID = rows[n].id
      /\ read.batch = [i \in 1..n |-> rows[i].ev] /\ read.remaining \in BOOLEAN
      /\ read.batch \in Seq(Events) /\ Len(read.batch) = n
  BY RetrievedIs
<1> HIDE DEF n, read, N
<1>4. 1 \in 1..N /\ n \in 1..n /\ n \in Nat /\ rows[1] \in E /\ rows[n] \in E
  BY SMTT(30), <1>1, <1>3
<1>5. /\ E \in SUBSET Row /\ counter \in Nat /\ next \in Nat /\ -1 \notin A
      /\ \A r \in E : r.txn = -1 \/ r.txn \in 1..counter
      /\ \A r, q \in E : r.txn # -1 => q.txn = r.txn \/ (q.txn = -1 /\ r.id < q.id)
  BY SMTT(30) DEF Queued
<1>6. \A r \in E : r.id \in Nat /\ r.txn \in Int
  BY <1>5, RowIs
<1>7. T \in Int /\ T <= counter /\ rows[n].id < next /\ rows[n].id \in Nat
  BY SMTT(30), <1>4, <1>5, <1>6, RowBelow
<1>8. w2 \in Workers
  <2>1. w.ready \in BOOLEAN
    BY DEF Workers
  <2> QED BY <1>3, <1>7, <2>1 DEF Reader, Workers
<1>9. /\ w2.txn = T /\ w2.maxID = rows[n].id /\ w2.batch = read.batch
      /\ w2.pc = IF T = -1 THEN "number" ELSE "send"
  BY <1>3 DEF Reader
<1>10. w2.batch # <<>> /\ Len(w2.batch) = n /\ \A i \in 1..n : w2.batch[i] = rows[i].ev
  BY SMTT(30), <1>3, <1>4, <1>9
<1> HIDE DEF w2
<1>11. T = -1 => \A r \in E : r.txn = -1
  <2> SUFFICES ASSUME T = -1, NEW r \in E PROVE r.txn = -1
    OBVIOUS
  <2>1. PICK i \in 1..N : rows[i] = r
    BY <1>1
  <2>2. i = 1 \/ T >= r.txn
    BY SMTT(30), <1>1, <1>4, <2>1
  <2> QED BY SMTT(30), <1>5, <1>6, <2>1, <2>2
<1>12. T # -1 => \A r \in E : r.txn \in {T, -1}
  BY <1>4, <1>5
<1>13. T \notin A => \A r \in E : r.txn \notin A
  BY <1>5, <1>11, <1>12
<1>14. T \notin A => Follows(w2, I, D)
  <2> SUFFICES ASSUME T \notin A PROVE Follows(w2, I, D)
    OBVIOUS
  <2>1. /\ N = Len(I) - Len(D)
        /\ \A i \in 1..N : rows[i].id = I[Len(D) + i].id /\ rows[i].ev = I[Len(D) + i].ev
    BY SMTT(30), <1>13, UntakenListing DEF N
  <2>2. Len(I) \in Nat /\ Len(D) \in Nat
    BY SMTT(30) DEF Queued
  <2>3. Len(D) + n <= Len(I) /\ \A i \in 1..n : i \in 1..N
    BY SMTT(30), <1>1, <1>3, <2>1, <2>2
  <2> QED BY <1>9, <1>10, <1>4, <2>1, <2>3 DEF Follows
<1>15. T # -1 => \A r \in E : r.txn = T <=> r.id <= rows[n].id
  <2> SUFFICES ASSUME T # -1, NEW r \in E PROVE r.txn = T <=> r.id <= rows[n].id
    OBVIOUS
  <2>1. PICK i \in 1..N : rows[i] = r
    BY <1>1
  <2>2. CASE i <= n
    <3>1. i \in 1..n /\ (i = n \/ i < n)
      BY SMTT(30), <1>4, <2>2
    <3>2. r.txn = T
      BY <1>2, <2>1, <3>1
    <3>3. r.id <= rows[n].id
      <4>1. /\ rows[i].id \in Nat /\ rows[n].id \in Nat
            /\ i < n => rows[i].id < rows[n].id
        BY <1>1, <1>3
      <4> QED BY SMTT(30), <2>1, <3>1, <4>1
    <3> QED BY <3>2, <3>3
  <2>3. CASE n < i
    <3>1. n < N /\ n + 1 \in 1..N /\ 1 < n + 1 /\ (i = n + 1 \/ n + 1 < i)
      BY SMTT(30), <1>1, <1>3, <2>3
    <3>2. rows[n].id < r.id
      BY <1>1, <1>3, <2>1, <2>3
    <3>3. rows[n + 1].txn # T
      BY <1>2, <3>1
    <3>4. rows[n + 1].txn \in Int /\ T >= rows[n + 1].txn
      BY <1>1, <1>4, <1>6, <3>1
    <3>5. i = n + 1 \/ rows[n + 1].txn >= r.txn
      BY <1>1, <2>1, <3>1
    <3>6. r.txn # T
      BY SMTT(30), <1>6, <1>7, <2>1, <3>3, <3>4, <3>5
    <3>7. ~(r.id <= rows[n].id)
      BY SMTT(30), <1>6, <1>7, <3>2
    <3> QED BY <3>6, <3>7
  <2>4. i <= n \/ n < i
    BY SMTT(30), <1>3
  <2> QED BY <2>2, <2>3, <2>4
<1>16. n <= BatchSize
  <2>1. CASE T = -1
    BY <1>2, <1>4, <2>1
  <2>2. CASE T # -1
    <3> DEFINE f == [i \in 1..n |-> rows[i]]
               M == Marked(E)
    <3>1. \A i \in 1..n : rows[i] \in M /\ i \in 1..N
      BY SMTT(30), <1>1, <1>2, <1>3, <2>2 DEF Marked
    <3>2. \A i, j \in 1..n : rows[i] = rows[j] => i = j
      <4> SUFFICES ASSUME NEW i \in 1..n, NEW j \in 1..n, i # j PROVE rows[i] # rows[j]
        OBVIOUS
      <4>1. i < j \/ j < i
        BY SMTT(30), <1>4
      <4>2. rows[i].id # rows[j].id
        BY SMTT(30), <1>1, <3>1, <4>1
      <4> QED BY <4>2
    <3>3. f \in Injection(1..n, M)
      <4>1. f \in [1..n -> M] /\ \A i, j \in 1..n : f[i] = f[j] => i = j
        BY <3>1, <3>2
      <4> HIDE DEF f, M
      <4> QED BY <4>1 DEF Injection, IsInjective
    <3>4. IsFiniteSet(M) /\ Cardinality(M) \in Nat /\ Cardinality(M) <= BatchSize
      <4>1. IsFiniteSet(M)
        BY FS_Subset DEF Marked, Queued
      <4> QED BY <4>1, FS_CardinalityType DEF Queued
    <3>5. Cardinality(1..n) <= Cardinality(M)
      <4> HIDE DEF f, M
      <4> QED BY <3>3, <3>4, FS_Injection
    <3>6. Cardinality(1..n) = n
      <4>1. 1 \in Int /\ n \in Int /\ ~(1 > n) /\ n - 1 + 1 = n
        BY SMTT(30), <1>3, <1>4
      <4>2. Cardinality(1..n) = IF 1 > n THEN 0 ELSE n - 1 + 1
        BY <4>1, FS_Interval
      <4> QED BY <4>1, <4>2
    <3>7. n <= Cardinality(M)
      BY <3>5, <3>6
    <3> HIDE DEF f, M
    <3> QED BY SMTT(30), <1>4, <3>4, <3>7, AppServicesAssumption
  <2> QED BY <2>1, <2>2
<1>17. CASE T = -1
  <2>1. w2.pc = "number" /\ Follows(w2, I, D) /\ \A r \in E : r.txn = -1
    BY <1>5, <1>9, <1>11, <1>14, <1>17
  <2>2. Knows(w2, E, I, D, A, next, counter)
    BY <1>7, <1>8, <1>9, <1>10, <1>16, <2>1 DEF Knows
  <2> QED BY <2>2 DEF w2, read
<1>18. CASE T # -1
  <2>1. w2.pc = "send" /\ T \in 1..counter /\ \A r \in E : r.txn = T <=> r.id <= rows[n].id
    BY <1>4, <1>5, <1>9, <1>15, <1>18
  <2>2. Knows(w2, E, I, D, A, next, counter)
    BY <1>7, <1>8, <1>9, <1>10, <1>14, <1>16, <2>1 DEF Knows
  <2> QED BY <2>2 DEF w2, read
<1> QED BY <1>17, <1>18

-----------------------------------------------------------------------------
(* The steps of the specification keep what is known about delivery          *)

\* The services are listed in the configuration.
LEMMA ServiceList ==
  /\ Len(WorkerStates) \in Nat \ {0} /\ DOMAIN WorkerStates = 1..Len(WorkerStates)
  /\ \A a \in 1..Len(WorkerStates) : WorkerStates[a] \in Services
  /\ \A s \in Services : \E a \in 1..Len(WorkerStates) : WorkerStates[a] = s
  /\ None \notin Services
BY SMTT(30), AppServicesAssumption DEF Services, Range

\* A step that changes the queue of one service, and for the others at most the
\* sequences.
OnlyService(s) ==
  /\ events' = [events EXCEPT ![s] = events'[s]]
  /\ inserted' = [inserted EXCEPT ![s] = inserted'[s]]
  /\ delivered' = [delivered EXCEPT ![s] = delivered'[s]]
  /\ accepted' = [accepted EXCEPT ![s] = accepted'[s]]
  /\ worker' = [worker EXCEPT ![s] = worker'[s]]

Good(s) ==
  /\ Queued(events[s], inserted[s], delivered[s], accepted[s], nextID, txnCounter)
  /\ Knows(worker[s], events[s], inserted[s], delivered[s], accepted[s], nextID, txnCounter)

LEMMA OneService ==
  ASSUME Delivery, NEW s \in Services, OnlyService(s),
         nextID <= nextID', txnCounter <= txnCounter', Good(s)'
  PROVE  Delivery'
<1>1. /\ events'[s] \in SUBSET Row /\ inserted'[s] \in Seq(Entry) /\ delivered'[s] \in Seq(Events)
      /\ worker'[s] \in Workers /\ accepted'[s] \in SUBSET Nat
      /\ nextID' \in Nat /\ txnCounter' \in Nat
  BY SMTT(30) DEF Good, Queued, Knows
<1>2. /\ events' \in [Services -> SUBSET Row] /\ inserted' \in [Services -> Seq(Entry)]
      /\ delivered' \in [Services -> Seq(Events)] /\ accepted' \in [Services -> SUBSET Nat]
      /\ worker' \in [Services -> Workers]
  BY <1>1 DEF Delivery, OnlyService
<1>3. ASSUME NEW t \in Services PROVE Good(t)'
  <2>1. CASE t = s
    BY <2>1
  <2>2. CASE t # s
    <3>1. /\ events'[t] = events[t] /\ inserted'[t] = inserted[t] /\ delivered'[t] = delivered[t]
          /\ accepted'[t] = accepted[t] /\ worker'[t] = worker[t]
      BY <2>2 DEF Delivery, OnlyService
    <3>2. Good(t)
      BY DEF Delivery, Good
    <3>3. nextID \in Nat /\ txnCounter \in Nat
      BY <3>2 DEF Good, Queued
    <3>4. Queued(events[t], inserted[t], delivered[t], accepted[t], nextID', txnCounter')
      BY <1>1, <3>2, QueuedGrows DEF Good
    <3>5. Knows(worker[t], events[t], inserted[t], delivered[t], accepted[t], nextID', txnCounter')
      BY <1>1, <3>2, <3>3, KnowsGrows DEF Good
    <3> QED BY <3>1, <3>4, <3>5 DEF Good
  <2> QED BY <2>1, <2>2
<1> QED BY <1>2, <1>3 DEF Delivery, Good

\* Every service is a function's argument: what a step sets is what it reads after.
LEMMA SetOne ==
  ASSUME NEW S, NEW f, NEW g, NEW s \in S, NEW x, f = [y \in S |-> f[y]], g = [f EXCEPT ![s] = x]
  PROVE  g[s] = x /\ g = [f EXCEPT ![s] = g[s]]
OBVIOUS

LEMMA SetNone ==
  ASSUME NEW S, NEW f, NEW s \in S, f = [y \in S |-> f[y]]
  PROVE  f = [f EXCEPT ![s] = f[s]]
OBVIOUS

\* The variables of the services are functions on the services.
LEMMA Functional ==
  ASSUME Delivery
  PROVE  /\ events = [x \in Services |-> events[x]] /\ inserted = [x \in Services |-> inserted[x]]
         /\ delivered = [x \in Services |-> delivered[x]]
         /\ accepted = [x \in Services |-> accepted[x]]
         /\ worker = [x \in Services |-> worker[x]]
BY DEF Delivery

LEMMA GoodNow ==
  ASSUME Delivery, NEW s \in Services
  PROVE  /\ Queued(events[s], inserted[s], delivered[s], accepted[s], nextID, txnCounter)
         /\ Knows(worker[s], events[s], inserted[s], delivered[s], accepted[s], nextID, txnCounter)
         /\ nextID \in Nat \ {0} /\ txnCounter \in Nat /\ worker[s] \in Workers
         /\ nextID <= nextID /\ txnCounter <= txnCounter
<1>1. Good(s)
  BY DEF Delivery, Good
<1>2. nextID \in Nat \ {0} /\ txnCounter \in Nat /\ worker[s] \in Workers
  BY <1>1 DEF Good, Queued, Knows
<1>3. nextID <= nextID /\ txnCounter <= txnCounter
  BY SMTT(30), <1>2
<1> QED BY <1>1, <1>2, <1>3 DEF Good

\* A step of the worker of s that leaves the rest alone.
LEMMA OneWorker ==
  ASSUME Delivery, NEW s \in Services, NEW w, worker' = [worker EXCEPT ![s] = w],
         UNCHANGED <<events, inserted, delivered, accepted, nextID, txnCounter>>,
         Knows(w, events[s], inserted[s], delivered[s], accepted[s], nextID, txnCounter)
  PROVE  Delivery'
<1>1. worker'[s] = w /\ worker' = [worker EXCEPT ![s] = worker'[s]]
  BY Functional, SetOne
<1>2. OnlyService(s)
  BY <1>1, Functional, SetNone DEF OnlyService
<1>3. Good(s)'
  BY <1>1, GoodNow DEF Good
<1> QED BY <1>2, <1>3, GoodNow, OneService

LEMMA SameDelivery ==
  ASSUME Delivery, UNCHANGED <<events, inserted, delivered, accepted, worker, nextID, txnCounter>>
  PROVE  Delivery'
BY DEF Delivery

\* A worker that starts a new round.
LEMMA AgainKnows ==
  ASSUME Delivery, NEW s \in Services, NEW ready \in BOOLEAN
  PROVE  LET w == [NewWorker EXCEPT !.pc = "wait", !.ready = ready]
         IN  Knows(w, events[s], inserted[s], delivered[s], accepted[s], nextID, txnCounter)
<1> DEFINE w == [NewWorker EXCEPT !.pc = "wait", !.ready = ready]
<1>1. <<>> \in Seq(Events) /\ Len(<<>>) = 0 /\ 0 \in Nat /\ 0 \in Int
  BY SMTT(30)
<1>2. /\ w \in Workers /\ w.pc = "wait" /\ w.txn = 0 /\ w.maxID = 0 /\ w.batch = <<>>
  BY <1>1 DEF Workers, NewWorker
<1> HIDE DEF w
<1>3. /\ w.txn <= txnCounter /\ w.maxID < nextID /\ Len(w.batch) <= BatchSize
      /\ w.pc \in {"start", "wait", "waiting", "select"}
  <2>1. txnCounter \in Nat /\ nextID \in Nat \ {0} /\ BatchSize \in Nat
    BY GoodNow, AppServicesAssumption
  <2> QED BY SMTT(30), <1>1, <1>2, <2>1
<1>4. Knows(w, events[s], inserted[s], delivered[s], accepted[s], nextID, txnCounter)
  BY SMTT(30), <1>2, <1>3, IdleKnows
<1> QED BY <1>4 DEF w

\* A worker that only waits, or stops waiting.
LEMMA WaitKnows ==
  ASSUME Delivery, NEW s \in Services, worker[s].pc \in {"wait", "waiting"},
         NEW pc \in {"waiting", "select"}
  PROVE  LET w == [worker[s] EXCEPT !.pc = pc]
         IN  Knows(w, events[s], inserted[s], delivered[s], accepted[s], nextID, txnCounter)
<1> DEFINE old == worker[s]
           w == [old EXCEPT !.pc = pc]
<1>1. /\ old \in Workers /\ old.txn <= txnCounter /\ old.maxID < nextID
      /\ Len(old.batch) <= BatchSize
  BY GoodNow DEF Knows
<1> HIDE DEF old
<1>2. /\ w \in Workers /\ w.pc = pc /\ w.txn = old.txn /\ w.maxID = old.maxID
      /\ w.batch = old.batch
  BY <1>1 DEF Workers
<1> HIDE DEF w
<1>3. /\ w.txn <= txnCounter /\ w.maxID < nextID /\ Len(w.batch) <= BatchSize
      /\ w.pc \in {"start", "wait", "waiting", "select"}
  BY <1>1, <1>2
<1>4. Knows(w, events[s], inserted[s], delivered[s], accepted[s], nextID, txnCounter)
  BY SMTT(30), <1>2, <1>3, IdleKnows
<1> QED BY <1>4 DEF w, old

LEMMA StartDelivery ==
  ASSUME Delivery, NEW s \in Services, StartWorker(s)
  PROVE  Delivery'
<1>1. (events[s] # {}) \in BOOLEAN
  OBVIOUS
<1>2. UNCHANGED <<events, inserted, delivered, accepted, nextID, txnCounter>>
  BY DEF StartWorker, consuming, services, table
<1>3. worker' = [worker EXCEPT ![s] = [NewWorker EXCEPT !.pc = "wait", !.ready = (events[s] # {})]]
  BY DEF StartWorker, Again
<1> QED BY <1>1, <1>2, <1>3, AgainKnows, OneWorker

LEMMA WaitDelivery ==
  ASSUME Delivery, NEW s \in Services, WaitForNewEvents(s)
  PROVE  Delivery'
<1> DEFINE pc == IF worker[s].ready THEN "select" ELSE "waiting"
<1>1. pc \in {"waiting", "select"} /\ worker[s].pc \in {"wait", "waiting"}
  BY DEF WaitForNewEvents
<1>2. UNCHANGED <<events, inserted, delivered, accepted, nextID, txnCounter>>
  BY DEF WaitForNewEvents, consuming, services, table
<1>3. worker' = [worker EXCEPT ![s] = [worker[s] EXCEPT !.pc = pc]]
  BY DEF WaitForNewEvents
<1> HIDE DEF pc
<1> QED BY <1>1, <1>2, <1>3, WaitKnows, OneWorker

LEMMA NotifyDelivery ==
  ASSUME Delivery, Consuming, NotifyNewEvents
  PROVE  Delivery'
<1> DEFINE s == consumer.notify
           old == worker[s]
           w == [old EXCEPT !.pc = IF old.pc = "waiting" THEN "select" ELSE old.pc]
<1>1. s \in Services
  BY DEF Consuming, NotifyNewEvents
<1>2. UNCHANGED <<events, inserted, delivered, accepted, nextID, txnCounter>>
  BY DEF NotifyNewEvents, services, table
<1>3. worker' = [worker EXCEPT ![s] = w]
  BY DEF NotifyNewEvents
<1> HIDE DEF s
<1>4. Knows(w, events[s], inserted[s], delivered[s], accepted[s], nextID, txnCounter)
  <2>1. CASE old.pc = "waiting"
    <3>1. w = [worker[s] EXCEPT !.pc = "select"]
      BY <2>1
    <3> HIDE DEF w
    <3> QED BY <1>1, <2>1, <3>1, WaitKnows
  <2>2. CASE old.pc # "waiting"
    <3>1. old \in Workers
      BY <1>1, GoodNow
    <3>2. w = old
      <4> HIDE DEF old
      <4> QED BY <2>2, <3>1 DEF Workers
    <3> HIDE DEF w
    <3> QED BY <1>1, <3>2, GoodNow
  <2> QED BY <2>1, <2>2
<1> HIDE DEF w
<1> QED BY <1>1, <1>2, <1>3, <1>4, OneWorker

LEMMA SelectDelivery ==
  ASSUME Delivery, NEW s \in Services, GetEventsWithAppServiceID(s)
  PROVE  Delivery'
<1>1. PICK rows \in Rows(s) : worker' = [worker EXCEPT ![s] = Reader(worker[s], RetrieveEvents(rows))]
  BY DEF GetEventsWithAppServiceID, Reader
<1>2. UNCHANGED <<events, inserted, delivered, accepted, nextID, txnCounter>>
  BY DEF GetEventsWithAppServiceID, consuming, services, table
<1>3. Listing(rows, events[s])
  BY DEF Rows, Listing
<1> DEFINE w == Reader(worker[s], RetrieveEvents(rows))
<1>4. Len(rows) \in Nat
  BY <1>3, GoodNow, ListingIs
<1>5. Knows(w, events[s], inserted[s], delivered[s], accepted[s], nextID, txnCounter)
  <2>1. CASE Len(rows) = 0
    BY <1>3, <2>1, GoodNow, ReadNothing
  <2>2. CASE Len(rows) > 0
    BY <1>3, <2>2, GoodNow, ReadSome
  <2> QED BY SMTT(30), <1>4, <2>1, <2>2
<1> HIDE DEF w
<1>6. worker' = [worker EXCEPT ![s] = w]
  BY <1>1 DEF w
<1> QED BY <1>2, <1>5, <1>6, OneWorker

LEMMA NumberDelivery ==
  ASSUME Delivery, NEW s \in Services, GetLatestTxnID(s)
  PROVE  Delivery'
<1> DEFINE w == [worker[s] EXCEPT !.txn = txnCounter + 1, !.pc = "mark"]
<1>1. worker' = [worker EXCEPT ![s] = w] /\ worker[s].pc = "number" /\ txnCounter' = txnCounter + 1
  <2>1. worker' = [worker EXCEPT ![s].txn = txnCounter + 1, ![s].pc = "mark"]
    BY DEF GetLatestTxnID
  <2>2. s \in DOMAIN worker
    BY Functional
  <2>3. worker' = [worker EXCEPT ![s] = w]
    BY <2>1, <2>2
  <2> QED BY <2>3 DEF GetLatestTxnID
<1>2. UNCHANGED <<events, inserted, delivered, accepted, nextID>>
  BY DEF GetLatestTxnID, consuming, services, table
<1>3. Queued(events[s], inserted[s], delivered[s], accepted[s], nextID, txnCounter + 1)
  <2>1. txnCounter + 1 \in Nat /\ txnCounter <= txnCounter + 1 /\ nextID \in Nat
    BY SMTT(30), GoodNow
  <2> QED BY <2>1, GoodNow, QueuedGrows
<1>4. Knows(w, events[s], inserted[s], delivered[s], accepted[s], nextID, txnCounter + 1)
  BY <1>1, GoodNow, NumberKeepsKnows
<1> HIDE DEF w
<1>5. worker'[s] = w /\ worker' = [worker EXCEPT ![s] = worker'[s]]
  BY <1>1, Functional, SetOne
<1>6. OnlyService(s)
  BY <1>2, <1>5, Functional, SetNone DEF OnlyService
<1>7. Good(s)'
  BY <1>1, <1>2, <1>3, <1>4, <1>5 DEF Good
<1>8. txnCounter <= txnCounter' /\ nextID <= nextID'
  BY SMTT(30), <1>1, <1>2, GoodNow
<1> QED BY <1>6, <1>7, <1>8, OneService

LEMMA MarkDelivery ==
  ASSUME Delivery, NEW s \in Services, UpdateTxnIDForEvents(s)
  PROVE  Delivery'
<1> DEFINE w == [worker[s] EXCEPT !.pc = "send"]
           E == {Mark(r, worker[s].maxID, worker[s].txn) : r \in events[s]}
<1>1. worker' = [worker EXCEPT ![s] = w] /\ worker[s].pc = "mark"
  BY DEF UpdateTxnIDForEvents
<1>2. events' = [events EXCEPT ![s] = E]
  BY DEF UpdateTxnIDForEvents, Mark
<1>3. UNCHANGED <<inserted, delivered, accepted, nextID, txnCounter>>
  BY DEF UpdateTxnIDForEvents, consuming, services
<1>4. Queued(E, inserted[s], delivered[s], accepted[s], nextID, txnCounter)
  BY <1>1, GoodNow, MarkKeepsQueued
<1>5. Knows(w, E, inserted[s], delivered[s], accepted[s], nextID, txnCounter)
  BY <1>1, GoodNow, MarkKeepsKnows
<1> HIDE DEF w, E
<1>6. /\ worker'[s] = w /\ worker' = [worker EXCEPT ![s] = worker'[s]]
      /\ events'[s] = E /\ events' = [events EXCEPT ![s] = events'[s]]
  BY <1>1, <1>2, Functional, SetOne
<1>7. OnlyService(s)
  BY <1>3, <1>6, Functional, SetNone DEF OnlyService
<1>8. Good(s)'
  BY <1>3, <1>4, <1>5, <1>6 DEF Good
<1> QED BY <1>3, <1>7, <1>8, GoodNow, OneService

\* A transaction that reaches the service, whatever the worker makes of the answer.
LEMMA TakenDelivery ==
  ASSUME Delivery, NEW s \in Services, NEW w, worker[s].pc = "send", TakeTransaction(s),
         worker' = [worker EXCEPT ![s] = w],
         UNCHANGED <<events, inserted, nextID, txnCounter>>,
         Knows(w, events[s], inserted[s], Extended(worker[s], delivered[s], accepted[s]),
               Taken(worker[s], accepted[s]), nextID, txnCounter)
  PROVE  Delivery'
<1> DEFINE D == Extended(worker[s], delivered[s], accepted[s])
           A == Taken(worker[s], accepted[s])
<1>1. delivered' = [delivered EXCEPT ![s] = D]
  BY Functional, SetNone DEF TakeTransaction, Extended
<1>2. accepted' = [accepted EXCEPT ![s] = A]
  BY Functional, SetNone DEF TakeTransaction, Taken
<1>3. Queued(events[s], inserted[s], D, A, nextID, txnCounter)
  BY GoodNow, TakeKeepsQueued
<1> HIDE DEF D, A
<1>4. Knows(w, events[s], inserted[s], D, A, nextID, txnCounter)
  BY DEF D, A
<1>5. /\ worker'[s] = w /\ worker' = [worker EXCEPT ![s] = worker'[s]]
      /\ delivered'[s] = D /\ delivered' = [delivered EXCEPT ![s] = delivered'[s]]
      /\ accepted'[s] = A /\ accepted' = [accepted EXCEPT ![s] = accepted'[s]]
  BY <1>1, <1>2, Functional, SetOne
<1>6. OnlyService(s)
  BY <1>5, Functional, SetNone DEF OnlyService
<1>7. Good(s)'
  BY <1>3, <1>4, <1>5 DEF Good
<1> QED BY <1>6, <1>7, GoodNow, OneService

LEMMA SendOKDelivery ==
  ASSUME Delivery, NEW s \in Services, SendOK(s)
  PROVE  Delivery'
<1> DEFINE ready == worker[s].ready /\ worker[s].remaining
           w == [worker[s] EXCEPT !.pc = "remove", !.ready = ready]
<1>1. worker[s].pc = "send" /\ TakeTransaction(s) /\ ready \in BOOLEAN
  BY DEF SendOK
<1>2. worker' = [worker EXCEPT ![s] = w]
  <2>1. worker' = [worker EXCEPT ![s].pc = "remove", ![s].ready = @ /\ worker[s].remaining]
    BY DEF SendOK
  <2>2. s \in DOMAIN worker
    BY Functional
  <2> QED BY <2>1, <2>2
<1>3. UNCHANGED <<events, inserted, nextID, txnCounter>>
  BY DEF SendOK, consuming, table
<1> HIDE DEF ready
<1>4. Knows(w, events[s], inserted[s], Extended(worker[s], delivered[s], accepted[s]),
            Taken(worker[s], accepted[s]), nextID, txnCounter)
  BY <1>1, GoodNow, SentKnows
<1> HIDE DEF w
<1> QED BY <1>1, <1>2, <1>3, <1>4, TakenDelivery

LEMMA SendFailsDelivery ==
  ASSUME Delivery, NEW s \in Services, SendFails(s)
  PROVE  Delivery'
<1> DEFINE w == [NewWorker EXCEPT !.pc = "wait", !.ready = worker[s].ready]
<1>1. worker[s].pc = "send" /\ worker' = [worker EXCEPT ![s] = w]
  BY DEF SendFails, Again
<1>2. UNCHANGED <<events, inserted, nextID, txnCounter>>
  BY DEF SendFails, consuming, table
<1>3. worker[s].ready \in BOOLEAN
  BY GoodNow DEF Workers
<1>4. Knows(w, events[s], inserted[s], delivered[s], accepted[s], nextID, txnCounter)
  BY <1>3, AgainKnows
<1>5. w.pc = "wait"
  BY DEF NewWorker
<1> HIDE DEF w
<1>6. CASE TakeTransaction(s)
  <2>1. Knows(w, events[s], inserted[s], Extended(worker[s], delivered[s], accepted[s]),
              Taken(worker[s], accepted[s]), nextID, txnCounter)
    BY <1>4, <1>5 DEF Knows
  <2> QED BY <1>1, <1>2, <1>6, <2>1, TakenDelivery
<1>7. CASE UNCHANGED services
  <2>1. UNCHANGED <<events, inserted, delivered, accepted, nextID, txnCounter>>
    BY <1>2, <1>7 DEF services
  <2> QED BY <1>1, <1>4, <2>1, OneWorker
<1> QED BY <1>6, <1>7 DEF SendFails

LEMMA RemoveDelivery ==
  ASSUME Delivery, NEW s \in Services, RemoveEventsBeforeAndIncludingID(s)
  PROVE  Delivery'
<1> DEFINE w == [NewWorker EXCEPT !.pc = "wait", !.ready = worker[s].ready]
           E == {r \in events[s] : r.id > worker[s].maxID}
<1>1. /\ worker[s].pc = "remove" /\ worker' = [worker EXCEPT ![s] = w]
      /\ events' = [events EXCEPT ![s] = E]
  BY DEF RemoveEventsBeforeAndIncludingID, Again
<1>2. UNCHANGED <<inserted, delivered, accepted, nextID, txnCounter>>
  BY DEF RemoveEventsBeforeAndIncludingID, consuming, services
<1>3. worker[s].ready \in BOOLEAN
  BY GoodNow DEF Workers
<1>4. Knows(w, events[s], inserted[s], delivered[s], accepted[s], nextID, txnCounter)
  BY <1>3, AgainKnows
<1>5. w.pc = "wait"
  BY DEF NewWorker
<1>6. Queued(E, inserted[s], delivered[s], accepted[s], nextID, txnCounter)
  BY <1>1, GoodNow, RemoveKeepsQueued
<1> HIDE DEF w, E
<1>7. Knows(w, E, inserted[s], delivered[s], accepted[s], nextID, txnCounter)
  BY <1>4, <1>5 DEF Knows
<1>8. /\ worker'[s] = w /\ worker' = [worker EXCEPT ![s] = worker'[s]]
      /\ events'[s] = E /\ events' = [events EXCEPT ![s] = events'[s]]
  BY <1>1, Functional, SetOne
<1>9. OnlyService(s)
  BY <1>2, <1>8, Functional, SetNone DEF OnlyService
<1>10. Good(s)'
  BY <1>2, <1>6, <1>7, <1>8 DEF Good
<1> QED BY <1>2, <1>9, <1>10, GoodNow, OneService

\* Where the loops of the consumer are, there are a service and an event.
LEMMA AtLoop ==
  ASSUME Consuming, InLoop
  PROVE  /\ Service \in Services /\ Message \in Seq(Events) /\ Current \in Events
         /\ consumer.ev \in 1..Len(Message) /\ Len(Message) \in Nat
         /\ consumer.as \in 1..Len(WorkerStates) /\ WorkerStates[consumer.as] = Service
<1>1. Len(log) \in Nat /\ offset \in Nat /\ offset + 1 \in 1..Len(log)
  BY SMTT(30) DEF Consuming, InLoop
<1>2. Message \in Seq(Events)
  BY SMTT(30), <1>1 DEF Consuming, Message
<1>3. consumer.ev \in 1..Len(Message) /\ consumer.as \in 1..(Len(WorkerStates) + 1)
  BY DEF Consuming, InLoop
<1>4. Current \in Events /\ Len(Message) \in Nat
  <2> HIDE DEF Message
  <2> QED BY SMTT(30), <1>2, <1>3 DEF Current
<1>5. consumer.as \in 1..Len(WorkerStates)
  BY SMTT(30), <1>3, ServiceList DEF InLoop
<1> QED BY <1>2, <1>3, <1>4, <1>5, ServiceList DEF Service

LEMMA InsertDelivery ==
  ASSUME Delivery, NEW s \in Services, NEW ev \in Events, InsertEvent(s, ev),
         UNCHANGED <<delivered, accepted, worker, txnCounter>>
  PROVE  Delivery'
<1> DEFINE E == events[s] \cup {[id |-> nextID, ev |-> ev, txn |-> -1]}
           I == Append(inserted[s], [id |-> nextID, ev |-> ev])
<1>1. /\ events' = [events EXCEPT ![s] = E] /\ inserted' = [inserted EXCEPT ![s] = I]
      /\ nextID' = nextID + 1
  BY DEF InsertEvent
<1>2. Queued(E, I, delivered[s], accepted[s], nextID + 1, txnCounter)
  BY GoodNow, InsertKeepsQueued
<1>3. Knows(worker[s], E, I, delivered[s], accepted[s], nextID + 1, txnCounter)
  BY GoodNow, InsertKeepsKnows
<1> HIDE DEF E, I
<1>4. /\ events'[s] = E /\ events' = [events EXCEPT ![s] = events'[s]]
      /\ inserted'[s] = I /\ inserted' = [inserted EXCEPT ![s] = inserted'[s]]
  BY <1>1, Functional, SetOne
<1>5. OnlyService(s)
  BY <1>4, Functional, SetNone DEF OnlyService
<1>6. Good(s)'
  BY <1>1, <1>2, <1>3, <1>4 DEF Good
<1>7. nextID <= nextID' /\ txnCounter <= txnCounter'
  BY SMTT(30), <1>1, GoodNow
<1> QED BY <1>5, <1>6, <1>7, OneService

\* What a worker knows when it is new holds of any queue.
LEMMA NewKnows ==
  ASSUME NEW E, NEW I, NEW D, NEW A, NEW next \in Nat \ {0}, NEW counter \in Nat
  PROVE  NewWorker \in Workers /\ Knows(NewWorker, E, I, D, A, next, counter)
<1> DEFINE w == NewWorker
<1>1. <<>> \in Seq(Events) /\ Len(<<>>) = 0 /\ 0 \in Nat /\ 0 \in Int
  BY SMTT(30)
<1>2. w \in Workers /\ w.pc = "start" /\ w.txn = 0 /\ w.maxID = 0 /\ w.batch = <<>>
  BY <1>1 DEF Workers, NewWorker
<1> HIDE DEF w
<1>3. w.txn <= counter /\ w.maxID < next /\ Len(w.batch) <= BatchSize
  BY SMTT(30), <1>1, <1>2, AppServicesAssumption
<1>4. w.pc \in {"start", "wait", "waiting", "select"}
  BY <1>2
<1>5. Knows(w, E, I, D, A, next, counter)
  BY SMTT(30), <1>2, <1>3, <1>4, IdleKnows
<1> QED BY <1>2, <1>5 DEF w

LEMMA RestartDelivery ==
  ASSUME Delivery, Lost
  PROVE  Delivery'
<1>1. UNCHANGED <<events, inserted, delivered, accepted, nextID, txnCounter>>
  BY DEF Lost, services, table
<1>2. worker' = [s \in Services |-> NewWorker]
  BY DEF Lost
<1>3. ASSUME NEW s \in Services
      PROVE  /\ NewWorker \in Workers
             /\ Queued(events[s], inserted[s], delivered[s], accepted[s], nextID, txnCounter)
             /\ Knows(NewWorker, events[s], inserted[s], delivered[s], accepted[s], nextID, txnCounter)
  BY GoodNow, NewKnows
<1>4. worker' \in [Services -> Workers] /\ \A s \in Services : worker'[s] = NewWorker
  BY <1>2, <1>3
<1> QED BY <1>1, <1>3, <1>4 DEF Delivery

LEMMA InitDelivery ==
  ASSUME Init
  PROVE  Delivery
<1>1. Queued({}, <<>>, <<>>, {}, 1, 0)
  <2>1. IsFiniteSet({}) /\ Cardinality({}) = 0
    BY FS_EmptySet
  <2>2. Marked({}) = {}
    BY DEF Marked
  <2>3. Cardinality(Marked({})) = 0
    BY <2>1, <2>2
  <2>4. 0 <= BatchSize
    BY SMTT(30), AppServicesAssumption
  <2> QED BY SMTT(30), <2>1, <2>3, <2>4 DEF Queued
<1>2. NewWorker \in Workers /\ Knows(NewWorker, {}, <<>>, <<>>, {}, 1, 0)
  <2>1. 1 \in Nat \ {0} /\ 0 \in Nat
    BY SMTT(30)
  <2> QED BY <2>1, NewKnows
<1>3. /\ \A s \in Services : events[s] = {} /\ inserted[s] = <<>> /\ delivered[s] = <<>>
                             /\ accepted[s] = {} /\ worker[s] = NewWorker
      /\ nextID = 1 /\ txnCounter = 0
  BY DEF Init
<1>4. <<>> \in Seq(Events) /\ <<>> \in Seq(Entry)
  BY SMTT(30)
<1>5. /\ events \in [Services -> SUBSET Row] /\ inserted \in [Services -> Seq(Entry)]
      /\ delivered \in [Services -> Seq(Events)] /\ accepted \in [Services -> SUBSET Nat]
      /\ worker \in [Services -> Workers]
  BY <1>2, <1>4 DEF Init
<1> QED BY <1>1, <1>2, <1>3, <1>5 DEF Delivery

-----------------------------------------------------------------------------
(* The consumer                                                              *)

Consumed == Consuming /\ PassedIsInserted /\ ConsumedIsInserted

\* The log is a sequence of messages that have events.
LEMMA LogIs ==
  ASSUME Consuming
  PROVE  /\ Len(log) \in Nat /\ offset \in Nat /\ offset <= Len(log)
         /\ \A i \in 1..Len(log) : /\ log[i] \in Seq(Events) /\ Len(log[i]) \in Nat \ {0}
                                   /\ log[i][1] \in Events
<1>1. Len(log) \in Nat /\ offset \in Nat /\ offset <= Len(log)
  BY SMTT(30) DEF Consuming
<1>2. \A i \in 1..Len(log) : log[i] \in Seq(Events) /\ log[i] # <<>>
  BY SMTT(30) DEF Consuming
<1>3. \A m \in Seq(Events) : m # <<>> => Len(m) \in Nat \ {0} /\ m[1] \in Events
  BY SMTT(30)
<1> QED BY <1>1, <1>2, <1>3

\* What was consumed stays as it was while the offset does.
LEMMA KeepsConsumed ==
  ASSUME ConsumedIsInserted, offset' = offset, failed \subseteq failed',
         \A i \in 1..offset : log'[i] = log[i],
         \A t \in Services : \A e : WasInserted(t, e) => WasInserted(t, e)'
  PROVE  ConsumedIsInserted'
<1>1. SUFFICES ASSUME NEW i \in (1..offset) \ failed, NEW s \in Services,
                      NEW j \in 1..Len(log[i]), log[i][j].about = s
               PROVE  WasInserted(s, log[i][j])'
  BY SMTT(30) DEF ConsumedIsInserted, WasInserted
<1>2. WasInserted(s, log[i][j])
  BY <1>1 DEF ConsumedIsInserted, WasInserted
<1> QED BY <1>2

LEMMA SameInserted ==
  ASSUME inserted' = inserted
  PROVE  \A t \in Services : \A e : WasInserted(t, e) => WasInserted(t, e)'
BY DEF WasInserted

\* So does what was passed.
LEMMA KeepsPassed ==
  ASSUME PassedIsInserted, offset' = offset, offset < Len(log), Message' = Message,
         failed' = failed, consumer'.as = consumer.as, consumer'.ev = consumer.ev,
         inserted' = inserted
  PROVE  PassedIsInserted'
<1>1. SUFFICES ASSUME offset + 1 \notin failed, NEW a \in 1..Len(WorkerStates),
                      NEW j \in 1..Len(Message), Passed(a, j)',
                      Message[j].about = WorkerStates[a]
               PROVE  WasInserted(WorkerStates[a], Message[j])'
  <2> HIDE DEF Message
  <2> QED BY DEF PassedIsInserted
<1>2. Passed(a, j)
  BY <1>1 DEF Passed
<1>3. WasInserted(WorkerStates[a], Message[j])
  BY <1>1, <1>2 DEF PassedIsInserted
<1> QED BY <1>3 DEF WasInserted

\* Nothing is passed of a message that was not begun.
LEMMA NothingPassed ==
  ASSUME consumer'.as = 1, consumer'.ev = 1
  PROVE  PassedIsInserted'
<1>1. \A a \in 1..Len(WorkerStates), j \in 1..Len(Message') : ~Passed(a, j)'
  BY SMTT(30) DEF Passed
<1> QED BY <1>1 DEF PassedIsInserted

\* Steps of the client API and of the workers.
LEMMA SameConsumed ==
  ASSUME Consumed, made' \in 0..MaxEvents,
         UNCHANGED <<log, offset, consumer, inserted, failed, joined>>
  PROVE  Consumed'
<1>1. Consuming'
  BY DEF Consumed, Consuming, Message
<1>2. PassedIsInserted'
  <2>1. CASE offset < Len(log)
    BY <2>1, KeepsPassed DEF Consumed, Message
  <2>2. CASE ~(offset < Len(log))
    BY <2>2 DEF PassedIsInserted
  <2> QED BY <2>1, <2>2
<1>3. ConsumedIsInserted'
  BY KeepsConsumed, SameInserted DEF Consumed
<1> QED BY <1>1, <1>2, <1>3 DEF Consumed

\* A message that is added to the log is not consumed, also if the consumer waited for it.
LEMMA LogGrows ==
  ASSUME Consumed, NEW msg \in Seq(Events) \ {<<>>}, log' = Append(log, msg),
         made' \in 0..MaxEvents, joined' \in SUBSET Services,
         UNCHANGED <<offset, consumer, inserted, failed>>
  PROVE  Consumed'
<1>1. /\ log' \in Seq(Seq(Events) \ {<<>>}) /\ Len(log') = Len(log) + 1
      /\ \A i \in 1..Len(log) : log'[i] = log[i]
      /\ log'[Len(log) + 1] = msg
  BY SMTT(30) DEF Consumed, Consuming
<1>2. Len(log) \in Nat /\ offset \in Nat /\ offset <= Len(log)
  BY LogIs DEF Consumed
<1>3. ConsumedIsInserted'
  <2>1. \A i \in 1..offset : log'[i] = log[i]
    BY SMTT(30), <1>1, <1>2
  <2> QED BY <2>1, KeepsConsumed, SameInserted DEF Consumed
<1>4. CASE offset = Len(log)
  <2>1. consumer = NewConsumer /\ Message' = msg
    BY <1>1, <1>4 DEF Consumed, Consuming, Message
  <2>2. consumer.ev = 1 /\ consumer.as = 1
    BY <2>1 DEF NewConsumer
  <2>3. consumer.ev \in 1..Len(msg)
    BY SMTT(30), <2>2
  <2>4. Consuming'
    <3>1. offset' \in 0..Len(log') /\ failed' \in SUBSET (1..Len(log')) /\ offset' # Len(log')
      BY SMTT(30), <1>1, <1>2 DEF Consumed, Consuming
    <3> QED BY <1>1, <2>1, <2>3, <3>1 DEF Consumed, Consuming
  <2>5. PassedIsInserted'
    BY <2>2, NothingPassed
  <2> QED BY <1>3, <2>4, <2>5 DEF Consumed
<1>5. CASE offset < Len(log)
  <2>1. Message' = Message
    BY SMTT(30), <1>1, <1>2, <1>5 DEF Message
  <2>2. Consuming'
    <3>1. offset' \in 0..Len(log') /\ failed' \in SUBSET (1..Len(log')) /\ offset' # Len(log')
      BY SMTT(30), <1>1, <1>2 DEF Consumed, Consuming
    <3> QED BY <1>1, <1>5, <2>1, <3>1 DEF Consumed, Consuming
  <2>3. PassedIsInserted'
    BY <1>5, <2>1, KeepsPassed DEF Consumed
  <2> QED BY <1>3, <2>2, <2>3 DEF Consumed
<1> QED BY SMTT(30), <1>2, <1>4, <1>5

\* What was inserted stays inserted.
LEMMA InsertedGrows ==
  ASSUME Delivery, NEW s \in Services, NEW ev \in Events, InsertEvent(s, ev)
  PROVE  /\ WasInserted(s, ev)'
         /\ \A t \in Services : \A e : WasInserted(t, e) => WasInserted(t, e)'
<1> DEFINE entry == [id |-> nextID, ev |-> ev]
           old == inserted[s]
           new == Append(old, entry)
<1>1. entry \in Entry /\ entry.ev = ev
  BY GoodNow DEF Entry
<1> HIDE DEF entry
<1>2. old \in Seq(Entry)
  BY DEF Delivery
<1>3. inserted' = [inserted EXCEPT ![s] = new]
  BY DEF InsertEvent, entry
<1>4. inserted'[s] = new /\ \A t \in Services \ {s} : inserted'[t] = inserted[t]
  BY <1>3 DEF Delivery
<1> HIDE DEF old
<1>5. /\ Len(new) = Len(old) + 1 /\ Len(old) \in Nat /\ new[Len(old) + 1] = entry
      /\ \A k \in 1..Len(old) : new[k] = old[k]
  BY SMTT(30), <1>1, <1>2
<1>6. WasInserted(s, ev)'
  BY SMTT(30), <1>1, <1>4, <1>5 DEF WasInserted
<1>7. ASSUME NEW t \in Services, NEW e, WasInserted(t, e) PROVE WasInserted(t, e)'
  <2>1. CASE t = s
    <3>1. PICK k \in 1..Len(old) : old[k].ev = e
      BY <1>7, <2>1 DEF WasInserted, old
    <3>2. k \in 1..Len(new) /\ new[k].ev = e
      BY SMTT(30), <1>5, <3>1
    <3> HIDE DEF new
    <3> QED BY <1>4, <2>1, <3>2 DEF WasInserted
  <2>2. CASE t # s
    BY <1>4, <1>7, <2>2 DEF WasInserted
  <2> QED BY <2>1, <2>2
<1> QED BY <1>6, <1>7

\* The loops go on after the current event, which was inserted or is not about the service.
LEMMA Advances ==
  ASSUME Consumed, InLoop, NEW note \in Services \cup {None},
         consumer' = [Advanced EXCEPT !.notify = note],
         UNCHANGED <<log, offset, failed, made, joined>>,
         \A t \in Services : \A e : WasInserted(t, e) => WasInserted(t, e)',
         NEW s, NEW ev, s = Service, ev = Current, ev.about = s => WasInserted(s, ev)'
  PROVE  Consumed'
<1> DEFINE a0 == consumer.as
           j0 == consumer.ev
           n == Len(Message)
<1>1. /\ a0 \in 1..Len(WorkerStates) /\ j0 \in 1..n /\ n \in Nat
      /\ WorkerStates[a0] = s /\ Message[j0] = ev
      /\ Len(WorkerStates) \in Nat
  BY AtLoop, ServiceList DEF Consumed, Current
<1>2. /\ consumer'.notify = note
      /\ consumer' \in [as : 1..(Len(WorkerStates) + 1), ev : Nat \ {0},
                        notify : Services \cup {None}]
      /\ j0 < n => consumer'.as = a0 /\ consumer'.ev = j0 + 1
      /\ ~(j0 < n) => consumer'.as = a0 + 1 /\ consumer'.ev = 1
  <2>1. consumer \in [as : 1..(Len(WorkerStates) + 1), ev : Nat \ {0},
                      notify : Services \cup {None}]
    BY DEF Consumed, Consuming
  <2>2. CASE j0 < n
    <3>1. consumer' = [consumer EXCEPT !.ev = j0 + 1, !.notify = note]
      BY <2>1, <2>2 DEF Advanced
    <3>2. j0 + 1 \in Nat \ {0}
      BY SMTT(30), <1>1
    <3>3. /\ consumer'.as = a0 /\ consumer'.ev = j0 + 1 /\ consumer'.notify = note
          /\ consumer' \in [as : 1..(Len(WorkerStates) + 1), ev : Nat \ {0},
                            notify : Services \cup {None}]
      BY <2>1, <3>1, <3>2
    <3> QED BY <2>2, <3>3
  <2>3. CASE ~(j0 < n)
    <3>1. consumer' = [consumer EXCEPT !.as = a0 + 1, !.ev = 1, !.notify = note]
      BY <2>1, <2>3 DEF Advanced
    <3>2. a0 + 1 \in 1..(Len(WorkerStates) + 1) /\ 1 \in Nat \ {0}
      BY SMTT(30), <1>1
    <3>3. /\ consumer'.as = a0 + 1 /\ consumer'.ev = 1 /\ consumer'.notify = note
          /\ consumer' \in [as : 1..(Len(WorkerStates) + 1), ev : Nat \ {0},
                            notify : Services \cup {None}]
      BY <2>1, <3>1, <3>2
    <3> QED BY <2>3, <3>3
  <2> QED BY <2>2, <2>3
<1>3. offset < Len(log) /\ offset # Len(log) /\ Message' = Message
  BY SMTT(30), LogIs DEF Consumed, InLoop, Message
<1>4. Consuming'
  <2>1. consumer'.ev \in 1..n
    BY SMTT(30), <1>1, <1>2
  <2> QED BY <1>2, <1>3, <2>1 DEF Consumed, Consuming
<1>5. PassedIsInserted'
  <2>1. SUFFICES ASSUME offset + 1 \notin failed, NEW a \in 1..Len(WorkerStates),
                        NEW j \in 1..n, Passed(a, j)', NEW e, e = Message[j],
                        e.about = WorkerStates[a]
                 PROVE  WasInserted(WorkerStates[a], e)'
    BY <1>3 DEF PassedIsInserted
  <2>2. Passed(a, j) \/ (a = a0 /\ j = j0)
    BY SMTT(30), <1>1, <1>2, <2>1 DEF Passed
  <2>3. CASE Passed(a, j)
    <3>1. WasInserted(WorkerStates[a], e)
      BY <1>3, <2>1, <2>3 DEF Consumed, PassedIsInserted
    <3> QED BY <3>1, ServiceList
  <2>4. CASE a = a0 /\ j = j0
    BY <1>1, <2>1, <2>4
  <2> QED BY <2>2, <2>3, <2>4
<1>6. ConsumedIsInserted'
  BY KeepsConsumed DEF Consumed
<1> QED BY <1>4, <1>5, <1>6 DEF Consumed

\* A handler that returns with an error leaves the message in failed.
LEMMA Returns ==
  ASSUME Consumed, InLoop, failed' = failed \cup {offset + 1}, consumer' = Returned,
         UNCHANGED <<log, offset, made, joined, inserted>>
  PROVE  Consumed'
<1>1. offset < Len(log) /\ offset # Len(log) /\ Message' = Message /\ offset + 1 \in 1..Len(log)
  BY SMTT(30), LogIs DEF Consumed, InLoop, Message
<1>2. Len(WorkerStates) + 1 \in 1..(Len(WorkerStates) + 1) /\ 1 \in Nat \ {0}
  BY SMTT(30), ServiceList
<1>3. /\ consumer'.ev = 1
      /\ consumer' \in [as : 1..(Len(WorkerStates) + 1), ev : Nat \ {0},
                        notify : Services \cup {None}]
  BY <1>2 DEF Consumed, Consuming, Returned
<1>4. Consuming'
  <2>1. consumer'.ev \in 1..Len(Message)
    BY SMTT(30), <1>3, AtLoop DEF Consumed
  <2>2. failed' \in SUBSET (1..Len(log))
    BY <1>1 DEF Consumed, Consuming
  <2> QED BY <1>1, <1>3, <2>1, <2>2 DEF Consumed, Consuming
<1>5. PassedIsInserted'
  BY DEF PassedIsInserted
<1>6. ConsumedIsInserted'
  BY KeepsConsumed, SameInserted DEF Consumed
<1> QED BY <1>4, <1>5, <1>6 DEF Consumed

\* The offset passes a message once the loops have passed all of it.
LEMMA OffsetConsumed ==
  ASSUME Consumed, SetPartitionOffset
  PROVE  Consumed'
<1>1. /\ offset < Len(log) /\ ~(consumer.as <= Len(WorkerStates)) /\ offset' = offset + 1
      /\ consumer' = NewConsumer /\ UNCHANGED <<log, made, joined, inserted, failed>>
  BY DEF SetPartitionOffset, InLoop, room
<1>2. /\ Len(log) \in Nat /\ offset \in Nat
      /\ \A i \in 1..Len(log) : Len(log[i]) \in Nat \ {0}
  BY LogIs DEF Consumed
<1>3. /\ consumer'.as = 1 /\ consumer'.ev = 1
      /\ consumer' \in [as : 1..(Len(WorkerStates) + 1), ev : Nat \ {0},
                        notify : Services \cup {None}]
  <2>1. 1 \in 1..(Len(WorkerStates) + 1) /\ 1 \in Nat \ {0}
    BY SMTT(30), ServiceList
  <2> QED BY <1>1, <2>1 DEF NewConsumer
<1>4. Consuming'
  <2>1. offset' \in 0..Len(log) /\ (offset' < Len(log) => 1 \in 1..Len(log[offset' + 1]))
    BY SMTT(30), <1>1, <1>2
  <2> QED BY <1>1, <1>3, <2>1 DEF Consumed, Consuming, Message
<1>5. PassedIsInserted'
  BY <1>3, NothingPassed
<1>6. ConsumedIsInserted'
  <2>1. SUFFICES ASSUME NEW i \in (1..(offset + 1)) \ failed, NEW s \in Services,
                        NEW j \in 1..Len(log[i]), log[i][j].about = s
                 PROVE  \E k \in 1..Len(inserted[s]) : inserted[s][k].ev = log[i][j]
    BY SMTT(30), <1>1 DEF ConsumedIsInserted
  <2>2. CASE i = offset + 1
    <3>1. PICK a \in 1..Len(WorkerStates) : WorkerStates[a] = s
      BY ServiceList
    <3>2. a < consumer.as
      BY SMTT(30), <1>1, ServiceList DEF Consumed, Consuming
    <3>3. Passed(a, j) /\ Message = log[i]
      BY <2>2, <3>2 DEF Passed, Message
    <3>4. WasInserted(s, log[i][j])
      BY <1>1, <2>1, <2>2, <3>1, <3>3 DEF Consumed, PassedIsInserted
    <3> QED BY <3>4 DEF WasInserted
  <2>3. CASE i # offset + 1
    <3>1. i \in 1..offset
      BY SMTT(30), <1>2, <2>3
    <3> QED BY <2>1, <3>1 DEF Consumed, ConsumedIsInserted
  <2> QED BY <2>2, <2>3
<1> QED BY <1>4, <1>5, <1>6 DEF Consumed

LEMMA NotifyConsumed ==
  ASSUME Consumed, NotifyNewEvents
  PROVE  Consumed'
<1>1. /\ consumer' = [consumer EXCEPT !.notify = None] /\ consumer.notify # None
      /\ UNCHANGED <<log, offset, made, joined, inserted, failed>>
  BY DEF NotifyNewEvents, room
<1>2. /\ consumer'.as = consumer.as /\ consumer'.ev = consumer.ev
      /\ consumer' \in [as : 1..(Len(WorkerStates) + 1), ev : Nat \ {0},
                        notify : Services \cup {None}]
  BY <1>1 DEF Consumed, Consuming
<1>3. offset < Len(log)
  <2>1. offset # Len(log)
    BY SMTT(30), <1>1 DEF Consumed, Consuming, NewConsumer
  <2> QED BY SMTT(30), <2>1, LogIs DEF Consumed
<1>4. offset # Len(log)
  BY SMTT(30), <1>3, LogIs DEF Consumed
<1>5. Consuming'
  BY <1>1, <1>2, <1>3, <1>4 DEF Consumed, Consuming, Message
<1>6. PassedIsInserted'
  BY <1>1, <1>2, <1>3, KeepsPassed DEF Consumed, Message
<1>7. ConsumedIsInserted'
  BY <1>1, KeepsConsumed, SameInserted DEF Consumed
<1> QED BY <1>5, <1>6, <1>7 DEF Consumed

\* After a restart the message is handled again from its beginning.
LEMMA RestartConsumed ==
  ASSUME Consumed, Restart
  PROVE  Consumed'
<1>1. consumer' = NewConsumer /\ UNCHANGED <<log, offset, made, joined, inserted, failed>>
  BY DEF Restart, Lost, room
<1>2. /\ consumer'.as = 1 /\ consumer'.ev = 1
      /\ consumer' \in [as : 1..(Len(WorkerStates) + 1), ev : Nat \ {0},
                        notify : Services \cup {None}]
  <2>1. 1 \in 1..(Len(WorkerStates) + 1) /\ 1 \in Nat \ {0}
    BY SMTT(30), ServiceList
  <2> QED BY <1>1, <2>1 DEF NewConsumer
<1>3. offset < Len(log) => 1 \in 1..Len(Message)
  <2>1. offset < Len(log) => offset + 1 \in 1..Len(log)
    BY SMTT(30), LogIs DEF Consumed
  <2>2. offset < Len(log) => Len(Message) \in Nat \ {0}
    BY <2>1, LogIs DEF Consumed, Message
  <2> QED BY SMTT(30), <2>2
<1>4. Consuming'
  BY <1>1, <1>2, <1>3 DEF Consumed, Consuming, Message
<1>5. PassedIsInserted'
  BY <1>2, NothingPassed
<1>6. ConsumedIsInserted'
  BY <1>1, KeepsConsumed, SameInserted DEF Consumed
<1> QED BY <1>4, <1>5, <1>6 DEF Consumed

LEMMA FilterConsumed ==
  ASSUME Delivery, Consumed, FilterRoomserverEvents
  PROVE  Delivery' /\ Consumed'
<1>1. /\ InLoop /\ consumer.notify = None
      /\ UNCHANGED <<log, made, joined, offset, delivered, accepted, worker, txnCounter>>
  BY DEF FilterRoomserverEvents, room, sending, services
<1>2. Service \in Services /\ Current \in Events
  BY <1>1, AtLoop DEF Consumed
<1>3. consumer.notify = None => Advanced = [Advanced EXCEPT !.notify = None]
  BY DEF Consumed, Consuming, Advanced
<1>4. CASE /\ ~AppserviceIsInterestedInEvent(Service, Current)
           /\ consumer' = Advanced
           /\ UNCHANGED <<inserted, failed, table, faults>>
  <2>1. UNCHANGED <<inserted, failed, events, nextID>>
    BY <1>4 DEF table
  <2>2. Current.about # Service
    BY <1>4 DEF AppserviceIsInterestedInEvent
  <2>3. Delivery'
    BY <1>1, <2>1, SameDelivery
  <2>4. Consumed'
    BY <1>1, <1>3, <1>4, <2>1, <2>2, SameInserted, Advances
  <2> QED BY <2>3, <2>4
<1>5. CASE /\ InsertEvent(Service, Current)
           /\ consumer' = [Advanced EXCEPT !.notify = Service]
           /\ UNCHANGED <<failed, faults>>
  <2>1. PICK s \in Services, ev \in Events : s = Service /\ ev = Current
    BY <1>2
  <2>2. InsertEvent(s, ev) /\ consumer' = [Advanced EXCEPT !.notify = s] /\ UNCHANGED failed
    BY <1>5, <2>1
  <2>3. Delivery'
    BY <1>1, <2>2, InsertDelivery
  <2>4. Consumed'
    BY <1>1, <2>1, <2>2, InsertedGrows, Advances
  <2> QED BY <2>3, <2>4
<1>6. CASE /\ failed' = failed \cup {offset + 1}
           /\ consumer' = Returned
           /\ UNCHANGED <<inserted, table>>
  <2>1. UNCHANGED <<inserted, events, nextID>>
    BY <1>6 DEF table
  <2> QED BY <1>1, <1>6, <2>1, SameDelivery, Returns
<1> QED BY <1>4, <1>5, <1>6 DEF FilterRoomserverEvents

-----------------------------------------------------------------------------
(* The client API and the output log                                         *)

Known == LoggedIsKnown /\ OnePerTransaction

LEMMA SameKnown ==
  ASSUME Known, UNCHANGED log, txnTable' \in SUBSET Txns, txnTable \subseteq txnTable'
  PROVE  Known'
BY DEF Known, LoggedIsKnown, OnePerTransaction

\* A message whose transaction ID was not in the table, or that has none.
LEMMA LogKnown ==
  ASSUME Known, Consuming, NEW msg \in Seq(Events) \ {<<>>}, log' = Append(log, msg),
         txnTable' \in SUBSET Txns, txnTable \subseteq txnTable',
         msg[1].txn = None \/ msg[1].txn \in txnTable' \ txnTable
  PROVE  Known'
<1>1. /\ Len(log') = Len(log) + 1 /\ Len(log) \in Nat
      /\ \A i \in 1..Len(log) : log'[i] = log[i]
      /\ log'[Len(log) + 1] = msg
  BY SMTT(30) DEF Consuming
<1>2. LoggedIsKnown'
  <2>1. ASSUME NEW i \in 1..Len(log'), log'[i][1].txn # None
        PROVE  log'[i][1].txn \in txnTable'
    <3>1. CASE i = Len(log) + 1
      BY <1>1, <2>1, <3>1
    <3>2. CASE i # Len(log) + 1
      <4>1. i \in 1..Len(log)
        BY SMTT(30), <1>1, <3>2
      <4> QED BY <1>1, <2>1, <4>1 DEF Known, LoggedIsKnown
    <3> QED BY <3>1, <3>2
  <2> QED BY <2>1 DEF LoggedIsKnown
<1>3. ASSUME NEW i \in 1..Len(log'), NEW j \in 1..Len(log'),
             log'[i][1].txn # None, log'[i][1].txn = log'[j][1].txn
      PROVE  ~(i < j)
  <2>1. SUFFICES ASSUME i < j PROVE FALSE
    OBVIOUS
  <2>2. i \in 1..Len(log)
    BY SMTT(30), <1>1, <2>1
  <2>3. log'[i] = log[i] /\ log[i][1].txn \in txnTable
    BY <1>1, <1>3, <2>2 DEF Known, LoggedIsKnown
  <2>4. CASE j = Len(log) + 1
    BY <1>1, <1>3, <2>3, <2>4
  <2>5. CASE j # Len(log) + 1
    <3>1. j \in 1..Len(log)
      BY SMTT(30), <1>1, <2>5
    <3>2. i = j
      BY <1>1, <1>3, <2>2, <3>1 DEF Known, OnePerTransaction
    <3> QED BY SMTT(30), <2>1, <3>1, <3>2
  <2> QED BY <2>4, <2>5
<1>4. OnePerTransaction'
  <2>1. SUFFICES ASSUME NEW i \in 1..Len(log'), NEW j \in 1..Len(log'),
                        log'[i][1].txn # None, log'[i][1].txn = log'[j][1].txn
                 PROVE  i = j
    BY DEF OnePerTransaction
  <2>2. ~(i < j) /\ ~(j < i)
    BY <1>3, <2>1
  <2> QED BY SMTT(30), <1>1, <2>2
<1> QED BY <1>2, <1>4 DEF Known

\* Events that the model makes.
LEMMA EventIs ==
  ASSUME NEW n \in 1..MaxEvents, NEW type \in {"join", "leave", "message"},
         NEW about \in Services \cup {None}, NEW txn \in Txns \cup {None}
  PROVE  Event(n, type, about, txn) \in Events /\ Event(n, type, about, txn).txn = txn
BY DEF Event, Events

\* A message with these events is one that the log may have.
LEMMA MessageIs ==
  ASSUME NEW e \in Events, NEW f \in Events
  PROVE  /\ <<e>> \in Seq(Events) \ {<<>>} /\ <<e>>[1] = e
         /\ <<e, f>> \in Seq(Events) \ {<<>>} /\ <<e, f>>[1] = e
BY SMTT(30)

LEMMA RoomEventKeeps ==
  ASSUME Consumed, Known, RoomEvent
  PROVE  Consumed' /\ Known'
<1>1. UNCHANGED <<txnTable, offset, consumer, inserted, failed>>
  BY DEF RoomEvent, consuming
<1>2. PICK s \in Services, type \in {"join", "leave"} :
        /\ joined' = IF type = "join" THEN joined \cup {s} ELSE joined \ {s}
        /\ \/ /\ made' = made + 1
              /\ log' = Append(log, <<Event(made + 1, type, s, None)>>)
           \/ /\ made + 2 <= MaxEvents
              /\ made' = made + 2
              /\ log' = Append(log, <<Event(made + 1, "message", None, None),
                                      Event(made + 2, type, s, None)>>)
  BY DEF RoomEvent, WriteOutputEvents
<1>3. joined' \in SUBSET Services
  BY <1>2 DEF Consumed, Consuming
<1>4. made \in 0..MaxEvents /\ made < MaxEvents /\ MaxEvents \in Nat
  BY AppServicesAssumption DEF Consumed, Consuming, RoomEvent
<1>5. txnTable' \in SUBSET Txns /\ txnTable \subseteq txnTable'
  BY <1>1 DEF Known, LoggedIsKnown
<1>6. \E msg \in Seq(Events) \ {<<>>} :
         log' = Append(log, msg) /\ msg[1].txn = None /\ made' \in 0..MaxEvents
  <2>1. CASE made' = made + 1 /\ log' = Append(log, <<Event(made + 1, type, s, None)>>)
    <3>1. made + 1 \in 1..MaxEvents /\ made' \in 0..MaxEvents
      BY SMTT(30), <1>4, <2>1
    <3>2. Event(made + 1, type, s, None) \in Events /\ Event(made + 1, type, s, None).txn = None
      BY SMTT(30), <3>1, EventIs
    <3> QED BY <2>1, <3>1, <3>2, MessageIs
  <2>2. CASE /\ made + 2 <= MaxEvents /\ made' = made + 2
             /\ log' = Append(log, <<Event(made + 1, "message", None, None),
                                     Event(made + 2, type, s, None)>>)
    <3>1. made + 1 \in 1..MaxEvents /\ made + 2 \in 1..MaxEvents /\ made' \in 0..MaxEvents
      BY SMTT(30), <1>4, <2>2
    <3>2. /\ Event(made + 1, "message", None, None) \in Events
          /\ Event(made + 1, "message", None, None).txn = None
          /\ Event(made + 2, type, s, None) \in Events
      BY SMTT(30), <3>1, EventIs
    <3> QED BY <2>2, <3>1, <3>2, MessageIs
  <2> QED BY <1>2, <2>1, <2>2
<1>7. PICK msg \in Seq(Events) \ {<<>>} :
         log' = Append(log, msg) /\ msg[1].txn = None /\ made' \in 0..MaxEvents
  BY <1>6
<1>8. Consumed'
  BY <1>1, <1>3, <1>7, LogGrows
<1>9. Known'
  BY <1>5, <1>7, LogKnown DEF Consumed
<1> QED BY <1>8, <1>9

LEMMA SendEventKeeps ==
  ASSUME Consumed, Known, NEW t \in Txns, SendEvent(t)
  PROVE  Consumed' /\ Known'
<1>1. UNCHANGED <<joined, offset, consumer, inserted, failed>>
  BY DEF SendEvent, consuming
<1>2. joined' \in SUBSET Services /\ made \in 0..MaxEvents /\ txnTable \in SUBSET Txns
  BY <1>1 DEF Consumed, Consuming, Known, LoggedIsKnown
<1>3. CASE UNCHANGED <<made, txnTable, log>>
  <2>1. txnTable' \in SUBSET Txns /\ txnTable \subseteq txnTable' /\ made' \in 0..MaxEvents
    BY <1>2, <1>3
  <2> QED BY <1>1, <1>3, <2>1, SameConsumed, SameKnown
<1>4. CASE /\ t \notin txnTable /\ made < MaxEvents /\ made' = made + 1
           /\ txnTable' = txnTable \cup {t}
           /\ Written(t) \/ UNCHANGED log
  <2>1. /\ txnTable' \in SUBSET Txns /\ txnTable \subseteq txnTable' /\ t \in txnTable' \ txnTable
        /\ made' \in 0..MaxEvents /\ made + 1 \in 1..MaxEvents
    BY SMTT(30), <1>2, <1>4, AppServicesAssumption
  <2>2. CASE Written(t)
    <3>1. /\ Event(made + 1, "message", None, t) \in Events
          /\ Event(made + 1, "message", None, t).txn = t
      BY SMTT(30), <2>1, EventIs
    <3>2. PICK msg \in Seq(Events) \ {<<>>} : log' = Append(log, msg) /\ msg[1].txn = t
      BY <2>2, <3>1, MessageIs DEF Written, WriteOutputEvents
    <3>3. Consumed'
      BY <1>1, <1>2, <2>1, <3>2, LogGrows
    <3>4. Known'
      BY <2>1, <3>2, LogKnown DEF Consumed
    <3> QED BY <3>3, <3>4
  <2>3. CASE UNCHANGED log
    BY <1>1, <2>1, <2>3, SameConsumed, SameKnown
  <2> QED BY <1>4, <2>2, <2>3
<1> QED BY <1>3, <1>4 DEF SendEvent, ProcessRoomEvent

\* The requests that wait are among those there were.
LEMMA ClientKeeps ==
  ASSUME ClientTypes, [Next]_vars
  PROVE  ClientTypes'
<1>1. ASSUME NEW t \in Txns, FetchTransaction(t) PROVE ClientTypes'
  <2>1. requests' \in 0..MaxRequests /\ requests \in Nat /\ requests' = requests + 1
    BY SMTT(30), <1>1, AppServicesAssumption DEF FetchTransaction, ClientTypes
  <2>2. waiting' \in [Txns -> Nat] /\ \A u \in Txns : waiting'[u] <= requests'
    BY SMTT(30), <1>1, <2>1 DEF FetchTransaction, ClientTypes
  <2> QED BY <1>1, <2>1, <2>2 DEF FetchTransaction, ClientTypes
<1>2. ASSUME NEW t \in Txns, SendEvent(t) PROVE ClientTypes'
  <2>1. requests' = requests /\ requests \in Nat
    BY SMTT(30), <1>2 DEF SendEvent, ClientTypes
  <2>2. waiting' \in [Txns -> Nat] /\ \A u \in Txns : waiting'[u] <= requests'
    BY SMTT(30), <1>2, <2>1 DEF SendEvent, ClientTypes
  <2>3. txnsMaps' = txnsMaps \/ AddTransaction(t)
    BY <1>2 DEF SendEvent, ProcessRoomEvent
  <2>4. DOMAIN txnsMaps' = 1..2 /\ \A m \in 1..2 : txnsMaps'[m] \in SUBSET Txns
    BY SMTT(30), <2>3 DEF AddTransaction, ClientTypes
  <2> QED BY <2>1, <2>2, <2>4 DEF ClientTypes
<1>3. ASSUME CacheCleanService PROVE ClientTypes'
  <2>1. DOMAIN txnsMaps' = 1..2 /\ \A m \in 1..2 : txnsMaps'[m] \in SUBSET Txns
    BY SMTT(30), <1>3 DEF CacheCleanService, ClientTypes
  <2> QED BY <1>3, <2>1 DEF CacheCleanService, ClientTypes
<1>4. ASSUME Restart PROVE ClientTypes'
  <2>1. requests' = requests /\ requests \in Nat
    BY SMTT(30), <1>4 DEF Restart, Lost, ClientTypes
  <2>2. waiting' \in [Txns -> Nat] /\ \A u \in Txns : waiting'[u] <= requests'
    BY SMTT(30), <1>4, <2>1 DEF Restart, Lost
  <2>3. DOMAIN txnsMaps' = 1..2 /\ \A m \in 1..2 : txnsMaps'[m] \in SUBSET Txns
    BY SMTT(30), <1>4 DEF Restart, Lost
  <2> QED BY <2>1, <2>2, <2>3 DEF ClientTypes
<1>5. ASSUME UNCHANGED client PROVE ClientTypes'
  BY <1>5 DEF client, ClientTypes
<1>6. ASSUME RoomEvent \/ Consume \/ UNCHANGED vars PROVE UNCHANGED client
  BY <1>6 DEF RoomEvent, Consume, FilterRoomserverEvents, NotifyNewEvents,
                     SetPartitionOffset, vars
<1>7. ASSUME NEW s \in Services, Work(s) PROVE UNCHANGED client
  BY <1>7 DEF Work, StartWorker, WaitForNewEvents, GetEventsWithAppServiceID,
                     GetLatestTxnID, UpdateTxnIDForEvents, SendOK, SendFails,
                     RemoveEventsBeforeAndIncludingID
<1> QED BY <1>1, <1>2, <1>3, <1>4, <1>5, <1>6, <1>7 DEF Next

-----------------------------------------------------------------------------
(* The invariant is inductive                                                *)

\* Steps of a worker concern neither the log nor the consumer.
LEMMA WorkKeeps ==
  ASSUME Delivery, Consumed, Known, NEW s \in Services, Work(s)
  PROVE  Delivery' /\ Consumed' /\ Known'
<1>1. Delivery'
  BY StartDelivery, WaitDelivery, SelectDelivery, NumberDelivery, MarkDelivery, SendOKDelivery,
     SendFailsDelivery, RemoveDelivery, ZenonT(30) DEF Work
<1>2. UNCHANGED <<room, consuming>>
  BY DEF Work, StartWorker, WaitForNewEvents, GetEventsWithAppServiceID, GetLatestTxnID,
               UpdateTxnIDForEvents, SendOK, SendFails, RemoveEventsBeforeAndIncludingID
<1>3. UNCHANGED <<log, offset, consumer, inserted, failed, made, joined, txnTable>>
  BY <1>2 DEF room, consuming
<1>4. /\ made' \in 0..MaxEvents /\ txnTable' \in SUBSET Txns /\ txnTable \subseteq txnTable'
  BY <1>3 DEF Consumed, Consuming, Known, LoggedIsKnown
<1> QED BY <1>1, <1>3, <1>4, SameConsumed, SameKnown

LEMMA InitIInv ==
  Init => IInv
<1> SUFFICES ASSUME Init PROVE IInv
  OBVIOUS
<1>1. /\ log = <<>> /\ offset = 0 /\ failed = {} /\ made = 0 /\ joined = Services
      /\ txnTable = {} /\ consumer = NewConsumer
  BY DEF Init
<1>2. Consuming
  <2>1. 1 \in 1..(Len(WorkerStates) + 1) /\ 1 \in Nat \ {0} /\ 0 \in 0..MaxEvents
    BY SMTT(30), ServiceList, AppServicesAssumption
  <2>2. consumer \in [as : 1..(Len(WorkerStates) + 1), ev : Nat \ {0},
                      notify : Services \cup {None}]
    BY <1>1, <2>1 DEF NewConsumer
  <2> QED BY SMTT(30), <1>1, <2>1, <2>2 DEF Consuming
<1>3. PassedIsInserted /\ ConsumedIsInserted
  BY SMTT(30), <1>1 DEF PassedIsInserted, ConsumedIsInserted
<1>4. LoggedIsKnown /\ OnePerTransaction
  BY SMTT(30), <1>1 DEF LoggedIsKnown, OnePerTransaction
<1>5. ClientTypes
  BY SMTT(30), AppServicesAssumption DEF Init, ClientTypes
<1> QED BY <1>2, <1>3, <1>4, <1>5, InitDelivery DEF IInv

LEMMA NextIInv ==
  IInv /\ [Next]_vars => IInv'
<1> SUFFICES ASSUME IInv, [Next]_vars PROVE IInv'
  OBVIOUS
<1>1. Delivery /\ Consumed /\ Known /\ ClientTypes /\ Consuming
  BY DEF IInv, Consumed, Known
<1>2. /\ made \in 0..MaxEvents /\ txnTable \in SUBSET Txns /\ txnTable \subseteq txnTable
  BY <1>1 DEF Consuming, Known, LoggedIsKnown
<1>3. ASSUME RoomEvent PROVE Delivery' /\ Consumed' /\ Known'
  <2>1. UNCHANGED <<events, inserted, delivered, accepted, worker, nextID, txnCounter>>
    BY <1>3 DEF RoomEvent, consuming, sending, services, table
  <2> QED BY <1>1, <1>3, <2>1, SameDelivery, RoomEventKeeps
<1>4. ASSUME NEW t \in Txns, SendEvent(t) PROVE Delivery' /\ Consumed' /\ Known'
  <2>1. UNCHANGED <<events, inserted, delivered, accepted, worker, nextID, txnCounter>>
    BY <1>4 DEF SendEvent, consuming, sending, services, table
  <2> QED BY <1>1, <1>4, <2>1, SameDelivery, SendEventKeeps
<1>5. ASSUME UNCHANGED <<room, consuming, sending, table>> PROVE Delivery' /\ Consumed' /\ Known'
  <2>1. UNCHANGED <<events, inserted, delivered, accepted, worker, nextID, txnCounter, log, offset,
                    consumer, failed, made, joined, txnTable>>
    BY <1>5 DEF room, consuming, sending, services, table
  <2> QED BY <1>1, <1>2, <2>1, SameDelivery, SameConsumed, SameKnown
<1>6. ASSUME \/ CacheCleanService \/ \E t \in Txns : FetchTransaction(t)
             \/ UNCHANGED vars
      PROVE  UNCHANGED <<room, consuming, sending, table>>
  BY <1>6 DEF CacheCleanService, FetchTransaction, vars
<1>7. ASSUME FilterRoomserverEvents PROVE Delivery' /\ Consumed' /\ Known'
  <2>1. UNCHANGED <<log, txnTable>>
    BY <1>7 DEF FilterRoomserverEvents, room
  <2> QED BY <1>1, <1>2, <1>7, <2>1, FilterConsumed, SameKnown
<1>8. ASSUME NotifyNewEvents PROVE Delivery' /\ Consumed' /\ Known'
  <2>1. UNCHANGED <<log, txnTable>>
    BY <1>8 DEF NotifyNewEvents, room
  <2> QED BY <1>1, <1>2, <1>8, <2>1, NotifyDelivery, NotifyConsumed, SameKnown
<1>9. ASSUME SetPartitionOffset PROVE Delivery' /\ Consumed' /\ Known'
  <2>1. UNCHANGED <<events, inserted, delivered, accepted, worker, nextID, txnCounter, log, txnTable>>
    BY <1>9 DEF SetPartitionOffset, room, sending, services, table
  <2> QED BY <1>1, <1>2, <1>9, <2>1, SameDelivery, OffsetConsumed, SameKnown
<1>10. ASSUME Restart PROVE Delivery' /\ Consumed' /\ Known'
  <2>1. Lost /\ UNCHANGED <<log, txnTable>>
    BY <1>10 DEF Restart, Lost, room
  <2> QED BY <1>1, <1>2, <1>10, <2>1, RestartDelivery, RestartConsumed, SameKnown
<1>11. Delivery' /\ Consumed' /\ Known'
  BY <1>1, <1>3, <1>4, <1>5, <1>6, <1>7, <1>8, <1>9, <1>10, WorkKeeps DEF Next, Consume
<1>12. ClientTypes'
  BY <1>1, ClientKeeps
<1> QED BY <1>11, <1>12 DEF IInv, Consumed, Known

LEMMA Inductive ==
  Spec => []IInv
BY InitIInv, NextIInv, PTL DEF Spec

-----------------------------------------------------------------------------
(* The theorems                                                              *)

\* What a service has taken is the beginning of what filterRoomserverEvents inserted for it,
\* and the rows it has not taken are the rest: for any batch size, whatever the consumer
\* inserts between the steps of the worker, whichever answers are lost and wherever the
\* process stops.
THEOREM DeliveredInOrder ==
  Spec => []DeliversInOrder
<1>1. IInv => DeliversInOrder
  <2> SUFFICES ASSUME IInv, NEW s \in Services
               PROVE  LET taken == Len(delivered[s])
                          rest == (taken + 1)..Len(inserted[s])
                      IN  /\ taken <= Len(inserted[s])
                          /\ \A i \in 1..taken : delivered[s][i] = inserted[s][i].ev
                          /\ {[id |-> r.id, ev |-> r.ev] :
                                 r \in {q \in events[s] : q.txn \notin accepted[s]}}
                               = {inserted[s][i] : i \in rest}
    BY DEF DeliversInOrder
  <2> DEFINE E == events[s]
             I == inserted[s]
             D == delivered[s]
             A == accepted[s]
             open == {q \in E : q.txn \notin A}
             rest == (Len(D) + 1)..Len(I)
  <2>1. Queued(E, I, D, A, nextID, txnCounter)
    BY GoodNow DEF IInv
  <2> HIDE DEF E, I, D, A
  <2>2. /\ E \in SUBSET Row /\ I \in Seq(Entry) /\ D \in Seq(Events)
        /\ Len(D) <= Len(I) /\ \A i \in 1..Len(D) : D[i] = I[i].ev
    BY <2>1 DEF Queued
  <2>3. \A i \in rest : i \in 1..Len(I) /\ I[i] = [id |-> I[i].id, ev |-> I[i].ev]
    <3>1. \A i \in rest : i \in 1..Len(I)
      BY SMTT(30), <2>2
    <3>2. \A e \in Entry : e = [id |-> e.id, ev |-> e.ev]
      BY SMTT(30) DEF Entry
    <3> QED BY <2>2, <3>1, <3>2, EntryIs
  <2>4. ASSUME NEW r \in open PROVE \E i \in rest : [id |-> r.id, ev |-> r.ev] = I[i]
    <3>1. PICK i \in rest : r.id = I[i].id /\ r.ev = I[i].ev
      BY <2>1, <2>4 DEF Queued
    <3> QED BY <2>3, <3>1
  <2>5. ASSUME NEW i \in rest PROVE \E r \in open : [id |-> r.id, ev |-> r.ev] = I[i]
    <3>1. PICK r \in open : r.id = I[i].id /\ r.ev = I[i].ev
      BY <2>1, <2>5 DEF Queued
    <3> QED BY <2>3, <3>1
  <2>6. {[id |-> r.id, ev |-> r.ev] : r \in open} = {I[i] : i \in rest}
    <3> DEFINE left == {[id |-> r.id, ev |-> r.ev] : r \in open}
               right == {I[i] : i \in rest}
    <3>1. ASSUME NEW x \in left PROVE x \in right
      <4>1. PICK r \in open : x = [id |-> r.id, ev |-> r.ev]
        OBVIOUS
      <4>2. PICK i \in rest : x = I[i]
        BY <2>4, <4>1
      <4> QED BY <4>2
    <3>2. ASSUME NEW x \in right PROVE x \in left
      <4>1. PICK i \in rest : x = I[i]
        OBVIOUS
      <4>2. PICK r \in open : x = [id |-> r.id, ev |-> r.ev]
        BY <2>5, <4>1
      <4> QED BY <4>2
    <3> HIDE DEF left, right
    <3>3. left = right
      BY <3>1, <3>2
    <3> QED BY <3>3 DEF left, right
  <2> QED BY <2>2, <2>6 DEF E, I, D, A
<1> QED BY <1>1, Inductive, PTL

\* SetPartitionOffset never passes a membership event of a service's user that was not
\* inserted for the service, for any list of services and any messages, unless an insert for
\* the message failed.
THEOREM ConsumedNotLost ==
  Spec => []ConsumedIsInserted
<1>1. IInv => ConsumedIsInserted
  BY DEF IInv
<1> QED BY <1>1, Inductive, PTL

\* However many requests of however many clients carry the same transaction ID, SendEvent
\* outputs one event for it.
THEOREM SentOnce ==
  Spec => []OnePerTransaction
<1>1. IInv => OnePerTransaction
  BY DEF IInv
<1> QED BY <1>1, Inductive, PTL

\* The variables of the client API, the log, the consumer and the workers have their types:
\* no worker holds a batch above the limit, or a row or a transaction ID that was not drawn
\* from its sequence.
THEOREM TypeCorrect ==
  Spec => []TypeOK
<1>1. IInv => TypeOK
  <2> SUFFICES ASSUME IInv PROVE TypeOK
    OBVIOUS
  <2>1. /\ requests \in 0..MaxRequests /\ \A t \in Txns : waiting[t] \in 0..requests
        /\ \A m \in 1..2 : txnsMaps[m] \subseteq Txns
    BY SMTT(30), AppServicesAssumption DEF IInv, ClientTypes
  <2>2. /\ txnTable \subseteq Txns /\ made \in 0..MaxEvents /\ joined \subseteq Services
        /\ offset \in 0..Len(log) /\ failed \subseteq 1..Len(log)
        /\ consumer.as \in 1..(Len(WorkerStates) + 1) /\ consumer.notify \in Services \cup {None}
        /\ InLoop => consumer.ev \in 1..Len(Message)
    BY DEF IInv, Consuming, LoggedIsKnown, InLoop
  <2>3. ASSUME NEW s \in Services
        PROVE  /\ \A r \in events[s] : r.ev.id \in EventIDs /\ r.id < nextID /\ r.txn <= txnCounter
               /\ worker[s].pc \in {"start", "wait", "waiting", "select", "number", "mark", "send",
                                    "remove"}
               /\ worker[s].txn <= txnCounter /\ Len(worker[s].batch) <= BatchSize
               /\ worker[s].maxID < nextID
               /\ accepted[s] \subseteq 0..txnCounter
    <3>1. /\ Queued(events[s], inserted[s], delivered[s], accepted[s], nextID, txnCounter)
          /\ Knows(worker[s], events[s], inserted[s], delivered[s], accepted[s], nextID, txnCounter)
          /\ txnCounter \in Nat
      BY GoodNow DEF IInv
    <3>2. accepted[s] \subseteq 0..txnCounter /\ \A r \in events[s] : r.txn <= txnCounter
      BY <3>1, TxnBelow
    <3>3. ASSUME NEW r \in events[s]
          PROVE  r.ev.id \in EventIDs /\ r.id < nextID /\ r.txn <= txnCounter
      <4>1. r.ev \in Events
        BY <3>1, RowIs DEF Queued
      <4>2. r.ev.id \in EventIDs
        BY <4>1 DEF Events, EventIDs
      <4> QED BY <3>1, <3>2, <4>2, RowBelow
    <3>4. /\ worker[s] \in Workers /\ worker[s].txn <= txnCounter
          /\ Len(worker[s].batch) <= BatchSize /\ worker[s].maxID < nextID
      BY <3>1 DEF Knows
    <3>5. worker[s].pc \in {"start", "wait", "waiting", "select", "number", "mark", "send",
                            "remove"}
      BY <3>4 DEF Workers
    <3> QED BY <3>2, <3>3, <3>4, <3>5
  <2> QED BY <2>1, <2>2, <2>3 DEF TypeOK
<1> QED BY <1>1, Inductive, PTL

=============================================================================
