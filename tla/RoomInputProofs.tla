--------------------------- MODULE RoomInputProofs ---------------------------
(***************************************************************************)
(* Proofs about RoomInput, for any number of calls, rooms and events per   *)
(* request and any channel capacity.                                       *)
(*                                                                         *)
(* The invariant follows a task through the machine.  A task is not yet    *)
(* sent, in the channel of its lane, held by the worker of its lane, or    *)
(* answered.  What makes this inductive is that along finished tasks, held *)
(* task and channel the tasks of one request have increasing indices, so   *)
(* no task can be in two places, and that `running' is set for a lane with *)
(* a worker, so the compare-and-swap never starts a second.                *)
(***************************************************************************)
EXTENDS RoomInput, FiniteSetTheorems, TLAPS

Valid(t) == t \in Tasks /\ t[2] <= Len(request[t[1]])

\* A task that was sent to lane l and has no result yet.
Pending(t, l) == Valid(t) /\ LaneOf(t) = l /\ t[2] < i[t[1]] /\ err[t] = "unset"

\* Of two tasks of one request, the first in time has the smaller index.
Before(t, u) == t[1] = u[1] => t[2] < u[2]

Workers == \A g \in Tasks : Alive(g) => Valid(g) /\ running[LaneOf(g)]

Sending == \A c \in Callers : pc[c] = "send" => i[c] <= Len(request[c])

Unsent == \A t \in Tasks : t[2] >= i[t[1]] => err[t] = "unset"

Queued == \A l \in Lanes : \A n \in DOMAIN input[l] : Pending(input[l][n], l)

Held == \A g \in Tasks : worker[g] = "process" => Pending(task[g], LaneOf(g))

QueueOrder ==
    \A l \in Lanes : \A m, n \in DOMAIN input[l] :
        m < n => Before(input[l][m], input[l][n])

HeldOrder ==
    \A g \in Tasks : worker[g] = "process" =>
        \A n \in DOMAIN input[LaneOf(g)] : Before(task[g], input[LaneOf(g)][n])

FinishedOrder ==
    \A l \in Lanes : \A m \in DOMAIN finished[l] :
        /\ finished[l][m][2] < i[finished[l][m][1]]
        /\ \A n \in DOMAIN input[l] : Before(finished[l][m], input[l][n])
        /\ \A g \in Tasks : worker[g] = "process" /\ LaneOf(g) = l
                => Before(finished[l][m], task[g])

\* The events of c's request that have no result.
Outstanding(c) == {n \in 1 .. Len(request[c]) : err[<<c, n>>] = "unset"}

Counted == \A c \in Callers : wg[c] = Cardinality(Outstanding(c))

Answered ==
    \A c \in Callers : pc[c] = "returned" => wg[c] = 0 /\ Answers(c, response[c])

\* Types of everything but the wait group counters, whose bound follows.
Shape ==
    /\ request \in [Callers -> Seq(Rooms)]
    /\ \A c \in Callers : Len(request[c]) <= MaxEvents
    /\ pc \in [Callers -> {"next", "send", "wait", "returned"}]
    /\ i \in [Callers -> 1 .. MaxEvents + 1]
    /\ wg \in [Callers -> Nat]
    /\ err \in [Tasks -> Results \union {"unset"}]
    /\ response \in [Callers -> Results \union {"none"}]
    /\ running \in [Lanes -> BOOLEAN]
    /\ input \in [Lanes -> Seq(Tasks)]
    /\ \A l \in Lanes : Len(input[l]) <= Capacity
    /\ worker \in [Tasks -> {"none", "select", "process", "stop"}]
    /\ task \in [Tasks -> Tasks \union {NoTask}]
    /\ finished \in [Lanes -> Seq(Tasks)]

IInv ==
    /\ Shape
    /\ Workers
    /\ OneWorkerPerLane
    /\ Sending
    /\ Unsent
    /\ Queued
    /\ Held
    /\ QueueOrder
    /\ HeldOrder
    /\ FinishedOrder
    /\ RequestOrder
    /\ Counted
    /\ Answered

-----------------------------------------------------------------------------
(* Facts about tasks, lanes and sequences.                                 *)

\* The parts of a task: the call it belongs to and its place in the request.
LEMMA TaskParts ==
    ASSUME NEW t \in Tasks
    PROVE  t[1] \in Callers /\ t[2] \in 1 .. MaxEvents /\ t[2] \in Nat /\ t = <<t[1], t[2]>>
  BY MaxEventsNatural DEF Tasks

\* A request is a sequence of at most MaxEvents rooms.
LEMMA RequestIsSeq ==
    ASSUME Shape, NEW c \in Callers
    PROVE  /\ request[c] \in Seq(Rooms)
           /\ Len(request[c]) \in 0 .. MaxEvents
           /\ DOMAIN request[c] = 1 .. Len(request[c])
           /\ Len(request[c]) \in Nat
  BY MaxEventsNatural DEF Shape

\* The lane of a task of a request exists.
LEMMA LaneExists ==
    ASSUME Shape, NEW t, Valid(t)
    PROVE  LaneOf(t) \in Lanes
  <1>1. t \in Tasks /\ t[1] \in Callers /\ t[2] \in 1 .. Len(request[t[1]])
    BY TaskParts, RequestIsSeq DEF Valid
  <1>2. request[t[1]][t[2]] \in Rooms
    BY <1>1, RequestIsSeq
  <1> QED
    BY <1>2 DEF LaneOf, Lane, Lanes

\* The event a caller is about to dispatch is a task of its request.
LEMMA CurrentTask ==
    ASSUME Shape, NEW c \in Callers, i[c] <= Len(request[c])
    PROVE  /\ Valid(<<c, i[c]>>)
           /\ <<c, i[c]>> \in Tasks
           /\ LaneOf(<<c, i[c]>>) \in Lanes
           /\ i[c] \in 1 .. MaxEvents
           /\ i[c] + 1 \in 1 .. MaxEvents + 1
  <1>1. i[c] \in 1 .. MaxEvents
    BY RequestIsSeq, MaxEventsNatural DEF Shape
  <1>2. <<c, i[c]>> \in Tasks
    BY <1>1 DEF Tasks
  <1>3. Valid(<<c, i[c]>>)
    BY <1>2 DEF Valid
  <1> QED
    BY <1>1, <1>2, <1>3, LaneExists, MaxEventsNatural

\* What Append does to the elements of a sequence.
LEMMA AppendFacts ==
    ASSUME NEW S, NEW s \in Seq(S), NEW x \in S
    PROVE  /\ Append(s, x) \in Seq(S)
           /\ Len(Append(s, x)) = Len(s) + 1
           /\ DOMAIN s = 1 .. Len(s)
           /\ DOMAIN Append(s, x) = 1 .. Len(s) + 1
           /\ Len(s) \in Nat
           /\ \A n \in DOMAIN s : Append(s, x)[n] = s[n]
           /\ Append(s, x)[Len(s) + 1] = x
  OBVIOUS

\* What Head and Tail do to the elements of a sequence.
LEMMA TailFacts ==
    ASSUME NEW S, NEW s \in Seq(S), s # <<>>
    PROVE  /\ Tail(s) \in Seq(S)
           /\ Len(Tail(s)) = Len(s) - 1
           /\ DOMAIN s = 1 .. Len(s)
           /\ DOMAIN Tail(s) = 1 .. Len(s) - 1
           /\ Len(s) \in Nat
           /\ Head(s) = s[1]
           /\ 1 \in DOMAIN s
           /\ \A n \in DOMAIN Tail(s) : n + 1 \in DOMAIN s /\ Tail(s)[n] = s[n + 1]
  OBVIOUS

-----------------------------------------------------------------------------
(* Initial states.                                                         *)

\* The invariant holds before any event is dispatched.
LEMMA InitIInv == Init => IInv
  <1> SUFFICES ASSUME Init PROVE IInv
    OBVIOUS
  <1>0. /\ request \in [Callers -> Seq(Rooms)]
        /\ \A c \in Callers : Len(request[c]) \in 0 .. MaxEvents
        /\ \A l \in Lanes : DOMAIN input[l] = {} /\ DOMAIN finished[l] = {}
    <2>1. ASSUME NEW c \in Callers
          PROVE  request[c] \in Seq(Rooms) /\ Len(request[c]) \in 0 .. MaxEvents
      <3>1. request[c] \in Requests
        BY DEF Init
      <3>2. PICK n \in 0 .. MaxEvents : request[c] \in [1 .. n -> Rooms]
        BY <3>1, ZenonT(30) DEF Requests
      <3> QED BY <3>2, MaxEventsNatural
    <2> QED BY <2>1 DEF Init
  <1>1. Shape
    BY <1>0, CapacityPositive, MaxEventsNatural DEF Init, Shape, Results
  <1>2. Workers /\ OneWorkerPerLane /\ Held /\ HeldOrder
    BY DEF Init, Workers, OneWorkerPerLane, Held, HeldOrder, Alive
  <1>3. Sending /\ Answered
    BY DEF Init, Sending, Answered
  <1>4. Unsent
    BY DEF Init, Unsent
  <1>5. Queued /\ QueueOrder /\ FinishedOrder /\ RequestOrder
    BY <1>0 DEF Queued, QueueOrder, FinishedOrder, RequestOrder
  <1>6. Counted
    <2> SUFFICES ASSUME NEW c \in Callers PROVE wg[c] = Cardinality(Outstanding(c))
      BY DEF Counted
    <2>1. Outstanding(c) = 1 .. Len(request[c])
      <3>1. ASSUME NEW n \in 1 .. Len(request[c]) PROVE <<c, n>> \in Tasks
        BY <1>1, RequestIsSeq, MaxEventsNatural DEF Tasks
      <3> QED BY <3>1 DEF Outstanding, Init
    <2>2. Cardinality(1 .. Len(request[c])) = Len(request[c])
      <3>1. Len(request[c]) \in Nat
        BY <1>0, MaxEventsNatural
      <3>2. 1 \in Int /\ Len(request[c]) \in Int
        BY <3>1
      <3>3. Cardinality(1 .. Len(request[c])) =
              IF 1 > Len(request[c]) THEN 0 ELSE Len(request[c]) - 1 + 1
        BY ZenonT(30), <3>2, FS_Interval
      <3> QED BY <3>1, <3>3
    <2> QED BY <2>1, <2>2 DEF Init
  <1> QED
    BY <1>1, <1>2, <1>3, <1>4, <1>5, <1>6 DEF IInv

-----------------------------------------------------------------------------
(* Parts of the invariant that a step leaves alone.                        *)

\* A step that moves no task keeps what is known about the tasks' places.
LEMMA TasksStay ==
    ASSUME IInv, UNCHANGED <<request, i, err, input, task, finished>>,
           \A g \in Tasks : worker'[g] = "process" => worker[g] = "process"
    PROVE  /\ Unsent' /\ Queued' /\ Held' /\ QueueOrder'
           /\ HeldOrder' /\ FinishedOrder' /\ RequestOrder'
  <1>1. Unsent' /\ QueueOrder' /\ RequestOrder'
    BY SMTT(30) DEF IInv, Unsent, QueueOrder, RequestOrder, Before
  <1>2. Queued'
    BY DEF IInv, Queued, Pending, Valid, LaneOf
  <1>3. Held'
    BY DEF IInv, Held, Pending, Valid, LaneOf
  <1>4. HeldOrder'
    BY ZenonT(30) DEF IInv, HeldOrder, Before, LaneOf
  <1>5. FinishedOrder'
    BY DEF IInv, FinishedOrder, Before, LaneOf
  <1> QED
    BY <1>1, <1>2, <1>3, <1>4, <1>5

\* A step that answers no task keeps the wait groups and the answers right.
LEMMA AnswersStay ==
    ASSUME IInv, UNCHANGED <<request, err, wg, response>>,
           \A c \in Callers : pc'[c] = "returned" => pc[c] = "returned"
    PROVE  Counted' /\ Answered'
  <1>1. Counted'
    BY DEF IInv, Counted, Outstanding
  <1>2. Answered'
    BY ZenonT(30) DEF IInv, Answered, Answers, TasksOf
  <1> QED
    BY <1>1, <1>2

\* A step that starts and stops no worker keeps the workers apart.
LEMMA WorkersStay ==
    ASSUME IInv, UNCHANGED <<request, running>>,
           \A g \in Tasks : worker'[g] # "none" => worker[g] # "none"
    PROVE  Workers' /\ OneWorkerPerLane'
  <1>1. Workers'
    BY DEF IInv, Workers, Alive, Valid, LaneOf
  <1>2. OneWorkerPerLane'
    BY DEF IInv, OneWorkerPerLane, Alive, LaneOf
  <1> QED
    BY <1>1, <1>2

-----------------------------------------------------------------------------
(* The steps of a call.                                                    *)

\* The compare-and-swap starts a worker only in a lane that has none.
LEMMA EnsureWorkerStep ==
    ASSUME IInv, NEW c \in Callers, EnsureWorker(c)
    PROVE  IInv'
  <1> DEFINE t == <<c, i[c]>>
             l == LaneOf(t)
  <1>0. /\ t \in Tasks /\ Valid(t) /\ l \in Lanes
        /\ i[c] <= Len(request[c])
    BY CurrentTask DEF EnsureWorker, IInv
  <1>1. /\ UNCHANGED <<request, i, wg, err, response, input, task, finished>>
        /\ running' = [running EXCEPT ![l] = TRUE]
        /\ worker' = IF ~running[l] THEN [worker EXCEPT ![t] = "select"] ELSE worker
        /\ pc[c] = "next" /\ pc' = [pc EXCEPT ![c] = "send"]
    BY DEF EnsureWorker
  <1> HIDE DEF l, t
  <1>2. Shape'
    BY <1>0, <1>1 DEF IInv, Shape
  <1>3. \A g \in Tasks : /\ worker'[g] = "process" => worker[g] = "process"
                         /\ worker'[g] # "none" /\ worker[g] = "none" => g = t /\ ~running[l]
    BY <1>0, <1>1 DEF IInv, Shape
  <1>4. LaneOf(t) = l
    BY DEF l
  <1>5. Workers'
    <2> SUFFICES ASSUME NEW g \in Tasks, worker'[g] # "none"
                 PROVE  Valid(g) /\ running'[LaneOf(g)]
      BY <1>1 DEF Workers, Alive, Valid, LaneOf
    <2>1. CASE worker[g] # "none"
      <3>1. Valid(g) /\ running[LaneOf(g)] /\ LaneOf(g) \in Lanes
        BY <2>1, LaneExists DEF IInv, Workers, Alive
      <3> QED BY <3>1, <1>0, <1>1 DEF IInv, Shape
    <2>2. CASE worker[g] = "none"
      BY <2>2, <1>0, <1>1, <1>3, <1>4 DEF IInv, Shape
    <2> QED BY <2>1, <2>2
  <1>6. OneWorkerPerLane'
    <2> SUFFICES ASSUME NEW g \in Tasks, NEW h \in Tasks, worker'[g] # "none", worker'[h] # "none",
                        LaneOf(g) = LaneOf(h)
                 PROVE  g = h
      BY <1>1 DEF OneWorkerPerLane, Alive, LaneOf
    <2>1. CASE worker[g] # "none" /\ worker[h] # "none"
      BY <2>1 DEF IInv, OneWorkerPerLane, Alive
    <2>2. CASE worker[g] = "none"
      BY <2>2, <1>3, <1>4 DEF IInv, Workers, Alive
    <2>3. CASE worker[h] = "none"
      BY <2>3, <1>3, <1>4 DEF IInv, Workers, Alive
    <2> QED BY <2>1, <2>2, <2>3
  <1>7. Sending'
    BY <1>0, <1>1 DEF IInv, Sending, Shape
  <1>8. \A d \in Callers : pc'[d] = "returned" => pc[d] = "returned"
    BY <1>1 DEF IInv, Shape
  <1> QED
    BY SMTT(30), <1>1, <1>2, <1>3, <1>5, <1>6, <1>7, <1>8, TasksStay, AnswersStay DEF IInv

\* A sent task comes after every task of its request that was sent before.
LEMMA SendTaskStep ==
    ASSUME IInv, NEW c \in Callers, SendTask(c)
    PROVE  IInv'
  <1> DEFINE t == <<c, i[c]>>
             l == LaneOf(t)
  <1>0. /\ t \in Tasks /\ Valid(t) /\ l \in Lanes
        /\ i[c] <= Len(request[c])
        /\ i[c] \in 1 .. MaxEvents /\ i[c] + 1 \in 1 .. MaxEvents + 1
    BY CurrentTask DEF SendTask, IInv, Sending
  <1>1. /\ UNCHANGED <<request, wg, err, response, running, worker, task, finished>>
        /\ Len(input[l]) < Capacity
        /\ input' = [input EXCEPT ![l] = Append(@, t)]
        /\ i' = [i EXCEPT ![c] = @ + 1]
        /\ pc[c] = "send" /\ pc' = [pc EXCEPT ![c] = "next"]
    BY DEF SendTask
  <1>2. /\ LaneOf(t) = l /\ t[1] = c /\ t[2] = i[c]
        /\ input[l] \in Seq(Tasks)
        /\ input'[l] = Append(input[l], t)
        /\ \A k \in Lanes : k # l => input'[k] = input[k]
    BY <1>0, <1>1 DEF IInv, Shape
  <1> HIDE DEF l, t
  <1>3. /\ input'[l] \in Seq(Tasks)
        /\ Len(input'[l]) = Len(input[l]) + 1
        /\ DOMAIN input'[l] = 1 .. Len(input[l]) + 1
        /\ DOMAIN input[l] = 1 .. Len(input[l])
        /\ Len(input[l]) \in Nat
        /\ \A n \in DOMAIN input[l] : input'[l][n] = input[l][n]
        /\ input'[l][Len(input[l]) + 1] = t
    BY <1>0, <1>2, AppendFacts
  <1>4. \A k \in Lanes : \A n \in DOMAIN input'[k] :
            \/ n \in DOMAIN input[k] /\ input'[k][n] = input[k][n]
            \/ k = l /\ n = Len(input[l]) + 1 /\ input'[k][n] = t
    BY <1>2, <1>3, SMTT(30)
  <1>5. \A d \in Callers : i'[d] >= i[d] /\ i[d] \in Nat /\ i'[d] \in Nat
    BY SMTT(30), <1>0, <1>1, MaxEventsNatural DEF IInv, Shape
  <1>6. i'[c] = i[c] + 1
    BY <1>1 DEF IInv, Shape
  <1>7. Shape'
    BY <1>0, <1>1, <1>3, CapacityPositive DEF IInv, Shape
  <1>8. Sending'
    BY <1>1, <1>5 DEF IInv, Sending, Shape
  <1>9. Unsent'
    BY SMTT(30), <1>1, <1>5, TaskParts DEF IInv, Unsent
  <1>10. \A g : LaneOf(g)' = LaneOf(g)
    BY <1>1 DEF LaneOf
  <1>11. t[2] < i'[t[1]] /\ err[t] = "unset"
    <2>1. t[2] >= i[t[1]]
      BY <1>0, <1>2
    <2> QED BY <2>1, <1>0, <1>2, <1>6 DEF IInv, Unsent
  <1>12. Queued'
    <2> SUFFICES ASSUME NEW k \in Lanes, NEW n \in DOMAIN input'[k]
                 PROVE  Pending(input[k][n], k)'
      BY ZenonT(30) DEF Queued
    <2>1. CASE n \in DOMAIN input[k] /\ input'[k][n] = input[k][n]
      <3>1. Pending(input[k][n], k)
        BY SMTT(30), <2>1 DEF IInv, Queued
      <3> QED BY <3>1, <2>1, <1>1, <1>5, TaskParts DEF Pending, Valid, LaneOf
    <2>2. CASE k = l /\ input'[k][n] = t
      BY SMTT(30), <2>2, <1>0, <1>1, <1>2, <1>10, <1>11 DEF Pending, Valid
    <2> QED BY <2>1, <2>2, <1>4
  <1>13. Held'
    <2> SUFFICES ASSUME NEW g \in Tasks, worker[g] = "process"
                 PROVE  Pending(task[g], LaneOf(g))'
      BY <1>1 DEF Held
    <2>1. Pending(task[g], LaneOf(g))
      BY DEF IInv, Held
    <2> QED BY <2>1, <1>1, <1>5, TaskParts DEF Pending, Valid, LaneOf
  <1>14. QueueOrder'
    <2> SUFFICES ASSUME NEW k \in Lanes, NEW m \in DOMAIN input'[k], NEW n \in DOMAIN input'[k],
                        m < n
                 PROVE  Before(input'[k][m], input'[k][n])
      BY DEF QueueOrder, Before
    <2>1. CASE n \in DOMAIN input[k] /\ input'[k][n] = input[k][n]
      <3>1. m \in DOMAIN input[k] /\ input'[k][m] = input[k][m]
        <4>1. CASE k = l
          BY SMTT(30), <4>1, <2>1, <1>3
        <4>2. CASE k # l
          BY <4>2, <1>2
        <4> QED BY <4>1, <4>2
      <3> QED BY <3>1, <2>1 DEF IInv, QueueOrder
    <2>2. CASE k = l /\ n = Len(input[l]) + 1 /\ input'[k][n] = t
      <3>1. m \in DOMAIN input[l] /\ input'[l][m] = input[l][m]
        BY <2>2, <1>3
      <3>2. Pending(input[l][m], l)
        BY <3>1, <1>0 DEF IInv, Queued
      <3> QED BY <3>1, <3>2, <2>2, <1>2 DEF Pending, Before
    <2> QED BY <2>1, <2>2, <1>4
  <1>15. HeldOrder'
    <2> SUFFICES ASSUME NEW g \in Tasks, worker[g] = "process",
                        NEW n \in DOMAIN input'[LaneOf(g)]
                 PROVE  Before(task[g], input'[LaneOf(g)][n])
      BY <1>1, <1>10 DEF HeldOrder, Before
    <2>1. Pending(task[g], LaneOf(g)) /\ LaneOf(g) \in Lanes
      BY LaneExists DEF IInv, Held, Workers, Alive
    <2>2. CASE n \in DOMAIN input[LaneOf(g)] /\ input'[LaneOf(g)][n] = input[LaneOf(g)][n]
      BY <2>2 DEF IInv, HeldOrder
    <2>3. CASE input'[LaneOf(g)][n] = t
      BY ZenonT(30), <2>3, <2>1, <1>2 DEF Pending, Before
    <2> QED BY <2>1, <2>2, <2>3, <1>4
  <1>16. FinishedOrder'
    <2> SUFFICES ASSUME NEW k \in Lanes, NEW m \in DOMAIN finished[k]
                 PROVE  /\ finished[k][m][2] < i'[finished[k][m][1]]
                        /\ \A n \in DOMAIN input'[k] : Before(finished[k][m], input'[k][n])
                        /\ \A g \in Tasks : worker[g] = "process" /\ LaneOf(g) = k
                              => Before(finished[k][m], task[g])
      BY SMTT(30), <1>1 DEF FinishedOrder, Before, LaneOf
    <2>1. /\ finished[k][m][2] < i[finished[k][m][1]]
          /\ \A n \in DOMAIN input[k] : Before(finished[k][m], input[k][n])
          /\ \A g \in Tasks : worker[g] = "process" /\ LaneOf(g) = k
                => Before(finished[k][m], task[g])
      BY DEF IInv, FinishedOrder
    <2>2. finished[k][m] \in Tasks
      BY DEF IInv, Shape
    <2>3. finished[k][m][2] < i'[finished[k][m][1]]
      BY SMTT(30), <2>1, <2>2, <1>5, TaskParts
    <2>4. \A n \in DOMAIN input'[k] : Before(finished[k][m], input'[k][n])
      BY SMTT(30), <2>1, <1>2, <1>4 DEF Before
    <2> QED BY ZenonT(30), <2>1, <2>3, <2>4
  <1>17. RequestOrder'
    BY <1>1 DEF IInv, RequestOrder
  <1>18. \A d \in Callers : pc'[d] = "returned" => pc[d] = "returned"
    BY <1>1 DEF IInv, Shape
  <1>19. Workers' /\ OneWorkerPerLane' /\ Counted' /\ Answered'
    BY SMTT(30), <1>1, <1>18, WorkersStay, AnswersStay
  <1> QED
    BY SMTT(30), <1>7, <1>8, <1>9, <1>12, <1>13, <1>14, <1>15, <1>16, <1>17, <1>19 DEF IInv

\* Entering wg.Wait().
LEMMA BeginWaitStep ==
    ASSUME IInv, NEW c \in Callers, BeginWait(c)
    PROVE  IInv'
  <1>1. /\ UNCHANGED <<request, i, wg, err, response, running, input, worker, task, finished>>
        /\ pc' = [pc EXCEPT ![c] = "wait"]
    BY DEF BeginWait
  <1>2. Shape' /\ Sending'
    BY <1>1 DEF IInv, Shape, Sending
  <1>3. \A d \in Callers : pc'[d] = "returned" => pc[d] = "returned"
    BY <1>1 DEF IInv, Shape
  <1> QED
    BY <1>1, <1>2, <1>3, TasksStay, AnswersStay, WorkersStay DEF IInv

\* wg.Wait() lets a call through and it reads the results.
LEMMA ReturnStep ==
    ASSUME IInv, NEW c \in Callers, Return(c)
    PROVE  IInv'
  <1>0. PICK r \in Results : Answers(c, r) /\ response' = [response EXCEPT ![c] = r]
    BY ZenonT(30) DEF Return
  <1>1. /\ UNCHANGED <<request, i, wg, err, running, input, worker, task, finished>>
        /\ wg[c] = 0
        /\ pc' = [pc EXCEPT ![c] = "returned"]
    BY DEF Return
  <1>2. Shape' /\ Sending'
    BY <1>0, <1>1 DEF IInv, Shape, Sending
  <1>3. Answered'
    <2> SUFFICES ASSUME NEW d \in Callers, pc'[d] = "returned"
                 PROVE  wg[d] = 0 /\ Answers(d, response'[d])
      BY <1>1 DEF Answered, Answers, TasksOf
    <2> QED BY <1>0, <1>1 DEF IInv, Answered, Shape
  <1>4. Counted'
    BY <1>1 DEF IInv, Counted, Outstanding
  <1> QED
    BY <1>1, <1>2, <1>3, <1>4, TasksStay, WorkersStay DEF IInv

-----------------------------------------------------------------------------
(* The steps of a worker.                                                  *)

\* The worker takes the oldest task of its lane's channel.
LEMMA ReceiveStep ==
    ASSUME IInv, NEW g \in Tasks, Receive(g)
    PROVE  IInv'
  <1> DEFINE l == LaneOf(g)
             x == Head(input[l])
  <1>0. /\ Alive(g) /\ Valid(g) /\ l \in Lanes
        /\ worker[g] = "select" /\ input[l] # <<>>
    BY LaneExists DEF Receive, IInv, Workers, Alive
  <1>1. /\ UNCHANGED <<request, pc, i, wg, err, response, running, finished>>
        /\ task' = [task EXCEPT ![g] = x]
        /\ input' = [input EXCEPT ![l] = Tail(@)]
        /\ worker' = [worker EXCEPT ![g] = "process"]
    BY DEF Receive
  <1>2. /\ input[l] \in Seq(Tasks)
        /\ input'[l] = Tail(input[l])
        /\ \A k \in Lanes : k # l => input'[k] = input[k]
        /\ LaneOf(g) = l
    BY ZenonT(30), <1>0, <1>1 DEF IInv, Shape
  <1>3. /\ Tail(input[l]) \in Seq(Tasks)
        /\ Len(Tail(input[l])) = Len(input[l]) - 1
        /\ Len(input[l]) \in Nat
        /\ x = input[l][1]
        /\ 1 \in DOMAIN input[l]
        /\ \A n \in DOMAIN Tail(input[l]) : n \in Nat \ {0} /\ n + 1 \in DOMAIN input[l]
                /\ Tail(input[l])[n] = input[l][n + 1]
    BY SMTT(30), <1>0, <1>2, TailFacts
  <1>4. Pending(x, l) /\ x \in Tasks
    BY <1>0, <1>3 DEF IInv, Queued, Pending, Valid
  <1> HIDE DEF l, x
  <1>5. \A h : LaneOf(h)' = LaneOf(h)
    BY <1>1 DEF LaneOf
  <1>6. \A u, k : Valid(u) => u[2] \in Int /\ u[1] \in Callers
    BY TaskParts DEF Valid
  <1>7. \A h \in Tasks : worker'[h] = "process" =>
            \/ h = g /\ task'[h] = x
            \/ h # g /\ worker[h] = "process" /\ task'[h] = task[h] /\ LaneOf(h) # l
    BY <1>0, <1>1, <1>2, ZenonT(30) DEF IInv, Shape, OneWorkerPerLane, Alive
  <1>8. Shape'
    <2>1. /\ input' \in [Lanes -> Seq(Tasks)]
          /\ \A k \in Lanes : Len(input'[k]) <= Capacity
      <3>1. input' \in [Lanes -> Seq(Tasks)]
        BY ZenonT(30), <1>0, <1>1, <1>3 DEF IInv, Shape
      <3>2. Len(input'[l]) <= Capacity
        BY <1>0, <1>2, <1>3, CapacityPositive DEF IInv, Shape
      <3> QED BY <3>1, <3>2, <1>2, ZenonT(30) DEF IInv, Shape
    <2> QED BY <2>1, <1>0, <1>1, <1>4 DEF IInv, Shape
  <1>9. Workers' /\ OneWorkerPerLane'
    BY ZenonT(30), <1>0, <1>1, WorkersStay DEF IInv, Shape, Alive
  <1>10. Sending' /\ Unsent' /\ RequestOrder'
    BY <1>1 DEF IInv, Sending, Unsent, RequestOrder
  <1>11. \A k \in Lanes : \A n \in DOMAIN input'[k] :
            \E m \in DOMAIN input[k] : input'[k][n] = input[k][m] /\ (k = l => m = n + 1)
    BY <1>2, <1>3, ZenonT(30)
  <1>12. Queued'
    <2> SUFFICES ASSUME NEW k \in Lanes, NEW n \in DOMAIN input'[k]
                 PROVE  Pending(input[k][n], k)'
      BY ZenonT(30) DEF Queued
    <2>1. PICK m \in DOMAIN input[k] : input'[k][n] = input[k][m]
      BY <1>11
    <2>2. Pending(input[k][m], k)
      BY SMTT(30) DEF IInv, Queued
    <2> QED BY ZenonT(30), <2>1, <2>2, <1>1, <1>5 DEF Pending, Valid
  <1>13. Held'
    <2> SUFFICES ASSUME NEW h \in Tasks, worker'[h] = "process"
                 PROVE  Pending(task[h], LaneOf(h))'
      BY DEF Held
    <2>1. Pending(task'[h], LaneOf(h))
      BY <1>2, <1>4, <1>7 DEF IInv, Held
    <2> QED BY <2>1, <1>1, <1>5 DEF Pending, Valid
  <1>14. QueueOrder'
    <2> SUFFICES ASSUME NEW k \in Lanes, NEW m \in DOMAIN input'[k], NEW n \in DOMAIN input'[k],
                        m < n
                 PROVE  Before(input'[k][m], input'[k][n])
      BY DEF QueueOrder, Before
    <2>1. CASE k = l
      <3>0. m \in DOMAIN Tail(input[l]) /\ n \in DOMAIN Tail(input[l])
        BY <2>1, <1>2
      <3>1. /\ m + 1 \in DOMAIN input[l] /\ n + 1 \in DOMAIN input[l] /\ m + 1 < n + 1
            /\ input'[k][m] = input[l][m + 1] /\ input'[k][n] = input[l][n + 1]
        BY SMTT(30), <2>1, <3>0, <1>2, <1>3
      <3> QED BY <3>1, <1>0 DEF IInv, QueueOrder
    <2>2. CASE k # l
      BY SMTT(30), <2>2, <1>2 DEF IInv, QueueOrder
    <2> QED BY <2>1, <2>2
  <1>15. HeldOrder'
    <2> SUFFICES ASSUME NEW h \in Tasks, worker'[h] = "process",
                        NEW n \in DOMAIN input'[LaneOf(h)]
                 PROVE  Before(task'[h], input'[LaneOf(h)][n])
      BY <1>5 DEF HeldOrder, Before
    <2>1. CASE h = g /\ task'[h] = x
      <3>0. n \in DOMAIN Tail(input[l])
        BY <2>1, <1>2, ZenonT(30)
      <3>1. n + 1 \in DOMAIN input[l] /\ 1 < n + 1 /\ input'[l][n] = input[l][n + 1]
        BY SMTT(30), <3>0, <1>2, <1>3
      <3>2. Before(input[l][1], input[l][n + 1])
        BY SMTT(30), <3>1, <1>0, <1>3 DEF IInv, QueueOrder
      <3> QED BY <3>1, <3>2, <2>1, <1>2, <1>3, ZenonT(30)
    <2>2. CASE h # g /\ worker[h] = "process" /\ task'[h] = task[h] /\ LaneOf(h) # l
      <3>1. LaneOf(h) \in Lanes
        BY ZenonT(30), <2>2, LaneExists DEF IInv, Workers, Alive
      <3> QED BY <3>1, <2>2, <1>2 DEF IInv, HeldOrder
    <2> QED BY SMTT(30), <2>1, <2>2, <1>7
  <1>16. FinishedOrder'
    <2> SUFFICES ASSUME NEW k \in Lanes, NEW m \in DOMAIN finished[k]
                 PROVE  /\ finished[k][m][2] < i[finished[k][m][1]]
                        /\ \A n \in DOMAIN input'[k] : Before(finished[k][m], input'[k][n])
                        /\ \A h \in Tasks : worker'[h] = "process" /\ LaneOf(h) = k
                              => Before(finished[k][m], task'[h])
      BY ZenonT(30), <1>1, <1>5 DEF FinishedOrder, Before
    <2>1. /\ finished[k][m][2] < i[finished[k][m][1]]
          /\ \A n \in DOMAIN input[k] : Before(finished[k][m], input[k][n])
          /\ \A h \in Tasks : worker[h] = "process" /\ LaneOf(h) = k
                => Before(finished[k][m], task[h])
      BY DEF IInv, FinishedOrder
    <2>2. \A n \in DOMAIN input'[k] : Before(finished[k][m], input'[k][n])
      BY SMTT(30), <2>1, <1>11
    <2>3. ASSUME NEW h \in Tasks, worker'[h] = "process", LaneOf(h) = k
          PROVE  Before(finished[k][m], task'[h])
      BY <2>1, <2>3, <1>2, <1>3, <1>7
    <2> QED BY <2>1, <2>2, <2>3
  <1>17. Counted' /\ Answered'
    BY <1>1, AnswersStay
  <1> QED
    BY SMTT(30), <1>8, <1>9, <1>10, <1>12, <1>13, <1>14, <1>15, <1>16, <1>17 DEF IInv

\* The worker answers the task it holds, which nobody else can hold.
LEMMA ProcessStep ==
    ASSUME IInv, NEW g \in Tasks, Process(g)
    PROVE  IInv'
  <1> DEFINE l == LaneOf(g)
             x == task[g]
             c == x[1]
  <1>0. /\ worker[g] = "process" /\ Pending(x, l) /\ l \in Lanes
        /\ x \in Tasks /\ c \in Callers /\ x = <<c, x[2]>>
    BY LaneExists, TaskParts DEF Process, IInv, Workers, Alive, Held, Pending, Valid
  <1>1. PICK r \in Results : err' = [err EXCEPT ![x] = r]
    BY ZenonT(30) DEF Process
  <1>2. /\ UNCHANGED <<request, pc, i, response, running, input>>
        /\ wg' = [wg EXCEPT ![c] = @ - 1]
        /\ finished' = [finished EXCEPT ![l] = Append(@, x)]
        /\ worker' = [worker EXCEPT ![g] = "select"]
        /\ task' = [task EXCEPT ![g] = NoTask]
    BY DEF Process
  <1>3. /\ finished[l] \in Seq(Tasks)
        /\ finished'[l] = Append(finished[l], x)
        /\ \A k \in Lanes : k # l => finished'[k] = finished[k]
        /\ LaneOf(g) = l
    BY <1>0, <1>2 DEF IInv, Shape
  <1>3a. task[g] = x
    BY ZenonT(30)
  <1> HIDE DEF l, x, c
  <1>4. /\ finished'[l] \in Seq(Tasks)
        /\ DOMAIN finished'[l] = 1 .. Len(finished[l]) + 1
        /\ DOMAIN finished[l] = 1 .. Len(finished[l])
        /\ Len(finished[l]) \in Nat
        /\ \A n \in DOMAIN finished[l] : finished'[l][n] = finished[l][n]
        /\ finished'[l][Len(finished[l]) + 1] = x
    BY <1>0, <1>3, AppendFacts
  <1>5. \A h : LaneOf(h)' = LaneOf(h)
    BY <1>2 DEF LaneOf
  <1>6. \A h \in Tasks : worker'[h] = "process" =>
            worker[h] = "process" /\ task'[h] = task[h] /\ LaneOf(h) # l
    BY <1>0, <1>2, <1>3, ZenonT(30) DEF IInv, Shape, OneWorkerPerLane, Alive
  <1>7. \A u \in Tasks : u # x => err'[u] = err[u]
    BY <1>1 DEF IInv, Shape
  <1>7a. err'[x] \in Results /\ err[x] = "unset" /\ "unset" \notin Results
    BY <1>0, <1>1 DEF IInv, Shape, Pending, Results
  <1>8. \A k \in Lanes : \A n \in DOMAIN input[k] : input[k][n] # x /\ input[k][n] \in Tasks
    <2> SUFFICES ASSUME NEW k \in Lanes, NEW n \in DOMAIN input[k]
                 PROVE  input[k][n] # x /\ input[k][n] \in Tasks
      OBVIOUS
    <2>1. Pending(input[k][n], k)
      BY DEF IInv, Queued
    <2>2. CASE k = l
      <3>1. Before(x, input[k][n])
        BY <2>2, <1>0, <1>3, <1>3a DEF IInv, HeldOrder
      <3>2. x[2] \in Nat
        BY ZenonT(30), <1>0, TaskParts
      <3> QED BY SMTT(30), <3>1, <3>2, <2>1 DEF Before, Pending, Valid
    <2>3. CASE k # l
      BY <2>3, <2>1, <1>0 DEF Pending, Valid
    <2> QED BY <2>2, <2>3
  <1>9. \A d \in Callers : c = d => x[2] \in Outstanding(d)
    <2>1. x[2] \in 1 .. Len(request[c])
      <3>1. x[2] \in 1 .. MaxEvents /\ Len(request[c]) \in Nat
        BY <1>0, TaskParts, RequestIsSeq DEF IInv
      <3> QED BY <3>1, <1>0, MaxEventsNatural DEF Pending, Valid, c
    <2> QED BY <2>1, <1>0, <1>7a DEF Outstanding
  <1>10. \A d \in Callers : IsFiniteSet(Outstanding(d))
    <2> TAKE d \in Callers
    <2>1. IsFiniteSet(1 .. Len(request[d]))
      BY RequestIsSeq, FS_Interval DEF IInv
    <2> QED BY <2>1, FS_Subset, ZenonT(30) DEF Outstanding
  <1>11. \A d \in Callers, n \in 1 .. MaxEvents :
            d # c => err'[<<d, n>>] = err[<<d, n>>]
    BY SMTT(30), <1>0, <1>7 DEF Tasks
  <1>12. Counted' /\ wg' \in [Callers -> Nat]
    <2>1. ASSUME NEW d \in Callers, d # c
          PROVE  wg'[d] = Cardinality(Outstanding(d)')
      <3>1. Outstanding(d)' = Outstanding(d)
        BY SMTT(30), <2>1, <1>2, <1>11, RequestIsSeq, MaxEventsNatural DEF Outstanding, IInv
      <3> QED BY SMTT(30), <2>1, <3>1, <1>2 DEF IInv, Counted, Shape
    <2>2. ASSUME NEW d \in Callers, d = c
          PROVE  wg'[d] = Cardinality(Outstanding(d)') /\ wg'[d] \in Nat
      <3>1. {n \in 1 .. Len(request[c]) : err'[<<c, n>>] = "unset"} = Outstanding(c) \ {x[2]}
        <4>1. ASSUME NEW n \in 1 .. Len(request[c]), n # x[2]
              PROVE  err'[<<c, n>>] = err[<<c, n>>]
          <5>1. <<c, n>> \in Tasks
            BY <1>0, RequestIsSeq, MaxEventsNatural DEF Tasks, IInv
          <5>2. <<c, n>> # x
            BY <1>0, <4>1
          <5> QED BY SMTT(30), <5>1, <5>2, <1>7
        <4>2. err'[<<c, x[2]>>] # "unset"
          BY <1>0, <1>7a
        <4> QED BY <4>1, <4>2 DEF Outstanding
      <3>2. Cardinality(Outstanding(c) \ {x[2]}) = Cardinality(Outstanding(c)) - 1
        BY <1>0, <1>9, <1>10, FS_RemoveElement, ZenonT(30)
      <3>3. Cardinality(Outstanding(c) \ {x[2]}) \in Nat
        BY ZenonT(30), <1>0, <1>10, FS_RemoveElement, FS_CardinalityType
      <3>4. wg'[c] = Cardinality(Outstanding(c)) - 1
        BY ZenonT(30), <1>0, <1>2 DEF IInv, Counted, Shape
      <3>5. Outstanding(d)' = Outstanding(c) \ {x[2]}
        BY <3>1, <2>2, <1>2 DEF Outstanding
      <3> QED BY SMTT(30), <3>2, <3>3, <3>4, <3>5, <2>2
    <2> QED BY SMTT(30), <2>1, <2>2, <1>0, <1>2 DEF IInv, Counted, Shape
  <1>13. Shape'
    <2>1. finished' \in [Lanes -> Seq(Tasks)]
      BY <1>0, <1>2, <1>4, <1>3 DEF IInv, Shape
    <2>2. err' \in [Tasks -> Results \union {"unset"}]
      BY ZenonT(30), <1>0, <1>1 DEF IInv, Shape
    <2> QED BY ZenonT(30), <2>1, <2>2, <1>12, <1>2 DEF IInv, Shape
  <1>14. Workers' /\ OneWorkerPerLane' /\ Sending'
    <2>1. Workers' /\ OneWorkerPerLane'
      BY SMTT(30), <1>0, <1>2, WorkersStay DEF IInv, Shape
    <2> QED BY ZenonT(30), <2>1, <1>2 DEF IInv, Sending
  <1>15. Unsent'
    <2>1. x[2] < i[x[1]] /\ x[2] \in Nat /\ i[x[1]] \in Nat
      BY <1>0, TaskParts, MaxEventsNatural, SMTT(30) DEF Pending, IInv, Shape, c
    <2> QED BY SMTT(30), <2>1, <1>2, <1>7 DEF IInv, Unsent
  <1>16. Queued'
    <2> SUFFICES ASSUME NEW k \in Lanes, NEW n \in DOMAIN input[k]
                 PROVE  Pending(input[k][n], k)'
      BY <1>2 DEF Queued
    <2>1. Pending(input[k][n], k) /\ err'[input[k][n]] = err[input[k][n]]
      BY ZenonT(30), <1>7, <1>8 DEF IInv, Queued
    <2> QED BY ZenonT(30), <2>1, <1>2, <1>5 DEF Pending, Valid
  <1>17. Held'
    <2> SUFFICES ASSUME NEW h \in Tasks, worker'[h] = "process"
                 PROVE  Pending(task[h], LaneOf(h))'
      BY SMTT(30) DEF Held
    <2>1. Pending(task[h], LaneOf(h)) /\ task'[h] = task[h] /\ LaneOf(h) # l
      BY SMTT(30), <1>6 DEF IInv, Held
    <2>2. task[h] # x /\ task[h] \in Tasks
      BY SMTT(30), <2>1, <1>0 DEF Pending, Valid
    <2> QED BY SMTT(30), <2>1, <2>2, <1>2, <1>5, <1>7 DEF Pending, Valid
  <1>18. QueueOrder'
    BY <1>2 DEF IInv, QueueOrder, Before
  <1>19. HeldOrder'
    <2> SUFFICES ASSUME NEW h \in Tasks, worker'[h] = "process",
                        NEW n \in DOMAIN input[LaneOf(h)]
                 PROVE  Before(task'[h], input[LaneOf(h)][n])
      BY SMTT(30), <1>2, <1>5 DEF HeldOrder, Before
    <2> QED BY ZenonT(30), <1>6 DEF IInv, HeldOrder
  <1>20. \A k \in Lanes : \A m \in DOMAIN finished'[k] :
            \/ m \in DOMAIN finished[k] /\ finished'[k][m] = finished[k][m]
            \/ k = l /\ m = Len(finished[l]) + 1 /\ finished'[k][m] = x
    BY <1>3, <1>4, SMTT(30)
  <1>21. FinishedOrder'
    <2>0. i' = i /\ input' = input
      BY <1>2
    <2> SUFFICES ASSUME NEW k \in Lanes, NEW m \in DOMAIN finished'[k]
                 PROVE  /\ finished'[k][m][2] < i[finished'[k][m][1]]
                        /\ \A n \in DOMAIN input[k] : Before(finished'[k][m], input[k][n])
                        /\ \A h \in Tasks : worker'[h] = "process" /\ LaneOf(h) = k
                              => Before(finished'[k][m], task'[h])
      BY <2>0, <1>5, ZenonT(30) DEF FinishedOrder, Before
    <2>1. CASE m \in DOMAIN finished[k] /\ finished'[k][m] = finished[k][m]
      BY ZenonT(30), <2>1, <1>6 DEF IInv, FinishedOrder
    <2>2. CASE k = l /\ finished'[k][m] = x
      <3>1. \A n \in DOMAIN input[l] : Before(x, input[l][n])
        BY <1>0, <1>3, <1>3a DEF IInv, HeldOrder
      <3> QED BY ZenonT(30), <2>2, <3>1, <1>0, <1>6 DEF Pending
    <2>3. \/ m \in DOMAIN finished[k] /\ finished'[k][m] = finished[k][m]
          \/ k = l /\ finished'[k][m] = x
      BY <1>20, ZenonT(30)
    <2> QED BY <2>1, <2>2, <2>3, ZenonT(30)
  <1>22. RequestOrder'
    <2> SUFFICES ASSUME NEW k \in Lanes, NEW m \in DOMAIN finished'[k], NEW n \in DOMAIN finished'[k],
                        m < n
                 PROVE  Before(finished'[k][m], finished'[k][n])
      BY SMTT(30) DEF RequestOrder, Before
    <2>1. CASE k # l
      BY <2>1, <1>3 DEF IInv, RequestOrder, Before
    <2>2. CASE k = l /\ n \in DOMAIN finished[l]
      <3>1. m \in DOMAIN finished[l]
        BY SMTT(30), <2>2, <1>4
      <3> QED BY <2>2, <3>1, <1>0, <1>4, ZenonT(30) DEF IInv, RequestOrder, Before
    <2>3. CASE k = l /\ n = Len(finished[l]) + 1
      <3>1. m \in DOMAIN finished[l] /\ finished'[k][m] = finished[l][m] /\ finished'[k][n] = x
        BY <2>3, <1>4
      <3> QED BY SMTT(30), <3>1, <1>0, <1>3, <1>3a DEF IInv, FinishedOrder
    <2> QED BY SMTT(30), <2>1, <2>2, <2>3, <1>4
  <1>23. Answered'
    <2> SUFFICES ASSUME NEW d \in Callers, pc[d] = "returned"
                 PROVE  wg'[d] = 0 /\ Answers(d, response[d])'
      BY <1>2 DEF Answered
    <2>1. wg[d] = 0 /\ Answers(d, response[d])
      BY DEF IInv, Answered
    <2>2. d # c
      <3>1. Outstanding(d) = {}
        BY SMTT(30), <2>1, <1>10, FS_EmptySet DEF IInv, Counted
      <3> QED BY SMTT(30), <3>1, <1>9
    <2>3. wg'[d] = 0
      BY SMTT(30), <2>1, <2>2, <1>2 DEF IInv, Shape
    <2>4. \A n \in 1 .. Len(request[d]) : err'[<<d, n>>] = err[<<d, n>>]
      BY SMTT(30), <2>2, <1>11, RequestIsSeq, MaxEventsNatural DEF IInv
    <2>5. Len(request[d]) \in Nat
      BY RequestIsSeq, SMTT(30) DEF IInv
    <2>6. Answers(d, response[d])'
      <3>1. request' = request /\ response' = response
        BY <1>2
      <3>2. CASE response[d] = "ok" /\ \A t \in TasksOf(d) : err[t] = "ok"
        <4>1. \A t \in TasksOf(d) : err'[t] = "ok"
          BY <2>4, <3>2, ZenonT(30) DEF TasksOf
        <4> QED BY <3>1, <3>2, <4>1, ZenonT(30) DEF Answers, TasksOf
      <3>3. ASSUME NEW n \in 1 .. Len(request[d]), response[d] = err[<<d, n>>], response[d] # "ok",
                   \A m \in 1 .. n - 1 : err[<<d, m>>] = "ok"
            PROVE  Answers(d, response[d])'
        <4>1. \A m \in 1 .. n - 1 : m \in 1 .. Len(request[d])
          BY <2>5
        <4>2. response[d] = err'[<<d, n>>] /\ \A m \in 1 .. n - 1 : err'[<<d, m>>] = "ok"
          BY <2>4, <3>3, <4>1, ZenonT(30)
        <4> QED BY <3>1, <3>3, <4>2, ZenonT(30) DEF Answers
      <3> QED BY <2>1, <3>2, <3>3, ZenonT(30) DEF Answers
    <2> QED BY <2>3, <2>6
  <1> QED
    BY ZenonT(30), <1>12, <1>13, <1>14, <1>15, <1>16, <1>17, <1>18, <1>19, <1>21, <1>22, <1>23 DEF IInv

\* The idle timer fires.
LEMMA IdleTimeoutStep ==
    ASSUME IInv, NEW g \in Tasks, IdleTimeout(g)
    PROVE  IInv'
  <1>1. /\ UNCHANGED <<request, pc, i, wg, err, response, running, input, task, finished>>
        /\ worker[g] = "select" /\ worker' = [worker EXCEPT ![g] = "stop"]
    BY SMTT(30) DEF IdleTimeout
  <1>2. Shape' /\ Sending'
    BY <1>1 DEF IInv, Shape, Sending
  <1>3. \A h \in Tasks : /\ worker'[h] = "process" => worker[h] = "process"
                         /\ worker'[h] # "none" => worker[h] # "none"
    BY SMTT(30), <1>1 DEF IInv, Shape
  <1> QED
    BY SMTT(30), <1>1, <1>2, <1>3, TasksStay, AnswersStay, WorkersStay DEF IInv

\* The worker clears `running' of its lane, which no other worker needs.
LEMMA StopStep ==
    ASSUME IInv, NEW g \in Tasks, Stop(g)
    PROVE  IInv'
  <1>0. Alive(g) /\ Valid(g) /\ LaneOf(g) \in Lanes
    BY LaneExists DEF Stop, IInv, Workers, Alive
  <1>1. /\ UNCHANGED <<request, pc, i, wg, err, response, input, task, finished>>
        /\ running' = [running EXCEPT ![LaneOf(g)] = FALSE]
        /\ worker' = [worker EXCEPT ![g] = "none"]
    BY SMTT(30) DEF Stop
  <1>2. Shape' /\ Sending'
    BY <1>0, <1>1 DEF IInv, Shape, Sending
  <1>3. \A h \in Tasks : /\ worker'[h] = "process" => worker[h] = "process"
                         /\ worker'[h] # "none" => worker[h] # "none" /\ h # g
    BY ZenonT(30), <1>1 DEF IInv, Shape
  <1>4. OneWorkerPerLane'
    BY SMTT(30), <1>1, <1>3 DEF IInv, OneWorkerPerLane, Alive, LaneOf
  <1>5. Workers'
    <2> SUFFICES ASSUME NEW h \in Tasks, worker'[h] # "none"
                 PROVE  Valid(h) /\ running'[LaneOf(h)]
      BY ZenonT(30), <1>1 DEF Workers, Alive, Valid, LaneOf
    <2>1. Valid(h) /\ running[LaneOf(h)] /\ LaneOf(h) # LaneOf(g)
      BY <1>0, <1>3 DEF IInv, Workers, OneWorkerPerLane, Alive
    <2> QED BY <2>1, <1>1, LaneExists, SMTT(30) DEF IInv, Shape
  <1> QED
    BY SMTT(30), <1>1, <1>2, <1>3, <1>4, <1>5, TasksStay, AnswersStay DEF IInv

-----------------------------------------------------------------------------
(* Theorems.                                                               *)

\* Every step keeps the invariant.
LEMMA NextIInv == IInv /\ [Next]_vars => IInv'
  <1> SUFFICES ASSUME IInv, [Next]_vars PROVE IInv'
    OBVIOUS
  <1>1. ASSUME NEW c \in Callers, CallerStep(c) PROVE IInv'
    BY <1>1, EnsureWorkerStep, SendTaskStep, BeginWaitStep, ReturnStep DEF CallerStep
  <1>2. ASSUME NEW g \in Tasks, WorkerStep(g) PROVE IInv'
    BY ZenonT(30), <1>2, ReceiveStep, ProcessStep, IdleTimeoutStep, StopStep DEF WorkerStep
  <1>3. CASE UNCHANGED vars
    <2>1. Shape' /\ Sending'
      BY <1>3 DEF vars, IInv, Shape, Sending
    <2> QED BY ZenonT(30), <1>3, <2>1, TasksStay, AnswersStay, WorkersStay DEF vars, IInv
  <1> QED
    BY <1>1, <1>2, <1>3 DEF Next

\* Every reachable state satisfies the inductive invariant.
LEMMA Invariance == Spec => []IInv
  BY InitIInv, NextIInv, PTL DEF Spec

\* "processRoomEvent can only be called once at a time": at no time do two
\* goroutines serve one lane, however calls, idle timeouts and restarts of
\* the worker interleave.
THEOREM ProcessedOneAtATime == Spec => []OneWorkerPerLane
  BY Invariance, PTL DEF IInv

\* The events of a request are processed in the request's order, lane by
\* lane, whoever else sends to the lane.
THEOREM ProcessedInOrder == Spec => []RequestOrder
  BY Invariance, PTL DEF IInv

\* A call that returns has a result for each of its events, reports the first
\* error among them, and has left nothing behind in any channel or worker:
\* the wait group counts exactly the events without a result.
THEOREM ReturnsComplete == Spec => []ReturnsWhenAllDone
  <1>1. IInv => ReturnsWhenAllDone
    <2> SUFFICES ASSUME IInv, NEW c \in Callers, pc[c] = "returned"
                 PROVE  /\ \A t \in TasksOf(c) : err[t] # "unset"
                        /\ Answers(c, response[c])
                        /\ \A g \in Tasks : worker[g] = "process" => task[g][1] # c
                        /\ \A l \in Lanes : \A n \in DOMAIN input[l] : input[l][n][1] # c
      BY SMTT(30) DEF ReturnsWhenAllDone
    <2>1. wg[c] = 0 /\ Answers(c, response[c])
      BY SMTT(30) DEF IInv, Answered
    <2>2. Outstanding(c) = {}
      <3>1. IsFiniteSet(1 .. Len(request[c]))
        BY RequestIsSeq, FS_Interval DEF IInv
      <3>2. IsFiniteSet(Outstanding(c))
        BY <3>1, FS_Subset, ZenonT(30) DEF Outstanding
      <3> QED BY SMTT(30), <2>1, <3>2, FS_EmptySet DEF IInv, Counted
    <2>3. \A t \in TasksOf(c) : err[t] # "unset"
      BY <2>2 DEF Outstanding, TasksOf
    <2>4. ASSUME NEW t, NEW l, Pending(t, l) PROVE t[1] # c
      <3>1. t \in Tasks /\ t = <<t[1], t[2]>> /\ t[2] \in 1 .. MaxEvents
        BY <2>4, TaskParts DEF Pending, Valid
      <3>2. t[1] = c => t[2] \in 1 .. Len(request[c])
        BY SMTT(30), <3>1, <2>4, RequestIsSeq, MaxEventsNatural DEF Pending, Valid, IInv
      <3> QED BY SMTT(30), <3>1, <3>2, <2>4, <2>2 DEF Pending, Outstanding
    <2>5. \A g \in Tasks : worker[g] = "process" => task[g][1] # c
      BY <2>4 DEF IInv, Held
    <2>6. \A l \in Lanes : \A n \in DOMAIN input[l] : input[l][n][1] # c
      BY SMTT(30), <2>4 DEF IInv, Queued
    <2> QED BY SMTT(30), <2>1, <2>3, <2>5, <2>6
  <1> QED
    BY <1>1, Invariance, PTL

\* Every variable keeps its type; in particular Done is never called on a wait
\* group that is at zero, nor Add past the number of events of a request.
THEOREM Typed == Spec => []TypeOK
  <1>1. IInv => TypeOK
    <2> SUFFICES ASSUME IInv PROVE TypeOK
      OBVIOUS
    <2>1. ASSUME NEW c \in Callers PROVE wg[c] \in 0 .. MaxEvents
      <3>1. /\ Len(request[c]) \in 0 .. MaxEvents /\ Len(request[c]) \in Nat
            /\ wg[c] = Cardinality(Outstanding(c)) /\ wg[c] \in Nat
        BY RequestIsSeq DEF IInv, Counted, Shape
      <3>2. IsFiniteSet(1 .. Len(request[c])) /\ Cardinality(1 .. Len(request[c])) = Len(request[c])
        <4>1. 1 \in Int /\ Len(request[c]) \in Int
          BY <3>1
        <4>2. /\ IsFiniteSet(1 .. Len(request[c]))
              /\ Cardinality(1 .. Len(request[c])) =
                   IF 1 > Len(request[c]) THEN 0 ELSE Len(request[c]) - 1 + 1
          BY ZenonT(30), <4>1, FS_Interval
        <4> QED BY <3>1, <4>2
      <3>3. Outstanding(c) \subseteq 1 .. Len(request[c])
        BY DEF Outstanding
      <3>4. Cardinality(Outstanding(c)) <= Cardinality(1 .. Len(request[c]))
        BY <3>2, <3>3, FS_Subset
      <3> QED BY SMTT(30), <3>1, <3>2, <3>4, MaxEventsNatural
    <2> QED BY <2>1 DEF IInv, Shape, TypeOK
  <1> QED
    BY <1>1, Invariance, PTL
=============================================================================
