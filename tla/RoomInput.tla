------------------------------ MODULE RoomInput ------------------------------
(***************************************************************************)
(* How the roomserver feeds room events to processRoomEvent:               *)
(* roomserver/internal/input/input.go.  InputRoomEvents turns each event   *)
(* of a request into a task, makes sure that the room has a worker, sends  *)
(* the task down the worker's buffered channel and waits on a wait group.  *)
(* A worker (inputWorker.start) is a goroutine that serves the channel and *)
(* returns after five idle seconds; `running', changed by a compare-and-   *)
(* swap and by a deferred Store(false), says whether a room has one.       *)
(*                                                                         *)
(* A database that cannot take concurrent room inputs (SQLite) has one     *)
(* worker for all rooms, so tasks travel in lanes: a room's own, or        *)
(* "global".  A worker goroutine is named after the task whose dispatch    *)
(* started it, which is unique.                                            *)
(***************************************************************************)
EXTENDS Integers, Sequences, FiniteSets

CONSTANTS
    Callers,      \* calls of InputRoomEvents, each served by its own goroutine
    Rooms,        \* room IDs
    Concurrent,   \* Database.SupportsConcurrentRoomInputs()
    Capacity,     \* of a worker's channel: 32 in the code
    MaxEvents     \* bound: events in one request

ASSUME CapacityPositive == Capacity \in Nat \ {0}
ASSUME MaxEventsNatural == MaxEvents \in Nat
ASSUME ConcurrentBoolean == Concurrent \in BOOLEAN

VARIABLES
    request,      \* request[c]: the rooms of the events of c's request, in order
    pc,           \* where c is: "next", "send", "wait", "returned"
    i,            \* i[c]: the event c dispatches next
    wg,           \* wg[c]: the counter of c's wait group
    err,          \* err[t]: what the worker wrote into task t, "unset" before
    response,     \* response[c]: what the call answered
    running,      \* running[l]: the worker's atomic flag
    input,        \* input[l]: the worker's channel
    worker,       \* worker[g]: phase of goroutine g: "none", "select", "process", "stop"
    task,         \* task[g]: the task goroutine g is processing
    finished      \* finished[l]: history, the tasks of the lane in order of completion

vars == <<request, pc, i, wg, err, response, running, input, worker, task, finished>>

Lanes == IF Concurrent THEN Rooms ELSE {"global"}
Lane(room) == IF Concurrent THEN room ELSE "global"

Tasks == Callers \X (1 .. MaxEvents)
Results == {"ok", "failed", "rejected"}
NoTask == <<>>

LaneOf(t) == Lane(request[t[1]][t[2]])
TasksOf(c) == {<<c, n>> : n \in 1 .. Len(request[c])}

\* The room IDs of the events of a request.
Requests == UNION {[1 .. n -> Rooms] : n \in 0 .. MaxEvents}

Init ==
    /\ request \in [Callers -> Requests]
    /\ pc = [c \in Callers |-> "next"]
    /\ i = [c \in Callers |-> 1]
    /\ wg = [c \in Callers |-> Len(request[c])]
    /\ err = [t \in Tasks |-> "unset"]
    /\ response = [c \in Callers |-> "none"]
    /\ running = [l \in Lanes |-> FALSE]
    /\ input = [l \in Lanes |-> <<>>]
    /\ worker = [g \in Tasks |-> "none"]
    /\ task = [g \in Tasks |-> NoTask]
    /\ finished = [l \in Lanes |-> <<>>]

-----------------------------------------------------------------------------
(* InputRoomEvents, run by caller c.                                       *)

\* A CAS that does not look at the old value: every dispatch starts a worker.
EnsureWorker_NoCAS(c) ==
    LET t == <<c, i[c]>>
    IN  /\ pc[c] = "next"
        /\ i[c] <= Len(request[c])
        /\ running' = [running EXCEPT ![LaneOf(t)] = TRUE]
        /\ worker' = [worker EXCEPT ![t] = "select"]
        /\ pc' = [pc EXCEPT ![c] = "send"]
        /\ UNCHANGED <<request, i, wg, err, response, input, task, finished>>

\* LoadOrStore, then running.CAS(false, true) and `go worker.start()' when it
\* succeeds.  The worker of a lane is one object: LoadOrStore is atomic.
EnsureWorker(c) ==
    LET t == <<c, i[c]>>
        started == ~running[LaneOf(t)]
    IN  /\ pc[c] = "next"
        /\ i[c] <= Len(request[c])
        /\ running' = [running EXCEPT ![LaneOf(t)] = TRUE]
        /\ worker' = IF started THEN [worker EXCEPT ![t] = "select"] ELSE worker
        /\ pc' = [pc EXCEPT ![c] = "send"]
        /\ UNCHANGED <<request, i, wg, err, response, input, task, finished>>

\* A channel that lets the newest task overtake the ones that wait.
SendTask_Front(c) ==
    LET t == <<c, i[c]>>
        l == LaneOf(t)
    IN  /\ pc[c] = "send"
        /\ Len(input[l]) < Capacity
        /\ input' = [input EXCEPT ![l] = <<t>> \o @]
        /\ i' = [i EXCEPT ![c] = @ + 1]
        /\ pc' = [pc EXCEPT ![c] = "next"]
        /\ UNCHANGED <<request, wg, err, response, running, worker, task, finished>>

\* worker.input <- tasks[i]: blocks while the channel is full.
SendTask(c) ==
    LET t == <<c, i[c]>>
        l == LaneOf(t)
    IN  /\ pc[c] = "send"
        /\ Len(input[l]) < Capacity
        /\ input' = [input EXCEPT ![l] = Append(@, t)]
        /\ i' = [i EXCEPT ![c] = @ + 1]
        /\ pc' = [pc EXCEPT ![c] = "next"]
        /\ UNCHANGED <<request, wg, err, response, running, worker, task, finished>>

\* All events are dispatched: on to wg.Wait().
BeginWait(c) ==
    /\ pc[c] = "next"
    /\ i[c] > Len(request[c])
    /\ pc' = [pc EXCEPT ![c] = "wait"]
    /\ UNCHANGED <<request, i, wg, err, response, running, input, worker, task, finished>>

\* The answer to a request is the error of its first task that has one.
Answers(c, r) ==
    \/ r = "ok" /\ \A t \in TasksOf(c) : err[t] = "ok"
    \/ \E n \in 1 .. Len(request[c]) :
           /\ r = err[<<c, n>>] /\ r # "ok"
           /\ \A m \in 1 .. n - 1 : err[<<c, m>>] = "ok"

\* wg.Wait() returns and the errors are read.
Return(c) ==
    /\ pc[c] = "wait"
    /\ wg[c] = 0
    /\ \E r \in Results : Answers(c, r) /\ response' = [response EXCEPT ![c] = r]
    /\ pc' = [pc EXCEPT ![c] = "returned"]
    /\ UNCHANGED <<request, i, wg, err, running, input, worker, task, finished>>

-----------------------------------------------------------------------------
(* inputWorker.start, run by goroutine g.                                  *)

\* wg.Done() as soon as the task is taken.
Receive_Done(g) ==
    LET l == LaneOf(g)
    IN  /\ worker[g] = "select"
        /\ input[l] # <<>>
        /\ task' = [task EXCEPT ![g] = Head(input[l])]
        /\ wg' = [wg EXCEPT ![Head(input[l])[1]] = @ - 1]
        /\ input' = [input EXCEPT ![l] = Tail(@)]
        /\ worker' = [worker EXCEPT ![g] = "process"]
        /\ UNCHANGED <<request, pc, i, err, response, running, finished>>

\* case task := <-w.input
Receive(g) ==
    LET l == LaneOf(g)
    IN  /\ worker[g] = "select"
        /\ input[l] # <<>>
        /\ task' = [task EXCEPT ![g] = Head(input[l])]
        /\ input' = [input EXCEPT ![l] = Tail(@)]
        /\ worker' = [worker EXCEPT ![g] = "process"]
        /\ UNCHANGED <<request, pc, i, wg, err, response, running, finished>>

\* processRoomEvent returns, its result is written to the task and Done is
\* called; what it does to the room is the subject of module RoomEvents.
Process(g) ==
    LET t == task[g]
    IN  /\ worker[g] = "process"
        /\ \E r \in Results : err' = [err EXCEPT ![t] = r]
        /\ wg' = [wg EXCEPT ![t[1]] = @ - 1]
        /\ finished' = [finished EXCEPT ![LaneOf(g)] = Append(@, t)]
        /\ worker' = [worker EXCEPT ![g] = "select"]
        /\ task' = [task EXCEPT ![g] = NoTask]
        /\ UNCHANGED <<request, pc, i, response, running, input>>

\* The idle timer wins the select even though tasks are queued.
IdleTimeout_Busy(g) ==
    /\ worker[g] = "select"
    /\ worker' = [worker EXCEPT ![g] = "stop"]
    /\ UNCHANGED <<request, pc, i, wg, err, response, running, input, task, finished>>

\* case <-time.After(5s): the select had nothing to receive until the timer
\* fired.  The deferred Store(false) has yet to run.
IdleTimeout(g) ==
    /\ worker[g] = "select"
    /\ input[LaneOf(g)] = <<>>
    /\ worker' = [worker EXCEPT ![g] = "stop"]
    /\ UNCHANGED <<request, pc, i, wg, err, response, running, input, task, finished>>

\* defer w.running.Store(false)
Stop(g) ==
    /\ worker[g] = "stop"
    /\ running' = [running EXCEPT ![LaneOf(g)] = FALSE]
    /\ worker' = [worker EXCEPT ![g] = "none"]
    /\ UNCHANGED <<request, pc, i, wg, err, response, input, task, finished>>

-----------------------------------------------------------------------------
CallerStep(c) == EnsureWorker(c) \/ SendTask(c) \/ BeginWait(c) \/ Return(c)
WorkerStep(g) == Receive(g) \/ Process(g) \/ IdleTimeout(g) \/ Stop(g)

Next ==
    \/ \E c \in Callers : CallerStep(c)
    \/ \E g \in Tasks : WorkerStep(g)

Spec == Init /\ [][Next]_vars

\* Goroutines are scheduled, processRoomEvent returns and the idle timer
\* fires if nothing arrives.
Fairness ==
    /\ \A c \in Callers : WF_vars(CallerStep(c))
    /\ \A g \in Tasks : WF_vars(WorkerStep(g))

FairSpec == Spec /\ Fairness

-----------------------------------------------------------------------------
(* Properties.                                                             *)

Alive(g) == worker[g] # "none"

\* Types; wait group counters never go below zero, channels never overflow.
TypeOK ==
    /\ request \in [Callers -> Seq(Rooms)]
    /\ \A c \in Callers : Len(request[c]) <= MaxEvents
    /\ pc \in [Callers -> {"next", "send", "wait", "returned"}]
    /\ i \in [Callers -> 1 .. MaxEvents + 1]
    /\ wg \in [Callers -> 0 .. MaxEvents]
    /\ err \in [Tasks -> Results \union {"unset"}]
    /\ response \in [Callers -> Results \union {"none"}]
    /\ running \in [Lanes -> BOOLEAN]
    /\ input \in [Lanes -> Seq(Tasks)]
    /\ \A l \in Lanes : Len(input[l]) <= Capacity
    /\ worker \in [Tasks -> {"none", "select", "process", "stop"}]
    /\ task \in [Tasks -> Tasks \union {NoTask}]
    /\ finished \in [Lanes -> Seq(Tasks)]

\* "processRoomEvent can only be called once at a time": whatever the order
\* of dispatches, idle timeouts and restarts, no two goroutines ever serve
\* the same lane.
OneWorkerPerLane ==
    \A g, h \in Tasks :
        /\ Alive(g) /\ Alive(h)
        /\ LaneOf(g) = LaneOf(h)
        => g = h

\* The events of one request that go to the same lane are processed in the
\* order of the request: a caller sends the auth and state events of a join
\* ahead of the join itself and relies on it.
RequestOrder ==
    \A l \in Lanes : \A m, n \in DOMAIN finished[l] :
        m < n /\ finished[l][m][1] = finished[l][n][1]
        => finished[l][m][2] < finished[l][n][2]

\* "written back by worker, only safe to read when all tasks are done": a
\* caller past wg.Wait() sees a result in every one of its tasks, and none
\* of them is with a worker or in a channel any more.
ReturnsWhenAllDone ==
    \A c \in Callers : pc[c] = "returned" =>
        /\ \A t \in TasksOf(c) : err[t] # "unset"
        /\ Answers(c, response[c])
        /\ \A g \in Tasks : worker[g] = "process" => task[g][1] # c
        /\ \A l \in Lanes : \A n \in DOMAIN input[l] : input[l][n][1] # c

\* A queued task is processed if its lane has a worker that has not yet
\* decided to stop: no later dispatch and no idle timer takes that away.
ServedLaneDrains ==
    \A c \in Callers, n \in 1 .. MaxEvents :
        LET t == <<c, n>> IN
        (/\ n <= Len(request[c])
         /\ \E k \in DOMAIN input[LaneOf(t)] : input[LaneOf(t)][k] = t
         /\ \E g \in Tasks : worker[g] \in {"select", "process"} /\ LaneOf(g) = LaneOf(t))
        ~> (n <= Len(request[c]) => err[t] # "unset")

\* "Each task that we dispatch will call Done on this wait group so that we
\* know when all of our events have been processed": a waiting call returns.
\* The code does not keep this: a worker that has decided to stop but has not
\* yet said so leaves the task of the call in its channel.
EveryCallReturns ==
    \A c \in Callers : pc[c] = "wait" ~> pc[c] = "returned"

=============================================================================
