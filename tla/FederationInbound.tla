------------------------- MODULE FederationInbound -------------------------
(***************************************************************************)
(* Transactions that other servers push (federationapi/routing/send.go),   *)
(* for ONE room: each PDU goes to the roomserver if the state after its    *)
(* prev events is known; otherwise the gap is filled with                  *)
(* /get_missing_events and with the state at the oldest event of the       *)
(* answer.  Requests are handled concurrently, each origin sends one       *)
(* transaction at a time, and sends it again if it gets no answer.         *)
(*                                                                         *)
(* The roomserver (module RoomEvents) takes an event in one step here.     *)
(* Events are well-formed, correctly signed and allowed, and every other   *)
(* server knows the whole graph and answers truthfully, if it answers.     *)
(***************************************************************************)
EXTENDS Integers, Sequences, FiniteSets

CONSTANTS
    Events,        \* event IDs
    Root,          \* the event that is known at first
    Prev, Auth,    \* prev_events and auth_events of each event
    KeyOf, NoKey,  \* state key tuple of each event; NoKey if it is not state
    Rank,          \* what state resolution prefers
    Origins,
    Transactions,  \* Transactions[o]: the sequences of PDUs that o sends, in order
    Handlers,      \* requests that are handled at a time
    None,
    Limit,         \* limit of /get_missing_events (20 in the code)
    MaxFaults      \* bound: failing queries, lost answers, events that cannot be fetched

ASSUME InboundAssumption ==
    /\ IsFiniteSet(Events) /\ Root \in Events /\ None \notin Events
    /\ Prev \in [Events -> SUBSET Events] /\ Auth \in [Events -> SUBSET Events]
    /\ Transactions \in [Origins -> Seq(Seq(Events))] /\ None \notin Handlers
    /\ Limit \in Nat \ {0} /\ MaxFaults \in Nat

\* The events before an event were there before it.
ASSUME AcyclicAssumption ==
    /\ Prev[Root] = {}
    /\ \A S \in SUBSET Events : S # {} => \E e \in S : Prev[e] \cap S = {}

\* State resolution decides between any two events with one state key.
ASSUME RankAssumption ==
    /\ Rank \in [Events -> Nat]
    /\ \A x, y \in Events : KeyOf[x] = KeyOf[y] /\ KeyOf[x] # NoKey /\ Rank[x] = Rank[y] => x = y

VARIABLES
    stored,    \* roomserver: events
    before,    \* roomserver: state before each event
    latest,    \* roomserver: forward extremities
    sent,      \* roomserver: events that were output as new ones
    next,      \* each origin: its current transaction
    waiting,   \* each origin: the handler it waits for
    handler,   \* requests in progress
    accepted,  \* history: PDUs whose result says no error
    failed,    \* history: PDUs whose result says an error
    applied,   \* history: transactions whose EDUs were applied
    holes,     \* history: events stored with a state from which events are missing
    faults

room == <<stored, before, latest, sent>>
origin == <<next, waiting>>
history == <<accepted, failed, applied, holes>>
vars == <<room, origin, handler, history, faults>>

NoState == {None}

Fault == faults < MaxFaults /\ faults' = faults + 1

IdleHandler == [pc |-> "idle", origin |-> None, txn |-> 0, todo |-> <<>>, missingAuth |-> {},
                gap |-> FALSE, new |-> <<>>, state |-> {}, hole |-> FALSE, err |-> FALSE]

-----------------------------------------------------------------------------
(* State.                                                                  *)

StateAfter(state, e) ==
    IF KeyOf[e] = NoKey THEN state ELSE {x \in state : KeyOf[x] # KeyOf[e]} \cup {e}

ResolveConflicts(states) ==
    LET all == UNION states
    IN {x \in all : \A y \in all : KeyOf[y] = KeyOf[x] => Rank[y] <= Rank[x]}

\* The state before each event, by the whole graph.
TrueBefore[e \in Events] == ResolveConflicts({StateAfter(TrueBefore[p], p) : p \in Prev[e]})

\* It is well defined: the graph has no cycles.
ASSUME StateAssumption ==
    \A e \in Events : TrueBefore[e] = ResolveConflicts({StateAfter(TrueBefore[p], p) : p \in Prev[e]})

HasState(e) == before[e] # NoState

-----------------------------------------------------------------------------
(* The roomserver.                                                         *)

Referenced(events) == UNION {Prev[e] : e \in events}

\* processRoomEvent.  The state is worked out once; an old event for which
\* that fails is kept all the same.
StateBefore(e, supplied) ==
    IF HasState(e) THEN before[e]
    ELSE IF supplied # NoState THEN supplied
    ELSE IF \A p \in Prev[e] : HasState(p)
    THEN ResolveConflicts({StateAfter(before[p], p) : p \in Prev[e]}) ELSE NoState

\* Mutant: the events of a fetched state count as known, and are not sent.
InputOldOnly(e, outliers, supplied) ==
    /\ stored' = stored \cup {e}
    /\ before' = [before EXCEPT ![e] = StateBefore(e, supplied)]
    /\ UNCHANGED <<latest, sent>>

InputOld(e, outliers, supplied) ==
    /\ stored' = stored \cup outliers \cup {e}
    /\ before' = [before EXCEPT ![e] = StateBefore(e, supplied)]
    /\ UNCHANGED <<latest, sent>>

InputNew(e) ==
    /\ stored' = stored \cup {e}
    /\ before' = [before EXCEPT ![e] = StateBefore(e, NoState)]
    /\ sent' = sent \cup {e}
    /\ latest' = IF e \in sent \cup latest \cup Referenced(stored) THEN latest
                 ELSE (latest \ Referenced(stored \cup {e})) \cup {e}

\* processRoomEvent fails: before or after the event is stored, or after its
\* state is set and before the output is written.
InputFails(e) ==
    \/ UNCHANGED room
    \/ /\ stored' = stored \cup {e}
       /\ before' \in {before, [before EXCEPT ![e] = StateBefore(e, NoState)]}
       /\ UNCHANGED <<latest, sent>>

-----------------------------------------------------------------------------
(* Other servers.                                                          *)

\* ScanEventTree: breadth first and up to the limit, so whole levels and of the
\* next level what the database lists first.
ScanEventTree(e, earliest) ==
    LET within[n \in Nat] ==  \* the events that are less than n steps away
          IF n = 0 THEN {} ELSE ({e} \cup Referenced(within[n - 1])) \ earliest
        scan(n) ==  \* all of these and some that are n steps away
          LET all == within[n]
              level == within[n + 1] \ all
          IN {s \in {all \cup some : some \in SUBSET level} :
                Cardinality(s) = Limit \/ (Cardinality(s) < Limit /\ level = {})}
    IN SUBSET Events \cap UNION {scan(n) : n \in 0..Limit}

\* /get_missing_events: the event itself counts and is then filtered out.
QueryMissingEvents(e, earliest) == {s \ {e} : s \in ScanEventTree(e, earliest)}

\* The orders in which every event comes after its parents.
TopologicalOrders(s) ==
    {q \in [1..Cardinality(s) -> s] :
        /\ {q[i] : i \in DOMAIN q} = s
        /\ \A i, j \in DOMAIN q : q[i] \in Prev[q[j]] => i < j}

\* Send: the origin pushes its current transaction.
Send(o, h) ==
    /\ waiting[o] = None /\ next[o] <= Len(Transactions[o])
    /\ handler[h] = IdleHandler
    /\ waiting' = [waiting EXCEPT ![o] = h]
    /\ handler' = [handler EXCEPT ![h] = [IdleHandler EXCEPT
          !.pc = "event", !.origin = o, !.txn = next[o], !.todo = Transactions[o][next[o]]]]
    /\ UNCHANGED <<room, next, history, faults>>

\* The origin stops waiting, and will send the transaction again.  The
\* handler works on.
GiveUp(o) ==
    /\ waiting[o] # None
    /\ Fault
    /\ waiting' = [waiting EXCEPT ![o] = None]
    /\ UNCHANGED <<room, next, handler, history>>

-----------------------------------------------------------------------------
(* processTransaction.                                                     *)

Event(h) == Head(handler[h].todo)

Proceed(h, step) == handler' = [handler EXCEPT ![h].pc = step]

NextEvent(h) ==
    handler' = [handler EXCEPT ![h] = [IdleHandler EXCEPT
          !.pc = "event", !.origin = handler[h].origin, !.txn = handler[h].txn,
          !.todo = Tail(handler[h].todo)]]

\* The PDU has been processed without an error.
Accept(h) == accepted' = accepted \cup {Event(h)} /\ NextEvent(h)

\* An error, which isProcessingErrorFatal never finds fatal: on to the next.
Skip(h) ==
    /\ failed' = failed \cup {Event(h)}
    /\ NextEvent(h)
    /\ UNCHANGED <<accepted, applied, holes>>

Fails(h) == Fault /\ Skip(h) /\ UNCHANGED room

\* QueryMissingAuthPrevEvents.
ProcessEvent(h) ==
    LET e == Event(h)
        missing == Auth[e] \ stored
        gap == \E p \in Prev[e] : ~HasState(p)
    IN /\ handler[h].pc = "event" /\ handler[h].todo # <<>>
       /\ \/ handler' = [handler EXCEPT ![h].missingAuth = missing, ![h].gap = gap,
                   ![h].pc = IF missing # {} THEN "auth" ELSE IF gap THEN "gap" ELSE "input"]
             /\ UNCHANGED <<room, history, faults>>
          \/ Fails(h)
       /\ UNCHANGED origin

\* The auth events are fetched from any server that has them.
RetrieveMissingAuthEvents(h) ==
    /\ handler[h].pc = "auth"
    /\ \/ stored' = stored \cup handler[h].missingAuth
          /\ Proceed(h, IF handler[h].gap THEN "gap" ELSE "input")
          /\ UNCHANGED <<before, latest, sent, history, faults>>
       \/ Fails(h)
    /\ UNCHANGED origin

\* SendEvents of a new event.
SendNewEvent(h) ==
    /\ handler[h].pc = "input"
    /\ \/ InputNew(Event(h)) /\ Accept(h) /\ UNCHANGED <<failed, applied, holes, faults>>
       \/ Fault /\ InputFails(Event(h)) /\ Skip(h)
    /\ UNCHANGED origin

\* getMissingEvents, with what are the forward extremities by now: an answer
\* without any of the prev events drops the event.
GetMissingEvents(h) ==
    LET e == Event(h)
    IN /\ handler[h].pc = "gap"
       /\ \/ \E s \in QueryMissingEvents(e, latest) :
               \/ /\ s \cap Prev[e] # {}
                  /\ \E q \in TopologicalOrders(s) :
                       handler' = [handler EXCEPT ![h].new = q, ![h].pc = "lookup"]
                  /\ UNCHANGED <<room, history, faults>>
               \/ s \cap Prev[e] = {} /\ Skip(h) /\ UNCHANGED <<room, faults>>
          \/ Fails(h)
       /\ UNCHANGED origin

\* Mutant: the state that is looked up is the one before the event.
LookupStateBeforeEvent(p, lost) == IF HasState(p) THEN before[p] ELSE TrueBefore[p] \ lost

\* lookupStateAfterEvent: from the roomserver, or else from the origin,
\* without the events that could not be fetched.
LookupStateAfterEvent(p, lost) ==
    IF HasState(p) THEN StateAfter(before[p], p) ELSE StateAfter(TrueBefore[p] \ lost, p)

\* lookupMissingStateViaStateIDs: the events that have to be fetched one by
\* one, each of which may not be found.
Fetched(prev) == UNION {TrueBefore[p] : p \in {q \in prev : ~HasState(q)}} \ stored

\* The state at the oldest event, after all of its prev events.
LookupStates(h) ==
    LET prev == Prev[Head(handler[h].new)]
    IN /\ handler[h].pc = "lookup"
       /\ \/ \E lost \in SUBSET Fetched(prev) :
               /\ IF lost = {} THEN UNCHANGED faults ELSE Fault
               /\ handler' = [handler EXCEPT ![h].pc = "extremity", ![h].hole = (lost # {}),
                     ![h].state = ResolveConflicts({LookupStateAfterEvent(p, lost) : p \in prev})]
               /\ UNCHANGED <<room, history>>
          \/ Fails(h)
       /\ UNCHANGED origin

\* SendEventWithState of the oldest event.  If one of the outliers is not
\* stored then the event is, without a state.
SendExtremity(h) ==
    LET e == Head(handler[h].new)
        state == handler[h].state
    IN /\ handler[h].pc = "extremity"
       /\ \/ /\ InputOld(e, state, state)
             /\ holes' = IF handler[h].hole /\ ~HasState(e) THEN holes \cup {e} ELSE holes
             /\ handler' = [handler EXCEPT ![h].pc = "rest", ![h].new = Append(Tail(@), Event(h))]
             /\ UNCHANGED <<accepted, failed, applied, faults>>
          \/ /\ Fault /\ Skip(h)
             /\ \E x \in state \ stored : stored' = stored \cup (state \ {x}) \cup {e}
             /\ UNCHANGED <<before, latest, sent>>
          \/ Fails(h)
       /\ UNCHANGED origin

\* The result of the last of the events that are sent together.
FinishRest(h, err) ==
    IF Len(handler[h].new) > 1
    THEN /\ handler' = [handler EXCEPT ![h].new = Tail(@), ![h].err = err]
         /\ UNCHANGED <<accepted, failed, applied, holes>>
    ELSE IF err THEN Skip(h) ELSE Accept(h) /\ UNCHANGED <<failed, applied, holes>>

\* Mutant: the event that was pushed is not sent with the others.
SendRestWithoutEvent(h) ==
    /\ handler[h].pc = "rest"
    /\ IF Len(handler[h].new) = 1 THEN UNCHANGED room ELSE InputOld(Head(handler[h].new), {}, NoState)
    /\ FinishRest(h, handler[h].err)
    /\ UNCHANGED <<origin, faults>>

\* Mutant: an event waits for the state of its prev events.
SendRestWithState(h) ==
    /\ handler[h].pc = "rest"
    /\ \A p \in Prev[Head(handler[h].new)] : HasState(p)
    /\ InputOld(Head(handler[h].new), {}, NoState)
    /\ FinishRest(h, handler[h].err)
    /\ UNCHANGED <<origin, faults>>

\* Then the newer ones, and at last the event itself, all as old events.  One
\* that fails does not keep back the others.
SendRest(h) ==
    /\ handler[h].pc = "rest"
    /\ \/ /\ InputOld(Head(handler[h].new), {}, NoState)
          /\ FinishRest(h, handler[h].err)
          /\ UNCHANGED faults
       \/ Fault /\ InputFails(Head(handler[h].new)) /\ FinishRest(h, TRUE)
    /\ UNCHANGED origin

\* processEDUs, and the answer: the origin goes on to its next transaction.
ProcessEDUs(h) ==
    LET o == handler[h].origin
    IN /\ handler[h].pc = "event" /\ handler[h].todo = <<>>
       /\ applied' = applied \cup {<<o, handler[h].txn>>}
       /\ handler' = [handler EXCEPT ![h] = IdleHandler]
       /\ IF waiting[o] = h
          THEN next' = [next EXCEPT ![o] = @ + 1] /\ waiting' = [waiting EXCEPT ![o] = None]
          ELSE UNCHANGED origin
       /\ UNCHANGED <<room, accepted, failed, holes, faults>>

Init ==
    /\ stored = {Root} /\ latest = {Root} /\ sent = {Root}
    /\ before = [e \in Events |-> IF e = Root THEN {} ELSE NoState]
    /\ next = [o \in Origins |-> 1]
    /\ waiting = [o \in Origins |-> None]
    /\ handler = [h \in Handlers |-> IdleHandler]
    /\ accepted = {} /\ failed = {} /\ applied = {} /\ holes = {}
    /\ faults = 0

HandlerStep(h) ==
    \/ ProcessEvent(h) \/ RetrieveMissingAuthEvents(h) \/ SendNewEvent(h)
    \/ GetMissingEvents(h) \/ LookupStates(h) \/ SendExtremity(h) \/ SendRest(h)
    \/ ProcessEDUs(h)

Next ==
    \/ \E o \in Origins : GiveUp(o) \/ \E h \in Handlers : Send(o, h)
    \/ \E h \in Handlers : HandlerStep(h)

\* A handler that runs goes on, and origins retry.
Fairness ==
    /\ \A h \in Handlers : WF_vars(HandlerStep(h))
    /\ \A o \in Origins : WF_vars(\E h \in Handlers : Send(o, h))

Spec == Init /\ [][Next]_vars /\ Fairness

-----------------------------------------------------------------------------
(* Properties.                                                             *)

States == SUBSET {e \in Events : KeyOf[e] # NoKey}

\* The types of the variables.  A snapshot has one event for a state key, and
\* only events that are stored have one.
TypeOK ==
    /\ stored \subseteq Events /\ latest \subseteq stored /\ sent \subseteq stored
    /\ \A e \in Events : HasState(e) =>
         /\ e \in stored /\ before[e] \in States /\ before[e] \subseteq stored
         /\ \A x, y \in before[e] : KeyOf[x] = KeyOf[y] => x = y
    /\ \A o \in Origins : next[o] \in 1..(Len(Transactions[o]) + 1) /\ waiting[o] \in Handlers \cup {None}
    /\ \A h \in Handlers : handler[h].origin \in Origins \cup {None} /\ handler[h].state \in States
    /\ faults \in 0..MaxFaults

\* Each event and all that came before it.
Ancestors ==
    [e \in Events |-> {x \in Events : \A S \in SUBSET Events :
                         e \in S /\ (\A y \in S : Prev[y] \subseteq S) => x \in S}]

\* However the transactions are interleaved, repeated and cut by gaps, the
\* state that is kept for an event is the one the whole graph gives it,
\* except after an event with a state from which events are missing because
\* they could not be fetched (createRespStateFromStateIDs leaves them out).
StateIsRight ==
    \A e \in Events : HasState(e) /\ Ancestors[e] \cap holes = {} => before[e] = TrueBefore[e]

\* When an origin has its answer, every PDU of the transaction has a result,
\* those with no error are stored, and the EDUs were applied: the origin will
\* not send any of it again.
AnsweredIsDone ==
    /\ accepted \subseteq stored
    /\ \A o \in Origins : \A i \in 1..(next[o] - 1) :
         /\ \A k \in DOMAIN Transactions[o][i] : Transactions[o][i][k] \in accepted \cup failed
         /\ <<o, i>> \in applied

\* No event wedges its origin: every transaction is answered in the end, even
\* where the gap cannot be closed.
NoOriginIsWedged == \A o \in Origins : <>(next[o] > Len(Transactions[o]))

=============================================================================
