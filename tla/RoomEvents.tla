----------------------------- MODULE RoomEvents -----------------------------
(***************************************************************************)
(* What the roomserver does with the events of ONE room                    *)
(* (roomserver/internal/input): processRoomEvent stores an event, records  *)
(* the events it references, works out the state before it and, for a new  *)
(* event, updates the forward extremities, the current state and the       *)
(* membership table and writes the change to the output log.  One worker   *)
(* does this (module RoomInput), and it can fail or die between any two    *)
(* of its database transactions, after which the event may be sent again.  *)
(*                                                                         *)
(* Event IDs stand for their numeric IDs, and a state snapshot is the set  *)
(* of its state events, so snapshot 0 and an empty snapshot are both {}.   *)
(* The verdicts of the auth checks are free choices within Rejectable and  *)
(* SoftFailable; state resolution (gomatrixserverlib) is a fixed           *)
(* preference among the conflicting events of a key.  The RoomInfo cache   *)
(* is left out: of what is modelled only the soft-fail verdict reads it.   *)
(***************************************************************************)
EXTENDS Naturals, FiniteSets

CONSTANTS
    Events,       \* event IDs
    Prev,         \* Prev[e]: the prev_events of e
    Keys, NoKey,  \* (type, state key) pairs; NoKey for an event that is not state
    KeyOf,        \* KeyOf[e]: the state key tuple of e
    Users,        \* the keys that are memberships
    Membership,   \* Membership[e]: "join", "invite" or "leave" of a membership event
    Rank,         \* Rank[e]: what state resolution prefers
    Inputs,       \* the InputRoomEvents that callers may send
    Rejectable,   \* events whose auth events may fail to allow them
    SoftFailable, \* events that the current state may fail to allow
    None

Kinds == {"outlier", "new", "old"}

ASSUME PrevAssumption ==
    /\ Prev \in [Events -> SUBSET Events]
    /\ \A e \in Events : e \notin Prev[e]
ASSUME KeyAssumption ==
    /\ KeyOf \in [Events -> Keys \union {NoKey}] /\ NoKey \notin Keys
    /\ Users \subseteq Keys
    /\ Membership \in [Events -> {"join", "invite", "leave"}]
ASSUME RankAssumption ==
    /\ Rank \in [Events -> Nat]
    /\ \A e, f \in Events : Rank[e] = Rank[f] => e = f
ASSUME InputAssumption ==
    /\ Inputs \subseteq [event : Events, kind : Kinds, hasState : BOOLEAN, state : SUBSET Events]
    /\ \A in \in Inputs :
         /\ \A e \in in.state : KeyOf[e] # NoKey
         /\ \A e, f \in in.state : KeyOf[e] = KeyOf[f] => e = f
ASSUME NoneAssumption == None \notin Events

VARIABLES
    \* the database
    stored,       \* rows of the events table
    flagged,      \* those with is_rejected
    linked,       \* events whose references are in the previous events table
    settled,      \* events whose state_snapshot_nid is not 0
    before,       \* before[e]: the snapshot of the state before e, if settled
    sent,         \* events marked as sent to the output log
    latest,       \* the forward extremities of the room
    current,      \* the room's current state snapshot
    lastSent,     \* last_event_sent_nid of the room
    member,       \* member[u]: the membership table
    rewritten,    \* history: an input with HasState was committed
    \* the process
    pc, input,    \* where processRoomEvent is, with which input
    accepted,     \* neither rejected nor soft-failed
    \* the output log
    out,          \* its newest entry
    view          \* the current state as a receiver of the log has it

db == <<stored, flagged, linked, settled, before, sent, latest, current, lastSent, member, rewritten>>
log == <<out, view>>
vars == <<db, pc, input, accepted, log>>

NoInput == [event |-> None, kind |-> "none", hasState |-> FALSE, state |-> {}]
NoOutput == [event |-> None, last |-> None, adds |-> {}, removes |-> {}, rewrites |-> FALSE,
             latest |-> {}, stateBeforeAdds |-> {}, stateBeforeRemoves |-> {}]

Init ==
    /\ stored = {} /\ flagged = {} /\ linked = {} /\ settled = {} /\ sent = {} /\ latest = {} /\ current = {}
    /\ before = [e \in Events |-> {}]
    /\ lastSent = None
    /\ member = [u \in Users |-> "leave"] /\ rewritten = FALSE
    /\ pc = "idle" /\ input = NoInput /\ accepted = FALSE
    /\ out = NoOutput /\ view = {}

-----------------------------------------------------------------------------
(* State snapshots.                                                        *)

IsState(e) == KeyOf[e] # NoKey
Apply(s, e) == {x \in s : KeyOf[x] # KeyOf[e]} \union {e}

\* Conflicting entries of the combined snapshots are resolved by preference.
Resolve(snapshots) ==
    LET combined == UNION snapshots
    IN  {x \in combined : \A y \in combined : KeyOf[y] = KeyOf[x] => Rank[y] <= Rank[x]}

\* The state after an event: as a prev event, a row that is flagged rejected
\* adds nothing; the extremities are loaded without that flag.
StateAfter(e) == IF IsState(e) THEN Apply(before[e], e) ELSE before[e]
StateAfterPrev(e) == IF e \in flagged THEN before[e] ELSE StateAfter(e)

Referenced == UNION {Prev[e] : e \in linked}

-----------------------------------------------------------------------------
(* processRoomEvent.                                                       *)

Done == pc' = "idle" /\ input' = NoInput /\ accepted' = FALSE

\* Auth checks and the first transaction of StoreEvent.  A row that exists
\* keeps its is_rejected.  An outlier that is stored already is left alone.
Begin(in) ==
    /\ pc = "idle"
    /\ in.kind = "outlier" => in.event \notin stored
    /\ \E rejected, softfail \in BOOLEAN :
         /\ rejected => in.event \in Rejectable
         /\ softfail => in.kind = "new" /\ in.event \in SoftFailable
         /\ accepted' = (~rejected /\ ~softfail)
         /\ flagged' = IF rejected /\ in.event \notin stored
                       THEN flagged \union {in.event} ELSE flagged
         /\ input' = [in EXCEPT !.hasState = @ /\ ~rejected]
    /\ stored' = stored \union {in.event}
    /\ pc' = "link"
    /\ UNCHANGED <<linked, settled, before, sent, latest, current, lastSent, member, rewritten, log>>

\* The second transaction of StoreEvent: the previous events table.  An
\* outlier is done.
Link ==
    /\ pc = "link"
    /\ linked' = linked \union {input.event}
    /\ IF input.kind = "outlier"
       THEN Done
       ELSE pc' = "state" /\ UNCHANGED <<input, accepted>>
    /\ UNCHANGED <<stored, flagged, settled, before, sent, latest, current, lastSent, member, rewritten, log>>

\* The state before e, where it can be had: as supplied, if those events are
\* stored, or after the prev events, if each of them has a state.
HasStateBefore ==
    IF input.hasState
    THEN input.state \subseteq stored
    ELSE \A p \in Prev[input.event] : p \in settled
StateBefore ==
    IF input.hasState
    THEN input.state
    ELSE Resolve({StateAfterPrev(p) : p \in Prev[input.event]})

\* Once the state is settled: on to updateLatestEvents for an accepted new
\* event.  The output of an old event says nothing of the room's state.
Continue ==
    IF accepted /\ input.kind = "new"
    THEN pc' = "latest" /\ UNCHANGED <<input, accepted>>
    ELSE Done

\* The state is not recalculated once an event has one.  An old event for
\* which there is none is output all the same, which changes nothing here.
SetState ==
    /\ pc = "state"
    /\ LET e == input.event IN
       \/ e \in settled /\ Continue /\ UNCHANGED <<settled, before>>
       \/ /\ e \notin settled /\ HasStateBefore
          /\ settled' = settled \union {e}
          /\ before' = [before EXCEPT ![e] = StateBefore]
          /\ Continue
       \/ /\ e \notin settled /\ ~HasStateBefore
          /\ Done
          /\ UNCHANGED <<settled, before>>
    /\ UNCHANGED <<stored, flagged, linked, sent, latest, current, lastSent, member, rewritten, log>>

-----------------------------------------------------------------------------
(* updateLatestEvents.                                                     *)

\* calculateLatest: the event becomes an extremity unless it is one, or is
\* referenced; extremities that are referenced by it, or by anything, go.
IsNewExtremity(old) == input.event \notin old /\ input.event \notin Referenced

\* Every other extremity is forgotten.
NewLatest_Forgets(old) ==
    IF IsNewExtremity(old) THEN {input.event} ELSE old

\* Extremities that the new event references stay.
NewLatest_Keeps(old) ==
    IF IsNewExtremity(old) THEN {input.event} \union old ELSE old

NewLatest(old) ==
    IF IsNewExtremity(old)
    THEN {input.event} \union (old \ (Prev[input.event] \union Referenced))
    ELSE old

\* latestState: for an event that is not state the old state is kept if the
\* snapshots before the extremities are the same.  Snapshots with the same
\* contents may have different numbers.
MayKeepState(old) ==
    /\ ~IsState(input.event)
    /\ {before[l] : l \in old} = {before[l] : l \in NewLatest(old)}
NewState(old) == Resolve({StateAfter(l) : l \in NewLatest(old)})

\* updateMembership for each user whose membership event changed.  "Leave" is
\* the default for an event that was not removed or added.
MembershipIn(s, u) ==
    IF \E e \in s : KeyOf[e] = u
    THEN Membership[CHOOSE e \in s : KeyOf[e] = u]
    ELSE "leave"

\* Stops dead at a membership that was removed and not replaced.
UpdateMemberships_AddedOnly(removed, added) ==
    [u \in Users |-> IF \E e \in added : KeyOf[e] = u THEN MembershipIn(added, u) ELSE member[u]]

UpdateMemberships(removed, added) ==
    [u \in Users |->
        LET old == MembershipIn(removed, u)
            new == MembershipIn(added, u)
        IN  IF (\E e \in removed \union added : KeyOf[e] = u) /\ (old # new \/ new = "join")
            THEN new ELSE member[u]]

\* Events that were replaced are not announced as removed.
MakeOutput_NoRemoves(e, old, oldState, newState, calculated) ==
    [event |-> e, last |-> lastSent, adds |-> newState \ oldState, removes |-> {},
     rewrites |-> input.hasState, latest |-> NewLatest(old),
     stateBeforeAdds |-> IF calculated THEN before[e] \ newState ELSE {},
     stateBeforeRemoves |-> IF calculated THEN newState \ before[e] ELSE {}]

\* makeOutputNewRoomEvent.
MakeOutput(e, old, oldState, newState, calculated) ==
    [event |-> e, last |-> lastSent,
     adds |-> newState \ oldState, removes |-> oldState \ newState,
     rewrites |-> input.hasState, latest |-> NewLatest(old),
     stateBeforeAdds |-> IF calculated THEN before[e] \ newState ELSE {},
     stateBeforeRemoves |-> IF calculated THEN newState \ before[e] ELSE {}]

\* A receiver of the log: it starts from nothing when the state is rewritten,
\* applies the delta if LastSentEventID is the event it saw last, and asks
\* for the state after LatestEventIDs otherwise.
Receive(entry, newState) ==
    IF entry.rewrites THEN entry.adds
    ELSE IF entry.last = out.event THEN (view \ entry.removes) \union entry.adds
    ELSE newState

\* The transaction: its output entry is written before SetLatestEvents
\* and before the commit.
Transaction(commits) ==
    LET e == input.event
        old == IF input.hasState THEN {} ELSE latest
        oldState == IF input.hasState THEN {} ELSE current
        calculates == IsNewExtremity(old) \/ input.hasState
    IN  \E calculated \in BOOLEAN :
          /\ calculated => calculates
          /\ calculates /\ ~calculated => MayKeepState(old)
          /\ LET newState == IF calculated THEN NewState(old) ELSE oldState
                 entry == MakeOutput(e, old, oldState, newState, calculated)
             IN  /\ out' = entry
                 /\ view' = Receive(entry, newState)
                 /\ IF commits
                    THEN /\ latest' = NewLatest(old)
                         /\ current' = newState
                         /\ lastSent' = e
                         /\ sent' = sent \union {e}
                         /\ member' = UpdateMemberships(entry.removes, entry.adds)
                         /\ rewritten' = (rewritten \/ input.hasState)
                    ELSE UNCHANGED <<latest, current, lastSent, sent, member, rewritten>>

UpdateLatestEvents ==
    /\ pc = "latest"
    /\ IF input.event \in sent
       THEN UNCHANGED <<sent, latest, current, lastSent, member, rewritten, log>>
       ELSE Transaction(TRUE)
    /\ Done
    /\ UNCHANGED <<stored, flagged, linked, settled, before>>

\* The commit fails after the output was written.
CommitFails ==
    /\ pc = "latest"
    /\ input.event \notin sent
    /\ Transaction(FALSE)
    /\ Done
    /\ UNCHANGED <<stored, flagged, linked, settled, before>>

\* An error of the database or of the output log ends the processing, or the
\* process dies; what the transaction in progress did is rolled back.
Fail ==
    /\ pc # "idle"
    /\ Done
    /\ UNCHANGED <<db, log>>

Next ==
    \/ \E in \in Inputs : Begin(in)
    \/ Link \/ SetState \/ UpdateLatestEvents \/ CommitFails \/ Fail

Spec == Init /\ [][Next]_vars

-----------------------------------------------------------------------------
(* Properties.                                                             *)

Snapshots == {s \in SUBSET {e \in Events : IsState(e)} :
                 \A e, f \in s : KeyOf[e] = KeyOf[f] => e = f}

\* Types: in particular a snapshot never holds two events for one key.
TypeOK ==
    /\ flagged \subseteq stored /\ linked \subseteq stored /\ stored \subseteq Events
    /\ sent \subseteq linked /\ latest \subseteq sent
    /\ latest \subseteq settled /\ settled \subseteq linked
    /\ before \in [Events -> Snapshots]
    /\ current \in Snapshots /\ view \in Snapshots
    /\ lastSent \in sent \union {None}
    /\ member \in [Users -> {"join", "invite", "leave"}] /\ rewritten \in BOOLEAN
    /\ pc \in {"idle", "link", "state", "latest"}
    /\ (pc = "idle") = (input = NoInput)
    /\ pc # "idle" => input.event \in stored

\* The forward extremities never include an event together with one of its
\* prev events (calculateLatest), in whatever order events arrive, fail and
\* are sent again, also when the state is rewritten.
ExtremitiesIncomparable ==
    \A e, f \in latest : e \notin Prev[f]

\* Until the state is rewritten, every event that was sent out and that
\* no stored event references is a forward extremity: none is forgotten when
\* forks are merged or processing fails half-way.
EveryTipIsExtremity ==
    ~rewritten => \A e \in sent : e \in latest \/ e \in Referenced

\* "Together with RemovesStateEventIDs this allows the receiver to keep an up
\* to date view of the current state of the room": a receiver that follows
\* the rule of LastSentEventID has the room's current state whenever the
\* newest entry of the log was committed, whatever was written twice before.
ReceiverInStep ==
    out.event = lastSent => view = current

\* Until the state is rewritten, the membership table says what the current
\* state says of each user, also after a state reset took a membership away
\* without replacing it.
MembershipFollowsState ==
    ~rewritten => \A u \in Users : member[u] = MembershipIn(current, u)

\* "We stop here if the event is rejected: We've stored it but won't update
\* forward extremities": an extremity is not given up to a rejected event.
\* Unless the state is rewritten, something else references it, or what is
\* processed is itself an event that was rejected at first.  The code does not
\* keep this: StoreEvent records the references of rejected events as well.
RejectedTakesNoExtremity ==
    [][\A e \in latest \ latest' :
         input.hasState \/ input.event \in flagged \/ \E f \in linked \ flagged : e \in Prev[f]]_vars
=============================================================================
