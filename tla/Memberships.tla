---------------------------- MODULE Memberships ----------------------------
(***************************************************************************)
(* Users of one server ("local") and a room that lives on another one      *)
(* ("resident"): join, leave, forget, invite, kick, ban and unban, and the *)
(* tables that both room servers keep about them.                          *)
(*                                                                         *)
(* A member of the room on the resident server invites and removes the     *)
(* users; it never leaves itself.  Both servers run the same code.         *)
(*                                                                         *)
(* Sources: roomserver/internal/perform, roomserver/storage/shared,        *)
(* federationsender/internal/perform.go, federationapi/routing (join,      *)
(* leave, invite), clientapi/routing/membership.go.                        *)
(***************************************************************************)
EXTENDS Integers, Sequences, FiniteSets

CONSTANTS
    Users,       \* users of the local server
    Calls,       \* concurrent client requests on the local server
    Public,      \* whether the join rule of the room is "public"
    MaxEvents,   \* bound: membership events that are made
    MaxFaults    \* bound: lost answers, failing steps and restarts

ASSUME MembershipsAssumption ==
    /\ Public \in BOOLEAN /\ MaxEvents \in Nat /\ MaxFaults \in Nat
    /\ "nobody" \notin Users

VARIABLES
    state,       \* current membership event of each user, on each server
    known,       \* whether the local server has any state of the room
    tab,         \* rows of the membership and invites tables, on each server
    net,         \* events on their way to each server
    joins,       \* federation sender: users with a federated join in progress
    call,        \* client requests on the local server
    request,     \* the request of the member on the resident server
    log,         \* invites in the local output log that sync has yet to read
    shown,       \* sync API: invites shown to each user
    ids,         \* number of events made
    told,        \* history: invites that were put on the log
    unwritten,   \* history: invites whose log entry was lost to a fault
    faults

servers == <<state, known, tab, net>>
sync == <<log, shown, told, unwritten>>
vars == <<servers, joins, call, request, sync, ids, faults>>

Local == "local"
Resident == "resident"
Servers == {Local, Resident}
Nobody == "nobody"

-----------------------------------------------------------------------------
(* Membership events.  "past" are the membership events of the same user   *)
(* that the event follows, "from" is the membership it follows, "power"    *)
(* marks kicks, bans and unbans.                                           *)

NoEvent == [id |-> 0, m |-> "leave", from |-> "leave", past |-> {}, power |-> FALSE]
Events == [id : 1..MaxEvents, m : {"leave", "invite", "join", "ban"},
           from : {"leave", "invite", "join", "ban"}, past : SUBSET (0..MaxEvents),
           power : BOOLEAN]

\* BuildEvent on top of the state a server has.
BuildEvent(cur, m, power) ==
    [id |-> ids + 1, m |-> m, from |-> cur.m, past |-> cur.past \cup {cur.id}, power |-> power]

\* The auth rules for membership events, as far as they tell them apart.
Allowed(cur, e) ==
    CASE e.m = "join" -> cur \in {"join", "invite"} \/ (Public /\ cur # "ban")
      [] e.m = "invite" -> cur \notin {"join", "ban"}
      [] e.m = "leave" -> e.power \/ cur \in {"join", "invite"}
      [] e.m = "ban" -> TRUE

\* State resolution of two events that do not follow each other: kicks and
\* bans come first, then the older one; the second stands if it is allowed
\* after the first.
ResolveConflict(a, b) ==
    LET aFirst == IF a.power = b.power THEN a.id < b.id ELSE a.power
        first == IF aFirst THEN a ELSE b
        second == IF aFirst THEN b ELSE a
    IN IF Allowed(first.m, second) THEN second ELSE first

Follows(e, cur) == e.id \in cur.past \cup {cur.id}

\* An event that is not allowed by the current state is soft-failed, and the
\* caller is not told.
CheckForSoftFail(cur, e) == ~Allowed(cur.m, e)
Accepted(cur, e) == ~Follows(e, cur) /\ ~CheckForSoftFail(cur, e)

LatestState(cur, e) ==
    IF ~Accepted(cur, e) THEN cur
    ELSE IF cur.id \in e.past THEN e ELSE ResolveConflict(cur, e)

-----------------------------------------------------------------------------
(* The membership table and the invites table: one row t for each user.    *)
(* t.event is the membership of the event the row refers to.               *)

NoRow == [m |-> "leave", event |-> "none", forgotten |-> FALSE, active |-> {}, retired |-> {}]

InsertInviteEvent(t, id) ==
    IF id \in t.active \cup t.retired THEN t ELSE [t EXCEPT !.active = @ \cup {id}]

UpdateInviteRetired(t) == [t EXCEPT !.retired = @ \cup t.active, !.active = {}]

UpdateMembershipRow(t, m, event) ==
    [t EXCEPT !.m = m, !.event = event, !.forgotten = FALSE]

SetToInvite(t, id) ==
    LET inserted == InsertInviteEvent(t, id)
    IN IF t.m = "invite" THEN inserted ELSE UpdateMembershipRow(inserted, "invite", "none")

\* A join that replaces a join retires no invite.
SetToJoin(t, isUpdate) ==
    UpdateMembershipRow(IF isUpdate THEN t ELSE UpdateInviteRetired(t), "join", "join")

\* Mutant: the invites of a user who left stay active.
SetToLeaveOnly(t, event) == UpdateMembershipRow(t, "leave", event)

SetToLeave(t, event) == UpdateMembershipRow(UpdateInviteRetired(t), "leave", event)

UpdateToJoinMembership(t) == SetToJoin(t, t.m = "join")

\* Mutant: only a user who is joined can leave.
UpdateJoinedToLeaveMembership(t, event) == IF t.m # "join" THEN t ELSE SetToLeave(t, event)

UpdateToLeaveMembership(t, event) == IF t.m = "leave" THEN t ELSE SetToLeave(t, event)

\* Mutant: an invite is announced when the user was not invited already.
NewInvitesOfUninvited(t, after) == IF t.m = "invite" THEN {} ELSE after.active \ t.active

\* UpdateToInviteMembership: what was inserted is announced.
NewInvites(t, after) == after.active \ t.active

\* updateMembership, for one user whose membership event changed.
UpdateMembership(t, old, new) ==
    IF old = new.m /\ new.m # "join" THEN t
    ELSE CASE new.m = "invite" -> SetToInvite(t, new.id)
           [] new.m = "join" -> UpdateToJoinMembership(t)
           [] new.m \in {"leave", "ban"} -> UpdateToLeaveMembership(t, new.m)

\* WriteOutputEvents with the invites that rows t gained and lost on the way
\* to rows after.
WriteOutputEvents(t, after) ==
    LET new == UNION {NewInvites(t[u], after[u]) : u \in Users}
        gone == UNION {after[u].retired \ t[u].retired : u \in Users}
    IN /\ log' = IF new \cup gone = {} THEN log ELSE Append(log, [new |-> new, retired |-> gone])
       /\ told' = told \cup new
       /\ UNCHANGED <<shown, unwritten>>

\* processRoomEvent of a new event on server s, in one transaction.
ProcessRoomEvent(s, u, e) ==
    LET new == LatestState(state[s][u], e)
        after == IF new.id = state[s][u].id THEN tab[s]
                 ELSE [tab[s] EXCEPT ![u] = UpdateMembership(@, state[s][u].m, new)]
    IN /\ state' = [state EXCEPT ![s][u] = new]
       /\ tab' = [tab EXCEPT ![s] = after]
       /\ IF s = Local THEN WriteOutputEvents(tab[s], after) ELSE UNCHANGED sync

\* The federation sender of the resident server: an event goes to the servers
\* that were joined before it.
JoinedHostsAtEvent(u, e) ==
    e.from = "join" \/ \E v \in Users \ {u} : state[Resident][v].m = "join"

\* An event that the resident server sends out itself.
ProcessAndSend(u, e) ==
    /\ ProcessRoomEvent(Resident, u, e)
    /\ net' = IF Accepted(state[Resident][u], e) /\ JoinedHostsAtEvent(u, e)
              THEN [net EXCEPT ![Local] = Append(@, [user |-> u, event |-> e])] ELSE net

MakeEvent == ids < MaxEvents /\ ids' = ids + 1

-----------------------------------------------------------------------------
(* Joining.                                                                *)

IdleCall == [pc |-> "idle", user |-> Nobody, event |-> NoEvent,
             before |-> [u \in Users |-> NoEvent], invite |-> 0]

Goto(c, pc) == call' = [call EXCEPT ![c].pc = pc]
Done(c) == call' = [call EXCEPT ![c] = IdleCall]

IsServerCurrentlyInRoom == \E u \in Users : tab[Local][u].m = "join" /\ ~tab[Local][u].forgotten
IsInvitePending(u) == tab[Local][u].active # {}

\* performJoinRoomByID.  The room ID names the resident server, so there is
\* always a server to join by.
PerformJoin(c, u) ==
    LET forceFederatedJoin == ~IsServerCurrentlyInRoom \/ IsInvitePending(u)
    IN /\ call[c].pc = "idle"
       /\ call' = [call EXCEPT ![c] = [IdleCall EXCEPT
             !.pc = IF forceFederatedJoin THEN "check" ELSE "build", !.user = u]]
       /\ UNCHANGED <<servers, joins, request, sync, ids, faults>>

\* The room is here: nothing to do for a user who is joined; an event that
\* its own auth events do not allow is rejected.
BuildJoin(c) ==
    LET cur == state[Local][call[c].user]
        e == BuildEvent(cur, "join", FALSE)
    IN /\ call[c].pc = "build"
       /\ \/ cur.m # "join" /\ Allowed(cur.m, e) /\ MakeEvent
             /\ call' = [call EXCEPT ![c].pc = "input", ![c].event = e]
          \/ (cur.m = "join" \/ ~Allowed(cur.m, e)) /\ Done(c) /\ UNCHANGED ids
       /\ UNCHANGED <<servers, joins, request, sync, faults>>

\* InputRoomEvents with a join or leave that was built here.
InputRoomEvents(c) ==
    LET u == call[c].user
        e == call[c].event
    IN /\ call[c].pc = "input"
       /\ ProcessRoomEvent(Local, u, e)
       /\ net' = IF Accepted(state[Local][u], e)
                 THEN [net EXCEPT ![Resident] = Append(@, [user |-> u, event |-> e])] ELSE net
       /\ Done(c)
       /\ UNCHANGED <<known, joins, request, ids, faults>>

\* PerformJoin of the federation sender looks into joins, and then adds to it.
LoadJoins(c) ==
    /\ call[c].pc = "check"
    /\ IF call[c].user \in joins THEN Done(c) ELSE Goto(c, "store")
    /\ UNCHANGED <<servers, joins, request, sync, ids, faults>>

StoreJoins(c) ==
    /\ call[c].pc = "store"
    /\ joins' = joins \cup {call[c].user}
    /\ Goto(c, "make")
    /\ UNCHANGED <<servers, request, sync, ids, faults>>

DeleteJoins(c) == joins' = joins \ {call[c].user}

\* Mutant: a join that make_join refuses stays in joins.
MakeJoinKeepsJoins(c) ==
    LET u == call[c].user
        cur == state[Resident][u]
        e == BuildEvent(cur, "join", FALSE)
    IN /\ call[c].pc = "make"
       /\ \/ Allowed(cur.m, e) /\ MakeEvent
             /\ call' = [call EXCEPT ![c].pc = "send", ![c].event = e, ![c].before = state[Resident]]
             /\ UNCHANGED joins
          \/ ~Allowed(cur.m, e) /\ Done(c) /\ UNCHANGED <<joins, ids>>
       /\ UNCHANGED <<servers, request, sync, faults>>

\* make_join: the event, and with its prev events the state before it.
MakeJoin(c) ==
    LET u == call[c].user
        cur == state[Resident][u]
        e == BuildEvent(cur, "join", FALSE)
    IN /\ call[c].pc = "make"
       /\ \/ Allowed(cur.m, e) /\ MakeEvent
             /\ call' = [call EXCEPT ![c].pc = "send", ![c].event = e, ![c].before = state[Resident]]
             /\ UNCHANGED joins
          \/ ~Allowed(cur.m, e) /\ Done(c) /\ DeleteJoins(c) /\ UNCHANGED ids
       /\ UNCHANGED <<servers, request, sync, faults>>

\* send_join: a user who was joined before the event is not joined again.
SendJoin(c) ==
    LET u == call[c].user
    IN /\ call[c].pc = "send"
       /\ IF call[c].before[u].m = "join" THEN UNCHANGED <<state, tab, net, sync>>
          ELSE ProcessAndSend(u, call[c].event)
       /\ \/ Goto(c, "process") /\ UNCHANGED <<joins, faults>>
          \/ faults < MaxFaults /\ faults' = faults + 1 /\ Done(c) /\ DeleteJoins(c)
       /\ UNCHANGED <<known, request, ids>>

\* SendEventWithState: the state before the join replaces what there is, and
\* no state counts as the old one.
SendEventWithState(c) ==
    LET u == call[c].user
        e == call[c].event
        new == [v \in Users |-> IF v = u THEN e ELSE call[c].before[v]]
        after == [v \in Users |-> IF new[v].id = 0 THEN tab[Local][v]
                                  ELSE UpdateMembership(tab[Local][v], "leave", new[v])]
    IN /\ call[c].pc = "process"
       /\ IF known /\ Follows(e, state[Local][u])
          THEN UNCHANGED <<state, known, tab, sync>>
          ELSE /\ state' = [state EXCEPT ![Local] = new]
               /\ known' = TRUE
               /\ tab' = [tab EXCEPT ![Local] = after]
               /\ WriteOutputEvents(tab[Local], after)
       /\ Done(c) /\ DeleteJoins(c)
       /\ UNCHANGED <<net, request, ids, faults>>

\* The answer does not pass its checks, or storing it fails: this is logged,
\* and the join counts as done.
ProcessJoinFails(c) ==
    /\ call[c].pc = "process"
    /\ faults < MaxFaults /\ faults' = faults + 1
    /\ Done(c) /\ DeleteJoins(c)
    /\ UNCHANGED <<servers, request, sync, ids>>

-----------------------------------------------------------------------------
(* Leaving and forgetting.                                                 *)

\* performLeaveRoomByID: an invite is rejected; otherwise the user has to be
\* joined.
PerformLeave(c, u) ==
    LET cur == state[Local][u]
    IN /\ call[c].pc = "idle"
       /\ \/ \E id \in tab[Local][u].active :
               /\ call' = [call EXCEPT ![c] =
                     [IdleCall EXCEPT !.pc = "makeleave", !.user = u, !.invite = id]]
               /\ UNCHANGED ids
          \/ /\ ~IsInvitePending(u) /\ known /\ cur.m = "join"
             /\ MakeEvent
             /\ call' = [call EXCEPT ![c] = [IdleCall EXCEPT
                   !.pc = "input", !.user = u, !.event = BuildEvent(cur, "leave", FALSE)]]
       /\ UNCHANGED <<servers, joins, request, sync, faults>>

\* make_leave: a user who has left gets the last leave event again.
MakeLeave(c) ==
    LET cur == state[Resident][call[c].user]
        again == [BuildEvent(cur, "leave", FALSE) EXCEPT !.past = cur.past, !.from = cur.from]
        e == IF cur.m = "leave" THEN again ELSE BuildEvent(cur, "leave", FALSE)
        granted == cur.id # 0 /\ (cur.m = "leave" \/ Allowed(cur.m, e))
    IN /\ call[c].pc = "makeleave"
       /\ \/ granted /\ MakeEvent
             /\ call' = [call EXCEPT ![c].pc = "sendleave", ![c].event = e]
          \/ ~granted /\ Done(c) /\ UNCHANGED ids
       /\ UNCHANGED <<servers, joins, request, sync, faults>>

\* send_leave does nothing for a user who has left.
SendLeave(c) ==
    LET u == call[c].user
    IN /\ call[c].pc = "sendleave"
       /\ IF state[Resident][u].m = "leave" THEN UNCHANGED <<state, tab, net, sync>>
          ELSE ProcessAndSend(u, call[c].event)
       /\ \/ Goto(c, "retire") /\ UNCHANGED faults
          \/ faults < MaxFaults /\ faults' = faults + 1 /\ Done(c)
       /\ UNCHANGED <<known, joins, request, ids>>

\* performRejectInvite tells the consumers; the tables stay as they are.
RetireInvite(c) ==
    /\ call[c].pc = "retire"
    /\ log' = Append(log, [new |-> {}, retired |-> {call[c].invite}])
    /\ Done(c)
    /\ UNCHANGED <<servers, joins, request, shown, told, unwritten, ids, faults>>

\* SendForget asks for the membership, ForgetRoom comes after it.
SendForget(c, u) ==
    /\ call[c].pc = "idle"
    /\ tab[Local][u].event # "none" /\ tab[Local][u].m # "join"
    /\ call' = [call EXCEPT ![c] = [IdleCall EXCEPT !.pc = "forget", !.user = u]]
    /\ UNCHANGED <<servers, joins, request, sync, ids, faults>>

ForgetRoom(c) ==
    /\ call[c].pc = "forget"
    /\ tab' = [tab EXCEPT ![Local][call[c].user].forgotten = TRUE]
    /\ Done(c)
    /\ UNCHANGED <<state, known, net, joins, request, sync, ids, faults>>

-----------------------------------------------------------------------------
(* The member on the resident server, and /invite on the local one.        *)

IdleRequest == [pc |-> "idle", user |-> Nobody, event |-> NoEvent, valid |-> FALSE]

NewRequest(pc, u, m, power) ==
    LET e == BuildEvent(state[Resident][u], m, power)
    IN /\ request.pc = "idle" /\ MakeEvent
       /\ request' = [pc |-> pc, user |-> u, event |-> e,
                      valid |-> Allowed(state[Resident][u].m, e)]
       /\ UNCHANGED <<servers, joins, call, sync, faults>>

\* QueryMembershipForUser: the membership of the event in the row.
QueryMembershipForUser(s, u) == tab[s][u].event

\* PerformInvite notes that the event is not allowed and carries on.
PerformInvite(u) == state[Resident][u].m # "join" /\ NewRequest("invite", u, "invite", FALSE)
SendKick(u) ==
    /\ QueryMembershipForUser(Resident, u) \in {"join", "invite"}
    /\ NewRequest("input", u, "leave", TRUE)
SendUnban(u) ==
    /\ QueryMembershipForUser(Resident, u) = "ban"
    /\ NewRequest("input", u, "leave", TRUE)
SendBan(u) == state[Resident][u].m # "ban" /\ NewRequest("input", u, "ban", TRUE)

\* /invite on the local server: a user who is joined is not invited...
IsAlreadyJoined ==
    /\ request.pc = "invite"
    /\ request' = IF tab[Local][request.user].m = "join" THEN IdleRequest
                  ELSE [request EXCEPT !.pc = "commit"]
    /\ UNCHANGED <<servers, joins, call, sync, ids, faults>>

\* ... the tables are updated in a transaction ...
CommitInvite ==
    LET u == request.user
        after == SetToInvite(tab[Local][u], request.event.id)
    IN /\ request.pc = "commit"
       /\ tab' = [tab EXCEPT ![Local][u] = after]
       /\ request' = [request EXCEPT
             !.pc = IF NewInvites(tab[Local][u], after) = {} THEN "input" ELSE "output"]
       /\ UNCHANGED <<state, known, net, joins, call, sync, ids, faults>>

\* ... and the caller of PerformInvite writes the output once it is committed.
OutputInvite ==
    /\ request.pc = "output"
    /\ log' = Append(log, [new |-> {request.event.id}, retired |-> {}])
    /\ told' = told \cup {request.event.id}
    /\ \/ request' = [request EXCEPT !.pc = "input"] /\ UNCHANGED faults
       \/ faults < MaxFaults /\ faults' = faults + 1 /\ request' = IdleRequest
    /\ UNCHANGED <<servers, joins, call, shown, unwritten, ids>>

\* InputRoomEvents on the resident server; a rejected event changes nothing.
InputRequest ==
    /\ request.pc = "input"
    /\ IF request.valid THEN ProcessAndSend(request.user, request.event)
       ELSE UNCHANGED <<state, tab, net, sync>>
    /\ request' = IdleRequest
    /\ UNCHANGED <<known, joins, call, ids, faults>>

-----------------------------------------------------------------------------
\* /send: an event for a room that the server does not have is dropped.
ReceiveEvent(s) ==
    /\ net[s] # <<>>
    /\ IF s = Resident \/ known THEN ProcessRoomEvent(s, Head(net[s]).user, Head(net[s]).event)
       ELSE UNCHANGED <<state, tab, sync>>
    /\ net' = [net EXCEPT ![s] = Tail(@)]
    /\ UNCHANGED <<known, joins, call, request, ids, faults>>

\* The sync API reads the output log.
ReadLog ==
    /\ log # <<>>
    /\ shown' = (shown \ Head(log).retired) \cup Head(log).new
    /\ log' = Tail(log)
    /\ UNCHANGED <<servers, joins, call, request, told, unwritten, ids, faults>>

\* The local server stops and starts again.
Restart ==
    /\ faults < MaxFaults /\ faults' = faults + 1
    /\ joins' = {}
    /\ call' = [c \in Calls |-> IdleCall]
    /\ request' = IF request.pc \in {"invite", "commit", "output"} THEN IdleRequest ELSE request
    /\ unwritten' = IF request.pc = "output" THEN unwritten \cup {request.event.id} ELSE unwritten
    /\ UNCHANGED <<servers, log, shown, told, ids>>

Init ==
    /\ state = [s \in Servers |-> [u \in Users |-> NoEvent]]
    /\ known = FALSE
    /\ tab = [s \in Servers |-> [u \in Users |-> NoRow]]
    /\ net = [s \in Servers |-> <<>>]
    /\ joins = {}
    /\ call = [c \in Calls |-> IdleCall]
    /\ request = IdleRequest
    /\ log = <<>> /\ shown = {} /\ told = {} /\ unwritten = {}
    /\ ids = 0 /\ faults = 0

CallStep(c) ==
    \/ \E u \in Users : PerformJoin(c, u) \/ PerformLeave(c, u) \/ SendForget(c, u)
    \/ BuildJoin(c) \/ InputRoomEvents(c)
    \/ LoadJoins(c) \/ StoreJoins(c) \/ MakeJoin(c) \/ SendJoin(c)
    \/ SendEventWithState(c) \/ ProcessJoinFails(c)
    \/ MakeLeave(c) \/ SendLeave(c) \/ RetireInvite(c)
    \/ ForgetRoom(c)

Next ==
    \/ \E c \in Calls : CallStep(c)
    \/ \E u \in Users : PerformInvite(u) \/ SendKick(u) \/ SendUnban(u) \/ SendBan(u)
    \/ IsAlreadyJoined \/ CommitInvite \/ OutputInvite \/ InputRequest
    \/ \E s \in Servers : ReceiveEvent(s)
    \/ ReadLog \/ Restart

Spec == Init /\ [][Next]_vars

-----------------------------------------------------------------------------
(* Properties.                                                             *)

Rows == [m : {"leave", "invite", "join"}, event : {"none", "leave", "join", "ban"},
         forgotten : BOOLEAN, active : SUBSET (1..MaxEvents), retired : SUBSET (1..MaxEvents)]
EventOrNone == Events \cup {NoEvent}
Messages == [user : Users, event : Events]
Entries == [new : SUBSET (1..MaxEvents), retired : SUBSET (1..MaxEvents)]
CallRecords == [pc : {"idle", "build", "input", "check", "store", "make", "send", "process",
                      "makeleave", "sendleave", "retire", "forget"},
                user : Users \cup {Nobody}, event : EventOrNone,
                before : [Users -> EventOrNone], invite : 0..MaxEvents]
Requests == [pc : {"idle", "invite", "commit", "output", "input"},
             user : Users \cup {Nobody}, event : EventOrNone, valid : BOOLEAN]

\* The types of the variables.  The membership column of the table
\* (membershipStateLeaveOrBan) does not tell a ban from a leave; the event
\* the row refers to does, and a row never refers to an invite.
TypeOK ==
    /\ state \in [Servers -> [Users -> EventOrNone]]
    /\ known \in BOOLEAN
    /\ tab \in [Servers -> [Users -> Rows]]
    /\ net \in [Servers -> Seq(Messages)]
    /\ joins \subseteq Users
    /\ call \in [Calls -> CallRecords] /\ request \in Requests
    /\ log \in Seq(Entries)
    /\ shown \subseteq 1..MaxEvents /\ told \subseteq 1..MaxEvents /\ unwritten \subseteq 1..MaxEvents
    /\ ids \in 0..MaxEvents /\ faults \in 0..MaxFaults

\* The two tables agree: where a user has an active invite, the membership
\* table says "invite".  SetToJoin of an update and updateToLeaveMembership
\* of a user who has left retire no invites because they rely on it.
ActiveInviteMeansInvited ==
    \A s \in Servers, u \in Users : tab[s][u].active # {} => tab[s][u].m = "invite"

\* An invite reaches the local server as a request, as an event of a room it
\* is in, and in the state of a room it joins.  Whichever comes first inserts
\* it and announces it; an active invite has been announced, or the request
\* that inserted it is about to, or was cut off by a restart.
EveryInviteIsAnnounced ==
    \A u \in Users : tab[Local][u].active \subseteq
        told \cup unwritten \cup (IF request.pc = "output" THEN {request.event.id} ELSE {})

\* A user is in joins only while a federated join of theirs is running: no
\* way out of PerformJoin leaves them there, to be refused from then on.
JoinsAreReleased ==
    \A u \in joins : \E c \in Calls :
        call[c].user = u /\ call[c].pc \in {"make", "send", "process"}

\* On the resident server, whose state is never replaced as a whole, the
\* membership table follows the room state through every conflict, although
\* updateMembership returns early for a membership that did not change.
ResidentRowsFollowState ==
    \A u \in Users : tab[Resident][u].m =
        IF state[Resident][u].m = "ban" THEN "leave" ELSE state[Resident][u].m

=============================================================================
