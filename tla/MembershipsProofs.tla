------------------------- MODULE MembershipsProofs -------------------------
(***************************************************************************)
(* Proofs about memberships and invites, for any users, concurrent         *)
(* requests, join rule, and number of events and faults.                   *)
(***************************************************************************)
EXTENDS Memberships, TLAPS

\* The bounds are numbers.
LEMMA Bounds == MaxEvents \in Nat /\ MaxFaults \in Nat /\ 0 \in 0..MaxEvents /\ 0 \in 0..MaxFaults
<1>1. MaxEvents \in Nat /\ MaxFaults \in Nat
  BY ZenonT(30), MembershipsAssumption
<1> QED
  BY <1>1

\* The fields of an event, and of the absence of one.
LEMMA EventFacts ==
    ASSUME NEW e \in EventOrNone
    PROVE  /\ e.id \in 0..MaxEvents /\ e.m \in {"leave", "invite", "join", "ban"}
           /\ e.from \in {"leave", "invite", "join", "ban"}
           /\ e.past \in SUBSET (0..MaxEvents) /\ e.power \in BOOLEAN
           /\ (e.id # 0 \/ e.m # "leave") => e \in Events
<1>1. CASE e \in Events
  BY <1>1, Bounds DEF Events
<1>2. CASE e = NoEvent
  BY <1>2, Bounds DEF NoEvent
<1> QED
  BY <1>1, <1>2 DEF EventOrNone

\* An event that is built on top of a state is an event.
LEMMA BuildEventType ==
    ASSUME NEW cur \in EventOrNone, NEW m \in {"leave", "invite", "join", "ban"},
           NEW power \in BOOLEAN, ids \in 0..MaxEvents, ids < MaxEvents
    PROVE  BuildEvent(cur, m, power) \in Events
<1>1. ids + 1 \in 1..MaxEvents
  BY Bounds
<1>2. cur.past \cup {cur.id} \in SUBSET (0..MaxEvents)
  BY EventFacts
<1> QED
  BY <1>1, <1>2, EventFacts DEF BuildEvent, Events

\* State resolution picks one of the two events, and another one than the
\* current only if its ID is another one.
LEMMA LatestStateFacts ==
    ASSUME NEW cur, NEW e
    PROVE  LatestState(cur, e) = cur \/ (LatestState(cur, e) = e /\ e.id # cur.id)
<1>1. ResolveConflict(cur, e) = cur \/ ResolveConflict(cur, e) = e
  BY DEF ResolveConflict
<1>2. Accepted(cur, e) => e.id # cur.id
  BY DEF Accepted, Follows
<1> QED
  BY <1>1, <1>2 DEF LatestState

Agrees(t) == t.active # {} => t.m = "invite"

\* A row stays a row, and agrees with the invites, when the membership of the
\* user changes; the row then has the membership of the new event.
LEMMA UpdateMembershipFacts ==
    ASSUME NEW t \in Rows, Agrees(t), NEW old, NEW new \in Events
    PROVE  /\ UpdateMembership(t, old, new) \in Rows
           /\ Agrees(UpdateMembership(t, old, new))
           /\ UpdateMembership(t, old, new) = t
              \/ UpdateMembership(t, old, new).m = (IF new.m = "ban" THEN "leave" ELSE new.m)
           /\ ~(old = new.m /\ new.m # "join") =>
                 UpdateMembership(t, old, new).m = (IF new.m = "ban" THEN "leave" ELSE new.m)
<1>1. new.m \in {"leave", "invite", "join", "ban"} /\ new.id \in 1..MaxEvents
  BY DEF Events
<1>2. CASE old = new.m /\ new.m # "join"
  <2>1. UpdateMembership(t, old, new) = t
    BY <1>2 DEF UpdateMembership
  <2> QED BY <1>2, <2>1
<1>3. CASE ~(old = new.m /\ new.m # "join") /\ new.m = "invite"
  <2>1. UpdateMembership(t, old, new) = SetToInvite(t, new.id)
    BY <1>3 DEF UpdateMembership
  <2>2. InsertInviteEvent(t, new.id) \in Rows
    BY <1>1 DEF InsertInviteEvent, Rows
  <2>3. SetToInvite(t, new.id) \in Rows /\ SetToInvite(t, new.id).m = "invite"
    <3>1. CASE t.m = "invite"
      BY <2>2, <3>1 DEF SetToInvite, InsertInviteEvent, Rows
    <3>2. CASE t.m # "invite"
      <4>1. SetToInvite(t, new.id) = UpdateMembershipRow(InsertInviteEvent(t, new.id), "invite", "none")
        BY <3>2 DEF SetToInvite
      <4>2. ASSUME NEW r \in Rows
            PROVE  UpdateMembershipRow(r, "invite", "none") \in Rows
                   /\ UpdateMembershipRow(r, "invite", "none").m = "invite"
        BY ZenonT(30) DEF UpdateMembershipRow, Rows
      <4> QED BY <2>2, <4>1, <4>2
    <3> QED BY <3>1, <3>2
  <2> QED BY <1>3, <2>1, <2>3 DEF Agrees
<1>4. CASE ~(old = new.m /\ new.m # "join") /\ new.m = "join"
  <2>1. UpdateMembership(t, old, new) = SetToJoin(t, t.m = "join")
    BY <1>4 DEF UpdateMembership, UpdateToJoinMembership
  <2>2. SetToJoin(t, t.m = "join") \in Rows /\ SetToJoin(t, t.m = "join").m = "join"
        /\ SetToJoin(t, t.m = "join").active = {}
    BY ZenonT(30) DEF SetToJoin, UpdateMembershipRow, UpdateInviteRetired, Rows, Agrees
  <2> QED BY <1>4, <2>1, <2>2 DEF Agrees
<1>5. CASE ~(old = new.m /\ new.m # "join") /\ new.m \in {"leave", "ban"}
  <2>1. UpdateMembership(t, old, new) = UpdateToLeaveMembership(t, new.m)
    BY <1>5 DEF UpdateMembership
  <2>2. UpdateToLeaveMembership(t, new.m) \in Rows /\ UpdateToLeaveMembership(t, new.m).m = "leave"
        /\ UpdateToLeaveMembership(t, new.m).active = {}
    <3>1. CASE t.m = "leave"
      BY <3>1 DEF UpdateToLeaveMembership, Agrees
    <3>2. CASE t.m # "leave"
      BY <1>5, <3>2, ZenonT(30) DEF UpdateToLeaveMembership, SetToLeave, UpdateMembershipRow, UpdateInviteRetired, Rows
    <3> QED BY <3>1, <3>2
  <2> QED BY <1>5, <2>1, <2>2 DEF Agrees
<1> QED
  BY <1>1, <1>2, <1>3, <1>4, <1>5

-----------------------------------------------------------------------------
(* The state of the room, the tables and the output log.                   *)

TableTypes ==
    /\ state \in [Servers -> [Users -> EventOrNone]]
    /\ tab \in [Servers -> [Users -> Rows]]
    /\ log \in Seq(Entries)
    /\ shown \subseteq 1..MaxEvents /\ told \subseteq 1..MaxEvents /\ unwritten \subseteq 1..MaxEvents

\* A request that is being served has a user, and an event or an invite where
\* its next step needs one.
Busy ==
    /\ \A c \in Calls :
          /\ call[c].pc # "idle" => call[c].user \in Users
          /\ call[c].pc \in {"input", "send", "process", "sendleave"} => call[c].event \in Events
          /\ call[c].pc \in {"makeleave", "sendleave", "retire"} => call[c].invite \in 1..MaxEvents
    /\ request.pc # "idle" => request.user \in Users /\ request.event \in Events

\* What is written to the output log has its type, and names every invite
\* that the rows gained.
LEMMA WriteOutputEventsFacts ==
    ASSUME TableTypes, NEW t \in [Users -> Rows], NEW after \in [Users -> Rows],
           WriteOutputEvents(t, after)
    PROVE  /\ log' \in Seq(Entries)
           /\ shown' \subseteq 1..MaxEvents /\ told' \subseteq 1..MaxEvents
           /\ unwritten' \subseteq 1..MaxEvents
           /\ told \subseteq told' /\ unwritten' = unwritten
           /\ \A u \in Users : after[u].active \subseteq t[u].active \cup told'
<1> DEFINE new == UNION {NewInvites(t[u], after[u]) : u \in Users}
           gone == UNION {after[u].retired \ t[u].retired : u \in Users}
<1>1. \A u \in Users : after[u].active \subseteq 1..MaxEvents /\ after[u].retired \subseteq 1..MaxEvents
  BY DEF Rows
<1>2. new \in SUBSET (1..MaxEvents)
  BY <1>1 DEF NewInvites
<1>3. gone \in SUBSET (1..MaxEvents)
  BY <1>1
<1>4. \A u \in Users : after[u].active \subseteq t[u].active \cup new
  BY DEF NewInvites
<1>5. /\ log' = IF new \cup gone = {} THEN log ELSE Append(log, [new |-> new, retired |-> gone])
      /\ told' = told \cup new
      /\ shown' = shown /\ unwritten' = unwritten
  BY DEF WriteOutputEvents
<1> HIDE DEF new, gone
<1>6. [new |-> new, retired |-> gone] \in Entries
  BY <1>2, <1>3 DEF Entries
<1>7. log' \in Seq(Entries)
  BY <1>5, <1>6 DEF TableTypes
<1> QED
  BY <1>2, <1>4, <1>5, <1>7 DEF TableTypes

\* A new event keeps the types of the tables and their agreement, and on the
\* resident server the row follows the state.
LEMMA ProcessRoomEventFacts ==
    ASSUME TableTypes, ActiveInviteMeansInvited, NEW s \in Servers, NEW u \in Users, NEW e \in Events,
           ProcessRoomEvent(s, u, e)
    PROVE  /\ TableTypes' /\ ActiveInviteMeansInvited'
           /\ ResidentRowsFollowState => ResidentRowsFollowState'
           /\ told \subseteq told' /\ unwritten' = unwritten
           /\ \A v \in Users : tab'[Local][v].active \subseteq tab[Local][v].active \cup told'
<1> DEFINE cur == state[s][u]
           new == LatestState(cur, e)
           after == IF new.id = cur.id THEN tab[s]
                    ELSE [tab[s] EXCEPT ![u] = UpdateMembership(@, cur.m, new)]
<1>1. /\ state' = [state EXCEPT ![s][u] = new]
      /\ tab' = [tab EXCEPT ![s] = after]
      /\ IF s = Local THEN WriteOutputEvents(tab[s], after) ELSE UNCHANGED sync
  BY DEF ProcessRoomEvent
<1>2. cur \in EventOrNone /\ tab[s] \in [Users -> Rows] /\ tab[s][u] \in Rows /\ Agrees(tab[s][u])
  BY DEF TableTypes, ActiveInviteMeansInvited, Agrees
<1>3. new = cur \/ (new = e /\ e.id # cur.id)
  BY LatestStateFacts
<1>4. new \in EventOrNone
  BY <1>2, <1>3 DEF EventOrNone
<1>5. new.id # cur.id => new = e
  BY <1>3
<1> DEFINE row == UpdateMembership(tab[s][u], cur.m, e)
<1>6. /\ row \in Rows /\ Agrees(row)
      /\ ~(cur.m = e.m /\ e.m # "join") => row.m = (IF e.m = "ban" THEN "leave" ELSE e.m)
  BY <1>2, UpdateMembershipFacts
<1>7. (cur.m = e.m /\ e.m # "join") => row = tab[s][u]
  BY DEF UpdateMembership
<1>8. after = IF new.id = cur.id THEN tab[s] ELSE [tab[s] EXCEPT ![u] = row]
  BY <1>5
<1> HIDE DEF cur, new, after, row
<1>9. after \in [Users -> Rows] /\ \A v \in Users : Agrees(after[v])
  <2>1. \A v \in Users : Agrees(tab[s][v])
    BY DEF ActiveInviteMeansInvited, Agrees
  <2> QED BY <1>2, <1>6, <1>8, <2>1
<1>10. state' \in [Servers -> [Users -> EventOrNone]]
  BY <1>1, <1>4 DEF TableTypes
<1>11. tab' \in [Servers -> [Users -> Rows]]
  BY <1>1, <1>9 DEF TableTypes
<1>12. ActiveInviteMeansInvited'
  BY <1>1, <1>9 DEF TableTypes, ActiveInviteMeansInvited, Agrees
<1>13. /\ log' \in Seq(Entries)
       /\ shown' \subseteq 1..MaxEvents /\ told' \subseteq 1..MaxEvents /\ unwritten' \subseteq 1..MaxEvents
       /\ told \subseteq told' /\ unwritten' = unwritten
       /\ \A v \in Users : tab'[Local][v].active \subseteq tab[Local][v].active \cup told'
  <2>1. CASE s = Local
    <3>1. tab'[Local] = after
      BY <1>1, <2>1 DEF TableTypes
    <3>2. WriteOutputEvents(tab[Local], after) /\ tab[Local] \in [Users -> Rows]
      BY <1>1, <1>2, <2>1
    <3> QED BY <1>9, <3>1, <3>2, WriteOutputEventsFacts
  <2>2. CASE s # Local
    <3>1. tab'[Local] = tab[Local]
      BY <1>1, <2>2 DEF TableTypes
    <3>2. UNCHANGED sync
      BY <1>1, <2>2
    <3> QED BY <3>1, <3>2 DEF TableTypes, sync
  <2> QED BY <2>1, <2>2
<1>14. ASSUME ResidentRowsFollowState PROVE ResidentRowsFollowState'
  <2>1. CASE s # Resident
    <3>1. tab'[Resident] = tab[Resident] /\ state'[Resident] = state[Resident]
      BY <1>1, <2>1 DEF TableTypes
    <3> QED BY <1>14, <3>1 DEF ResidentRowsFollowState
  <2>2. CASE s = Resident
    <3>1. tab'[Resident] = after /\ state'[Resident] = [state[Resident] EXCEPT ![u] = new]
      BY <1>1, <2>2 DEF TableTypes, Servers
    <3>2. ASSUME NEW v \in Users, v # u
          PROVE  after[v] = tab[Resident][v] /\ [state[Resident] EXCEPT ![u] = new][v] = state[Resident][v]
      BY <1>2, <1>8, <2>2, <3>2 DEF TableTypes, Servers
    <3>3. after[u].m = IF new.m = "ban" THEN "leave" ELSE new.m
      <4>1. tab[s][u].m = IF cur.m = "ban" THEN "leave" ELSE cur.m
        BY <1>14, <2>2 DEF ResidentRowsFollowState, cur
      <4>2. CASE new.id = cur.id
        BY <1>3, <1>8, <4>1, <4>2
      <4>3. CASE new.id # cur.id
        <5>1. after[u] = row
          BY <1>2, <1>8, <4>3
        <5> QED BY <1>5, <1>6, <1>7, <4>1, <4>3, <5>1
      <4> QED BY <4>2, <4>3
    <3>4. [state[Resident] EXCEPT ![u] = new][u] = new
      BY DEF TableTypes, Servers
    <3> QED BY <1>14, <3>1, <3>2, <3>3, <3>4 DEF ResidentRowsFollowState
  <2> QED BY <2>1, <2>2
<1> QED
  BY <1>10, <1>11, <1>12, <1>13, <1>14 DEF TableTypes

Tables ==
    /\ TableTypes /\ ActiveInviteMeansInvited /\ ResidentRowsFollowState /\ EveryInviteIsAnnounced

\* A new event keeps what holds of the tables, if the invite that is about to
\* be announced stays the same.
LEMMA ProcessKeepsTables ==
    ASSUME Tables, NEW s \in Servers, NEW u \in Users, NEW e \in Events, ProcessRoomEvent(s, u, e),
           request.pc = "output" => request' = request
    PROVE  Tables'
<1>1. /\ TableTypes' /\ ActiveInviteMeansInvited' /\ ResidentRowsFollowState'
      /\ told \subseteq told' /\ unwritten' = unwritten
      /\ \A v \in Users : tab'[Local][v].active \subseteq tab[Local][v].active \cup told'
  BY ProcessRoomEventFacts DEF Tables
<1>2. EveryInviteIsAnnounced'
  BY <1>1 DEF Tables, EveryInviteIsAnnounced
<1> QED
  BY <1>1, <1>2 DEF Tables

\* Nothing changes if neither the tables nor the announcements do.
LEMMA QuietKeepsTables ==
    ASSUME Tables, UNCHANGED <<state, tab, sync>>, request.pc = "output" => request' = request
    PROVE  Tables'
<1>1. TableTypes' /\ ActiveInviteMeansInvited' /\ ResidentRowsFollowState'
  BY DEF Tables, TableTypes, ActiveInviteMeansInvited, ResidentRowsFollowState, sync
<1>2. EveryInviteIsAnnounced'
  BY DEF Tables, EveryInviteIsAnnounced, sync
<1> QED
  BY <1>1, <1>2 DEF Tables

\* A federated join replaces the state of the room on the local server.
LEMMA JoinKeepsTables ==
    ASSUME TypeOK, Busy, Tables, NEW c \in Calls, SendEventWithState(c)
    PROVE  Tables'
<1> DEFINE u == call[c].user
           e == call[c].event
           new == [v \in Users |-> IF v = u THEN e ELSE call[c].before[v]]
           after == [v \in Users |-> IF new[v].id = 0 THEN tab[Local][v]
                                     ELSE UpdateMembership(tab[Local][v], "leave", new[v])]
<1>1. request' = request /\ call[c].pc = "process"
  BY DEF SendEventWithState
<1>2. CASE known /\ Follows(e, state[Local][u])
  <2>1. UNCHANGED <<state, tab, sync>>
    BY <1>2 DEF SendEventWithState
  <2> QED BY <1>1, <2>1, QuietKeepsTables
<1>3. CASE ~(known /\ Follows(e, state[Local][u]))
  <2>1. /\ state' = [state EXCEPT ![Local] = new]
        /\ tab' = [tab EXCEPT ![Local] = after]
        /\ WriteOutputEvents(tab[Local], after)
    BY <1>3 DEF SendEventWithState
  <2>2. e \in Events /\ call[c].before \in [Users -> EventOrNone]
    BY <1>1 DEF Busy, TypeOK, CallRecords
  <2>3. \A v \in Users : new[v] \in EventOrNone
    BY <2>2 DEF EventOrNone
  <2>4. new \in [Users -> EventOrNone]
    BY <2>3
  <2>5. tab[Local] \in [Users -> Rows] /\ Local \in Servers /\ Resident \in Servers /\ Local # Resident
    BY DEF Tables, TableTypes, Servers, Local, Resident
  <2> HIDE DEF new
  <2>6. ASSUME NEW v \in Users PROVE after[v] \in Rows /\ Agrees(after[v])
    <3>1. tab[Local][v] \in Rows /\ Agrees(tab[Local][v])
      BY <2>5 DEF Tables, ActiveInviteMeansInvited, Agrees
    <3>2. CASE new[v].id = 0
      BY <3>1, <3>2
    <3>3. CASE new[v].id # 0
      <4>1. new[v] \in Events
        BY <2>3, <3>3, EventFacts
      <4>2. UpdateMembership(tab[Local][v], "leave", new[v]) \in Rows
            /\ Agrees(UpdateMembership(tab[Local][v], "leave", new[v]))
        BY <3>1, <4>1, UpdateMembershipFacts
      <4> QED BY <3>3, <4>2
    <3> QED BY <3>2, <3>3
  <2>7. after \in [Users -> Rows]
    BY <2>6
  <2> HIDE DEF after
  <2>8. /\ log' \in Seq(Entries)
        /\ shown' \subseteq 1..MaxEvents /\ told' \subseteq 1..MaxEvents
        /\ unwritten' \subseteq 1..MaxEvents
        /\ told \subseteq told' /\ unwritten' = unwritten
        /\ \A v \in Users : after[v].active \subseteq tab[Local][v].active \cup told'
    BY <2>1, <2>5, <2>7, WriteOutputEventsFacts DEF Tables
  <2>9. tab'[Local] = after /\ tab'[Resident] = tab[Resident] /\ state'[Resident] = state[Resident]
    BY <2>1, <2>5 DEF Tables, TableTypes
  <2>10. TableTypes'
    BY <2>1, <2>4, <2>5, <2>7, <2>8 DEF Tables, TableTypes
  <2>11. ActiveInviteMeansInvited'
    BY <2>6, <2>9 DEF Tables, ActiveInviteMeansInvited, Agrees, Servers
  <2>12. ResidentRowsFollowState'
    BY <2>9 DEF Tables, ResidentRowsFollowState
  <2>13. EveryInviteIsAnnounced'
    BY <1>1, <2>8, <2>9, ZenonT(30) DEF Tables, EveryInviteIsAnnounced
  <2> QED BY SMTT(30), <2>10, <2>11, <2>12, <2>13 DEF Tables
<1> QED
  BY SMTT(30), <1>2, <1>3

\* A request of /invite inserts its invite, which it then announces.
LEMMA InviteKeepsTables ==
    ASSUME TypeOK, Busy, Tables, CommitInvite \/ OutputInvite
    PROVE  Tables'
<1>1. CASE CommitInvite
  <2> DEFINE u == request.user
             t == tab[Local][u]
             after == SetToInvite(t, request.event.id)
  <2>1. /\ request.pc = "commit" /\ tab' = [tab EXCEPT ![Local][u] = after]
        /\ request' = [request EXCEPT !.pc = IF NewInvites(t, after) = {} THEN "input" ELSE "output"]
        /\ UNCHANGED <<state, sync>>
    BY <1>1 DEF CommitInvite
  <2>2. u \in Users /\ request.event.id \in 1..MaxEvents
    BY <2>1 DEF Busy, Events
  <2>3. t \in Rows /\ Local \in Servers /\ Resident \in Servers /\ Local # Resident
    BY SMTT(30), <2>2 DEF Tables, TableTypes, Servers, Local, Resident
  <2>4. InsertInviteEvent(t, request.event.id) \in Rows
        /\ InsertInviteEvent(t, request.event.id).active \subseteq t.active \cup {request.event.id}
        /\ InsertInviteEvent(t, request.event.id).m = t.m
    BY SMTT(30), <2>2, <2>3 DEF InsertInviteEvent, Rows
  <2>5. /\ after \in Rows /\ after.m = "invite"
        /\ after.active \subseteq t.active \cup {request.event.id}
    <3>1. CASE t.m = "invite"
      BY SMTT(30), <2>4, <3>1 DEF SetToInvite
    <3>2. CASE t.m # "invite"
      <4>1. after = UpdateMembershipRow(InsertInviteEvent(t, request.event.id), "invite", "none")
        BY <3>2 DEF SetToInvite
      <4>2. ASSUME NEW r \in Rows
            PROVE  /\ UpdateMembershipRow(r, "invite", "none") \in Rows
                   /\ UpdateMembershipRow(r, "invite", "none").m = "invite"
                   /\ UpdateMembershipRow(r, "invite", "none").active = r.active
        BY ZenonT(30) DEF UpdateMembershipRow, Rows
      <4> QED BY <2>4, <4>1, <4>2
    <3> QED BY SMTT(30), <3>1, <3>2
  <2>6. after.active \subseteq t.active \/ (request'.pc = "output" /\ request'.event = request.event)
    BY <2>1 DEF NewInvites, TypeOK, Requests
  <2> HIDE DEF after
  <2>7. /\ tab' \in [Servers -> [Users -> Rows]]
        /\ tab'[Resident] = tab[Resident]
        /\ \A v \in Users : tab'[Local][v] = IF v = u THEN after ELSE tab[Local][v]
    BY <2>1, <2>2, <2>3, <2>5 DEF Tables, TableTypes
  <2>8. TableTypes' /\ ResidentRowsFollowState'
    BY <2>1, <2>7 DEF Tables, TableTypes, ResidentRowsFollowState, sync
  <2>9. ActiveInviteMeansInvited'
    BY <2>5, <2>7 DEF Tables, ActiveInviteMeansInvited, Servers
  <2>10. EveryInviteIsAnnounced'
    <3>1. \A v \in Users : tab[Local][v].active \subseteq told \cup unwritten
      BY <2>1 DEF Tables, EveryInviteIsAnnounced
    <3>2. told' = told /\ unwritten' = unwritten
      BY <2>1 DEF sync
    <3>3. CASE after.active \subseteq t.active
      BY <2>2, <2>7, <3>1, <3>2, <3>3 DEF EveryInviteIsAnnounced
    <3>4. CASE request'.pc = "output" /\ request'.event = request.event
      BY <2>2, <2>5, <2>7, <3>1, <3>2, <3>4 DEF EveryInviteIsAnnounced
    <3> QED BY <2>6, <3>3, <3>4
  <2> QED BY <2>8, <2>9, <2>10 DEF Tables
<1>2. CASE OutputInvite
  <2>1. /\ request.pc = "output"
        /\ log' = Append(log, [new |-> {request.event.id}, retired |-> {}])
        /\ told' = told \cup {request.event.id}
        /\ UNCHANGED <<state, tab, shown, unwritten>>
    BY <1>2 DEF OutputInvite, servers
  <2>2. request.event.id \in 1..MaxEvents
    BY <2>1 DEF Busy, Events
  <2>3. [new |-> {request.event.id}, retired |-> {}] \in Entries
    BY <2>2 DEF Entries
  <2>4. TableTypes'
    <3>1. log' \in Seq(Entries)
      BY <2>1, <2>3 DEF Tables, TableTypes
    <3>2. told' \subseteq 1..MaxEvents
      BY <2>1, <2>2, ZenonT(30) DEF Tables, TableTypes
    <3> QED BY <2>1, <3>1, <3>2 DEF Tables, TableTypes
  <2>5. ActiveInviteMeansInvited' /\ ResidentRowsFollowState' /\ EveryInviteIsAnnounced'
    BY <2>1 DEF Tables, ActiveInviteMeansInvited, ResidentRowsFollowState, EveryInviteIsAnnounced
  <2> QED BY <2>4, <2>5 DEF Tables
<1> QED
  BY <1>1, <1>2

\* Every step keeps what holds of the tables.
LEMMA TablesStep ==
    ASSUME TypeOK, Busy, Tables, [Next]_vars
    PROVE  Tables'
<1>1. CASE UNCHANGED vars
  <2>1. UNCHANGED <<state, tab, sync>> /\ request' = request
    BY <1>1 DEF vars, servers
  <2> QED BY <2>1, QuietKeepsTables
<1>2. ASSUME NEW c \in Calls, NEW u \in Users, PerformJoin(c, u) \/ PerformLeave(c, u) \/ SendForget(c, u)
      PROVE  Tables'
  <2>1. UNCHANGED <<state, tab, sync>> /\ request' = request
    BY <1>2, ZenonT(30) DEF PerformJoin, PerformLeave, SendForget, servers
  <2> QED BY <2>1, QuietKeepsTables
<1>3. ASSUME NEW c \in Calls, BuildJoin(c) \/ LoadJoins(c) \/ StoreJoins(c) \/ MakeJoin(c)
                              \/ ProcessJoinFails(c) \/ MakeLeave(c)
      PROVE  Tables'
  <2>1. UNCHANGED <<state, tab, sync>> /\ request' = request
    BY <1>3, ZenonT(30) DEF BuildJoin, LoadJoins, StoreJoins, MakeJoin, ProcessJoinFails, MakeLeave, servers
  <2> QED BY <2>1, QuietKeepsTables, ZenonT(30)
<1>4. ASSUME NEW c \in Calls, InputRoomEvents(c) PROVE Tables'
  <2>1. call[c].user \in Users /\ call[c].event \in Events
    BY SMTT(30), <1>4 DEF InputRoomEvents, Busy
  <2>2. ProcessRoomEvent(Local, call[c].user, call[c].event) /\ request' = request
    BY <1>4 DEF InputRoomEvents
  <2> QED BY SMTT(30), <2>1, <2>2, ProcessKeepsTables DEF Servers
<1>5. ASSUME NEW c \in Calls, SendJoin(c) PROVE Tables'
  <2>1. call[c].user \in Users /\ call[c].event \in Events
    BY SMTT(30), <1>5 DEF SendJoin, Busy
  <2>2. request' = request
    BY <1>5 DEF SendJoin
  <2>3. CASE call[c].before[call[c].user].m = "join"
    <3>1. UNCHANGED <<state, tab, sync>>
      BY <1>5, <2>3 DEF SendJoin
    <3> QED BY <2>2, <3>1, QuietKeepsTables
  <2>4. CASE call[c].before[call[c].user].m # "join"
    <3>1. ProcessRoomEvent(Resident, call[c].user, call[c].event)
      BY <1>5, <2>4 DEF SendJoin, ProcessAndSend
    <3> QED BY SMTT(30), <2>1, <2>2, <3>1, ProcessKeepsTables DEF Servers
  <2> QED BY <2>3, <2>4
<1>6. ASSUME NEW c \in Calls, SendLeave(c) PROVE Tables'
  <2>1. call[c].user \in Users /\ call[c].event \in Events
    BY SMTT(30), <1>6 DEF SendLeave, Busy
  <2>2. request' = request
    BY <1>6 DEF SendLeave
  <2>3. CASE state[Resident][call[c].user].m = "leave"
    <3>1. UNCHANGED <<state, tab, sync>>
      BY SMTT(30), <1>6, <2>3 DEF SendLeave
    <3> QED BY <2>2, <3>1, QuietKeepsTables
  <2>4. CASE state[Resident][call[c].user].m # "leave"
    <3>1. ProcessRoomEvent(Resident, call[c].user, call[c].event)
      BY <1>6, <2>4 DEF SendLeave, ProcessAndSend
    <3> QED BY <2>1, <2>2, <3>1, ProcessKeepsTables DEF Servers
  <2> QED BY SMTT(30), <2>3, <2>4
<1>7. ASSUME NEW c \in Calls, RetireInvite(c) PROVE Tables'
  <2>1. call[c].invite \in 1..MaxEvents
    BY <1>7 DEF RetireInvite, Busy
  <2>2. [new |-> {}, retired |-> {call[c].invite}] \in Entries
    BY <2>1 DEF Entries
  <2>3. /\ log' = Append(log, [new |-> {}, retired |-> {call[c].invite}])
        /\ UNCHANGED <<state, tab, shown, told, unwritten, request>>
    BY <1>7 DEF RetireInvite, servers
  <2>4. log' \in Seq(Entries)
    BY <2>2, <2>3 DEF Tables, TableTypes
  <2>5. TableTypes'
    BY SMTT(30), <2>3, <2>4 DEF Tables, TableTypes
  <2>6. ActiveInviteMeansInvited' /\ ResidentRowsFollowState' /\ EveryInviteIsAnnounced'
    BY <2>3 DEF Tables, ActiveInviteMeansInvited, ResidentRowsFollowState, EveryInviteIsAnnounced
  <2> QED BY SMTT(30), <2>5, <2>6 DEF Tables
<1>8. ASSUME NEW c \in Calls, ForgetRoom(c) PROVE Tables'
  <2> DEFINE u == call[c].user
             row == [tab[Local][u] EXCEPT !.forgotten = TRUE]
  <2>1. u \in Users /\ Local \in Servers /\ Resident \in Servers /\ Local # Resident
    BY <1>8 DEF ForgetRoom, Busy, Servers, Local, Resident
  <2>2. tab' = [tab EXCEPT ![Local][u].forgotten = TRUE] /\ UNCHANGED <<state, sync, request>>
    BY <1>8 DEF ForgetRoom
  <2>3. tab[Local][u] \in Rows
    BY <2>1 DEF Tables, TableTypes
  <2>4. row \in Rows /\ row.m = tab[Local][u].m /\ row.active = tab[Local][u].active
    BY <2>3, ZenonT(30) DEF Rows
  <2>5. /\ tab' \in [Servers -> [Users -> Rows]]
        /\ tab'[Resident] = tab[Resident]
        /\ \A v \in Users : tab'[Local][v] = IF v = u THEN row ELSE tab[Local][v]
    BY SMTT(30), <2>1, <2>2, <2>4 DEF Tables, TableTypes
  <2> HIDE DEF row
  <2>6. TableTypes' /\ ResidentRowsFollowState'
    BY SMTT(30), <2>2, <2>5 DEF Tables, TableTypes, ResidentRowsFollowState, sync
  <2>7. ActiveInviteMeansInvited'
    BY SMTT(30), <2>4, <2>5 DEF Tables, ActiveInviteMeansInvited, Servers
  <2>8. EveryInviteIsAnnounced'
    BY <2>2, <2>4, <2>5 DEF Tables, EveryInviteIsAnnounced, sync
  <2> QED BY <2>6, <2>7, <2>8 DEF Tables
<1>9. ASSUME NEW u \in Users, PerformInvite(u) \/ SendKick(u) \/ SendUnban(u) \/ SendBan(u)
      PROVE  Tables'
  <2>1. UNCHANGED <<state, tab, sync>> /\ request.pc = "idle"
    BY <1>9, ZenonT(30) DEF PerformInvite, SendKick, SendUnban, SendBan, NewRequest, servers
  <2> QED BY <2>1, QuietKeepsTables
<1>10. ASSUME IsAlreadyJoined PROVE Tables'
  <2>1. UNCHANGED <<state, tab, sync>> /\ request.pc = "invite"
    BY <1>10 DEF IsAlreadyJoined, servers
  <2> QED BY <2>1, QuietKeepsTables
<1>11. ASSUME InputRequest PROVE Tables'
  <2>1. request.pc = "input" /\ request.user \in Users /\ request.event \in Events
    BY <1>11 DEF InputRequest, Busy
  <2>2. CASE request.valid
    <3>1. ProcessRoomEvent(Resident, request.user, request.event)
      BY <1>11, <2>2 DEF InputRequest, ProcessAndSend
    <3> QED BY <2>1, <3>1, ProcessKeepsTables DEF Servers
  <2>3. CASE ~request.valid
    <3>1. UNCHANGED <<state, tab, sync>>
      BY <1>11, <2>3 DEF InputRequest
    <3> QED BY <2>1, <3>1, QuietKeepsTables
  <2> QED BY <2>2, <2>3
<1>12. ASSUME NEW s \in Servers, ReceiveEvent(s) PROVE Tables'
  <2>1. Head(net[s]) \in Messages
    BY <1>12 DEF ReceiveEvent, TypeOK
  <2>2. Head(net[s]).user \in Users /\ Head(net[s]).event \in Events /\ request' = request
    BY <1>12, <2>1 DEF Messages, ReceiveEvent
  <2>3. CASE s = Resident \/ known
    <3>1. ProcessRoomEvent(s, Head(net[s]).user, Head(net[s]).event)
      BY <1>12, <2>3 DEF ReceiveEvent
    <3> QED BY <2>2, <3>1, ProcessKeepsTables
  <2>4. CASE ~(s = Resident \/ known)
    <3>1. UNCHANGED <<state, tab, sync>>
      BY <1>12, <2>4 DEF ReceiveEvent
    <3> QED BY <2>2, <3>1, QuietKeepsTables
  <2> QED BY <2>3, <2>4
<1>13. ASSUME ReadLog PROVE Tables'
  <2>1. /\ log # <<>> /\ shown' = (shown \ Head(log).retired) \cup Head(log).new /\ log' = Tail(log)
        /\ UNCHANGED <<state, tab, told, unwritten, request>>
    BY <1>13 DEF ReadLog, servers
  <2>2. Head(log) \in Entries /\ Tail(log) \in Seq(Entries)
    BY <2>1 DEF Tables, TableTypes
  <2>3. Head(log).new \subseteq 1..MaxEvents
    BY <2>2 DEF Entries
  <2>4. TableTypes'
    BY <2>1, <2>2, <2>3, ZenonT(30) DEF Tables, TableTypes
  <2>5. ActiveInviteMeansInvited' /\ ResidentRowsFollowState' /\ EveryInviteIsAnnounced'
    BY <2>1 DEF Tables, ActiveInviteMeansInvited, ResidentRowsFollowState, EveryInviteIsAnnounced
  <2> QED BY <2>4, <2>5 DEF Tables
<1>14. ASSUME Restart PROVE Tables'
  <2>1. /\ UNCHANGED <<state, tab, log, shown, told>>
        /\ unwritten' = IF request.pc = "output" THEN unwritten \cup {request.event.id} ELSE unwritten
        /\ request.pc # "output" => request' = request \/ request'.pc = "idle"
    BY <1>14 DEF Restart, servers, IdleRequest
  <2>2. request.pc = "output" => request.event.id \in 1..MaxEvents
    BY DEF Busy, Events
  <2>3. unwritten' \subseteq 1..MaxEvents
    BY <2>1, <2>2, ZenonT(30) DEF Tables, TableTypes
  <2>4. TableTypes'
    BY <2>1, <2>3 DEF Tables, TableTypes
  <2>5. ActiveInviteMeansInvited' /\ ResidentRowsFollowState'
    BY <2>1 DEF Tables, ActiveInviteMeansInvited, ResidentRowsFollowState
  <2>6. EveryInviteIsAnnounced'
    <3>1. CASE request.pc = "output"
      BY <2>1, <3>1 DEF Tables, EveryInviteIsAnnounced
    <3>2. CASE request.pc # "output"
      BY <2>1, <3>2 DEF Tables, EveryInviteIsAnnounced
    <3> QED BY <3>1, <3>2
  <2> QED BY <2>4, <2>5, <2>6 DEF Tables
<1> QED
  BY <1>1, <1>2, <1>3, <1>4, <1>5, <1>6, <1>7, <1>8, <1>9, <1>10, <1>11, <1>12, <1>13, <1>14,
     JoinKeepsTables, InviteKeepsTables DEF Next, CallStep

-----------------------------------------------------------------------------
(* The requests, and the events on their way.                              *)

RequestTypes ==
    /\ known \in BOOLEAN /\ net \in [Servers -> Seq(Messages)]
    /\ joins \subseteq Users /\ call \in [Calls -> CallRecords] /\ request \in Requests
    /\ ids \in 0..MaxEvents /\ faults \in 0..MaxFaults

\* A request is as it should be: its record has its type and what its next
\* step needs.
CallOK(r) ==
    /\ r \in CallRecords
    /\ r.pc # "idle" => r.user \in Users
    /\ r.pc \in {"input", "send", "process", "sendleave"} => r.event \in Events
    /\ r.pc \in {"makeleave", "sendleave", "retire"} => r.invite \in 1..MaxEvents

\* A request that has ended.
LEMMA IdleCallOK == CallOK(IdleCall) /\ IdleCall.pc = "idle"
<1>1. NoEvent \in EventOrNone /\ 0 \in 0..MaxEvents
  BY Bounds DEF EventOrNone
<1> QED
  BY <1>1 DEF IdleCall, CallOK, CallRecords

\* The record of one request changes, to one that is as it should be, and
\* joins loses no user of another request.
LEMMA OneCall ==
    ASSUME TypeOK, Busy, NEW c \in Calls, NEW r, CallOK(r), call' = [call EXCEPT ![c] = r]
    PROVE  /\ call' \in [Calls -> CallRecords]
           /\ \A d \in Calls : CallOK(call'[d])
           /\ call'[c] = r /\ \A d \in Calls \ {c} : call'[d] = call[d]
<1>1. \A d \in Calls : CallOK(call[d])
  BY DEF TypeOK, Busy, CallOK
<1> QED
  BY SMTT(30), <1>1 DEF TypeOK, CallOK

\* Only the request of c changes, and only in its record: what holds of all
\* requests still does.
LEMMA CallStepKeeps ==
    ASSUME TypeOK, Busy, JoinsAreReleased, NEW c \in Calls, NEW r, CallOK(r),
           call' = [call EXCEPT ![c] = r], UNCHANGED request,
           \/ joins' = joins /\ (call[c].pc \in {"make", "send", "process"} =>
                                    r.user = call[c].user /\ r.pc \in {"make", "send", "process"})
           \/ joins' = joins \ {call[c].user}
           \/ joins' = joins \cup {r.user} /\ r.user \in Users /\ r.pc \in {"make", "send", "process"}
              /\ call[c].pc = "store"
    PROVE  /\ call' \in [Calls -> CallRecords] /\ joins' \subseteq Users /\ Busy' /\ JoinsAreReleased'
<1>1. /\ call' \in [Calls -> CallRecords]
      /\ \A d \in Calls : CallOK(call'[d])
      /\ call'[c] = r /\ \A d \in Calls \ {c} : call'[d] = call[d]
  BY OneCall, ZenonT(30)
<1>2. joins' \subseteq Users
  BY SMTT(30) DEF TypeOK
<1>3. Busy'
  BY <1>1 DEF Busy, CallOK
<1>4. JoinsAreReleased'
  <2> SUFFICES ASSUME NEW u \in joins'
               PROVE  \E d \in Calls : call'[d].user = u /\ call'[d].pc \in {"make", "send", "process"}
    BY DEF JoinsAreReleased
  <2>1. CASE u \in joins
    <3>1. PICK d \in Calls : call[d].user = u /\ call[d].pc \in {"make", "send", "process"}
      BY <2>1 DEF JoinsAreReleased
    <3>2. CASE d # c
      BY <1>1, <3>1, <3>2
    <3>3. CASE d = c
      BY <1>1, <3>1, <3>3
    <3> QED BY <3>2, <3>3
  <2>2. CASE u \notin joins
    BY <1>1, <2>2
  <2> QED BY <2>1, <2>2
<1> QED
  BY <1>1, <1>2, <1>3, <1>4

\* The membership events that the servers have are events.
LEMMA StateFacts ==
    ASSUME TypeOK, NEW s \in Servers, NEW u \in Users
    PROVE  state[s][u] \in EventOrNone
BY DEF TypeOK

\* An event that is sent to the other server.
LEMMA SendKeepsNet ==
    ASSUME TypeOK, NEW s \in Servers, NEW u \in Users, NEW e \in Events,
           \/ net' = net
           \/ net' = [net EXCEPT ![s] = Append(@, [user |-> u, event |-> e])]
    PROVE  net' \in [Servers -> Seq(Messages)]
<1>1. [user |-> u, event |-> e] \in Messages
  BY DEF Messages
<1>2. Append(net[s], [user |-> u, event |-> e]) \in Seq(Messages)
  BY <1>1 DEF TypeOK
<1> QED
  BY <1>2, ZenonT(30) DEF TypeOK

\* One event more is made.
LEMMA MakeEventFacts ==
    ASSUME TypeOK, MakeEvent
    PROVE  ids' \in 0..MaxEvents /\ ids \in 0..MaxEvents /\ ids < MaxEvents
BY Bounds DEF TypeOK, MakeEvent

\* One fault more.
LEMMA FaultFacts ==
    ASSUME TypeOK, faults < MaxFaults, faults' = faults + 1
    PROVE  faults' \in 0..MaxFaults
BY Bounds DEF TypeOK

\* What holds of the requests of both servers.
Requested == RequestTypes /\ Busy /\ JoinsAreReleased

\* A step towards a join keeps what holds of the requests.
LEMMA JoinStepKeepsRequests ==
    ASSUME TypeOK, Busy, JoinsAreReleased, NEW c \in Calls,
           \/ \E u \in Users : PerformJoin(c, u)
           \/ BuildJoin(c) \/ InputRoomEvents(c) \/ LoadJoins(c) \/ StoreJoins(c) \/ MakeJoin(c)
           \/ SendJoin(c) \/ SendEventWithState(c) \/ ProcessJoinFails(c)
    PROVE  Requested'
<1>0. /\ call[c] \in CallRecords /\ CallOK(call[c]) /\ CallOK(IdleCall) /\ IdleCall.pc = "idle"
      /\ Local \in Servers /\ Resident \in Servers
  BY IdleCallOK DEF TypeOK, Busy, CallOK, Servers
<1>1. ASSUME NEW u \in Users, PerformJoin(c, u) PROVE Requested'
  <2> DEFINE r == [IdleCall EXCEPT !.pc = IF ~IsServerCurrentlyInRoom \/ IsInvitePending(u)
                                          THEN "check" ELSE "build", !.user = u]
  <2>1. call[c].pc = "idle" /\ call' = [call EXCEPT ![c] = r]
        /\ UNCHANGED <<known, net, joins, request, ids, faults>>
    BY ZenonT(30), <1>1 DEF PerformJoin, servers
  <2>2. CallOK(r)
    BY <1>0, ZenonT(30) DEF CallOK, CallRecords
  <2> HIDE DEF r
  <2>3. call' \in [Calls -> CallRecords] /\ joins' \subseteq Users /\ Busy' /\ JoinsAreReleased'
    BY <2>1, <2>2, CallStepKeeps, ZenonT(30)
  <2> QED BY <2>1, <2>3, ZenonT(30) DEF Requested, RequestTypes, TypeOK
<1>2. ASSUME BuildJoin(c) PROVE Requested'
  <2> DEFINE cur == state[Local][call[c].user]
             e == BuildEvent(cur, "join", FALSE)
             r == [call[c] EXCEPT !.pc = "input", !.event = e]
  <2>1. call[c].pc = "build" /\ UNCHANGED <<known, net, joins, request, faults>>
    BY <1>2 DEF BuildJoin, servers
  <2>2. CASE MakeEvent /\ call' = [call EXCEPT ![c].pc = "input", ![c].event = e]
    <3>1. cur \in EventOrNone
      BY <1>0, <2>1, StateFacts DEF Busy
    <3>2. ids' \in 0..MaxEvents /\ e \in Events
      BY <2>2, <3>1, MakeEventFacts, BuildEventType, ZenonT(30)
    <3> HIDE DEF e
    <3>3. CallOK(r)
      BY <1>0, <2>1, <3>2, ZenonT(30) DEF CallOK, CallRecords, EventOrNone
    <3>4. call' = [call EXCEPT ![c] = r]
      BY <2>2, ZenonT(30)
    <3> HIDE DEF r
    <3>5. call' \in [Calls -> CallRecords] /\ joins' \subseteq Users /\ Busy' /\ JoinsAreReleased'
      BY <2>1, <3>3, <3>4, CallStepKeeps, ZenonT(30)
    <3> QED BY <2>1, <3>2, <3>5, ZenonT(30) DEF Requested, RequestTypes, TypeOK
  <2>3. CASE Done(c) /\ UNCHANGED ids
    <3>1. call' \in [Calls -> CallRecords] /\ joins' \subseteq Users /\ Busy' /\ JoinsAreReleased'
      BY <1>0, <2>1, <2>3, CallStepKeeps, ZenonT(30) DEF Done
    <3> QED BY <2>1, <2>3, <3>1 DEF Requested, RequestTypes, TypeOK
  <2> QED BY <1>2, <2>2, <2>3, ZenonT(30) DEF BuildJoin
<1>3. ASSUME InputRoomEvents(c) PROVE Requested'
  <2>1. /\ call[c].pc = "input" /\ Done(c) /\ UNCHANGED <<known, joins, request, ids, faults>>
        /\ \/ net' = net
           \/ net' = [net EXCEPT ![Resident] =
                         Append(@, [user |-> call[c].user, event |-> call[c].event])]
    BY <1>3, ZenonT(30) DEF InputRoomEvents
  <2>2. call' \in [Calls -> CallRecords] /\ joins' \subseteq Users /\ Busy' /\ JoinsAreReleased'
    BY <1>0, <2>1, CallStepKeeps, ZenonT(30) DEF Done
  <2>3. net' \in [Servers -> Seq(Messages)]
    BY SMTT(30), <1>0, <2>1, SendKeepsNet DEF CallOK
  <2> QED BY <2>1, <2>2, <2>3 DEF Requested, RequestTypes, TypeOK
<1>4. ASSUME LoadJoins(c) PROVE Requested'
  <2> DEFINE r == [call[c] EXCEPT !.pc = "store"]
  <2>1. call[c].pc = "check" /\ UNCHANGED <<known, net, joins, request, ids, faults>>
        /\ (call' = [call EXCEPT ![c] = IdleCall] \/ call' = [call EXCEPT ![c] = r])
    BY <1>4 DEF LoadJoins, Done, Goto, servers
  <2>2. CallOK(r)
    BY <1>0, <2>1, ZenonT(30) DEF CallOK, CallRecords
  <2> HIDE DEF r
  <2>3. call' \in [Calls -> CallRecords] /\ joins' \subseteq Users /\ Busy' /\ JoinsAreReleased'
    BY SMTT(30), <1>0, <2>1, <2>2, CallStepKeeps
  <2> QED BY <2>1, <2>3 DEF Requested, RequestTypes, TypeOK
<1>5. ASSUME StoreJoins(c) PROVE Requested'
  <2> DEFINE r == [call[c] EXCEPT !.pc = "make"]
  <2>1. call[c].pc = "store" /\ UNCHANGED <<known, net, request, ids, faults>>
        /\ call' = [call EXCEPT ![c] = r] /\ joins' = joins \cup {call[c].user}
    BY <1>5 DEF StoreJoins, Goto, servers
  <2>2. CallOK(r) /\ r.user = call[c].user /\ r.pc = "make" /\ r.user \in Users
    BY <1>0, <2>1, ZenonT(30) DEF CallOK, CallRecords
  <2> HIDE DEF r
  <2>3. call' \in [Calls -> CallRecords] /\ joins' \subseteq Users /\ Busy' /\ JoinsAreReleased'
    BY <2>1, <2>2, CallStepKeeps, ZenonT(30)
  <2> QED BY <2>1, <2>3 DEF Requested, RequestTypes, TypeOK
<1>6. ASSUME MakeJoin(c) PROVE Requested'
  <2> DEFINE cur == state[Resident][call[c].user]
             e == BuildEvent(cur, "join", FALSE)
             r == [call[c] EXCEPT !.pc = "send", !.event = e, !.before = state[Resident]]
  <2>1. call[c].pc = "make" /\ UNCHANGED <<known, net, request, faults>>
    BY <1>6 DEF MakeJoin, servers
  <2>2. CASE /\ MakeEvent /\ UNCHANGED joins
             /\ call' = [call EXCEPT ![c].pc = "send", ![c].event = e, ![c].before = state[Resident]]
    <3>1. cur \in EventOrNone /\ state[Resident] \in [Users -> EventOrNone]
      BY ZenonT(30), <1>0, <2>1, StateFacts DEF Busy, TypeOK
    <3>2. ids' \in 0..MaxEvents /\ e \in Events
      BY <2>2, <3>1, MakeEventFacts, BuildEventType, ZenonT(30)
    <3> HIDE DEF e
    <3>3. CallOK(r) /\ r.user = call[c].user /\ r.pc = "send"
      BY <1>0, <2>1, <3>1, <3>2, ZenonT(30) DEF CallOK, CallRecords, EventOrNone
    <3>4. call' = [call EXCEPT ![c] = r]
      BY <2>2, ZenonT(30)
    <3> HIDE DEF r
    <3>5. call' \in [Calls -> CallRecords] /\ joins' \subseteq Users /\ Busy' /\ JoinsAreReleased'
      BY <2>1, <2>2, <3>3, <3>4, CallStepKeeps, ZenonT(30)
    <3> QED BY <2>1, <3>2, <3>5, ZenonT(30) DEF Requested, RequestTypes, TypeOK
  <2>3. CASE Done(c) /\ DeleteJoins(c) /\ UNCHANGED ids
    <3>1. call' \in [Calls -> CallRecords] /\ joins' \subseteq Users /\ Busy' /\ JoinsAreReleased'
      BY <1>0, <2>1, <2>3, CallStepKeeps, ZenonT(30) DEF Done, DeleteJoins
    <3> QED BY <2>1, <2>3, <3>1 DEF Requested, RequestTypes, TypeOK
  <2> QED BY <1>6, <2>2, <2>3, ZenonT(30) DEF MakeJoin
<1>7. ASSUME SendJoin(c) PROVE Requested'
  <2> DEFINE r == [call[c] EXCEPT !.pc = "process"]
  <2>1. /\ call[c].pc = "send" /\ UNCHANGED <<known, request, ids>>
        /\ \/ net' = net
           \/ net' = [net EXCEPT ![Local] =
                         Append(@, [user |-> call[c].user, event |-> call[c].event])]
    BY <1>7, ZenonT(30) DEF SendJoin, ProcessAndSend
  <2>2. net' \in [Servers -> Seq(Messages)]
    BY <1>0, <2>1, SendKeepsNet, ZenonT(30) DEF CallOK
  <2>3. CASE Goto(c, "process") /\ UNCHANGED <<joins, faults>>
    <3>1. CallOK(r) /\ r.user = call[c].user /\ r.pc = "process"
      BY <1>0, <2>1 DEF CallOK, CallRecords
    <3>2. call' = [call EXCEPT ![c] = r]
      BY <2>3 DEF Goto
    <3> HIDE DEF r
    <3>3. call' \in [Calls -> CallRecords] /\ joins' \subseteq Users /\ Busy' /\ JoinsAreReleased'
      BY <2>1, <2>3, <3>1, <3>2, CallStepKeeps, ZenonT(30)
    <3> QED BY <2>1, <2>2, <2>3, <3>3 DEF Requested, RequestTypes, TypeOK
  <2>4. CASE faults < MaxFaults /\ faults' = faults + 1 /\ Done(c) /\ DeleteJoins(c)
    <3>1. call' \in [Calls -> CallRecords] /\ joins' \subseteq Users /\ Busy' /\ JoinsAreReleased'
      BY <1>0, <2>1, <2>4, CallStepKeeps, ZenonT(30) DEF Done, DeleteJoins
    <3>2. faults' \in 0..MaxFaults
      BY <2>4, FaultFacts
    <3> QED BY <2>1, <2>2, <3>1, <3>2 DEF Requested, RequestTypes, TypeOK
  <2> QED BY <1>7, <2>3, <2>4, ZenonT(30) DEF SendJoin
<1>8. ASSUME SendEventWithState(c) PROVE Requested'
  <2>1. /\ call[c].pc = "process" /\ Done(c) /\ DeleteJoins(c)
        /\ UNCHANGED <<net, request, ids, faults>> /\ known' \in BOOLEAN
    BY <1>8, ZenonT(30) DEF SendEventWithState, TypeOK
  <2>2. call' \in [Calls -> CallRecords] /\ joins' \subseteq Users /\ Busy' /\ JoinsAreReleased'
    BY <1>0, <2>1, CallStepKeeps, ZenonT(30) DEF Done, DeleteJoins
  <2> QED BY <2>1, <2>2, ZenonT(30) DEF Requested, RequestTypes, TypeOK
<1>9. ASSUME ProcessJoinFails(c) PROVE Requested'
  <2>1. /\ call[c].pc = "process" /\ Done(c) /\ DeleteJoins(c) /\ faults < MaxFaults
        /\ faults' = faults + 1 /\ UNCHANGED <<known, net, request, ids>>
    BY <1>9, ZenonT(30) DEF ProcessJoinFails, servers
  <2>2. call' \in [Calls -> CallRecords] /\ joins' \subseteq Users /\ Busy' /\ JoinsAreReleased'
    BY <1>0, <2>1, CallStepKeeps, ZenonT(30) DEF Done, DeleteJoins
  <2>3. faults' \in 0..MaxFaults
    BY <2>1, FaultFacts
  <2> QED BY <2>1, <2>2, <2>3, ZenonT(30) DEF Requested, RequestTypes, TypeOK
<1> QED
  BY <1>1, <1>2, <1>3, <1>4, <1>5, <1>6, <1>7, <1>8, <1>9, ZenonT(30)

\* A step of a request to leave or to forget keeps what holds of the requests.
LEMMA LeaveStepKeepsRequests ==
    ASSUME TypeOK, Busy, JoinsAreReleased, NEW c \in Calls,
           \/ \E u \in Users : PerformLeave(c, u) \/ SendForget(c, u)
           \/ MakeLeave(c) \/ SendLeave(c) \/ RetireInvite(c) \/ ForgetRoom(c)
    PROVE  Requested'
<1>0. /\ call[c] \in CallRecords /\ CallOK(call[c]) /\ CallOK(IdleCall) /\ IdleCall.pc = "idle"
      /\ Local \in Servers /\ Resident \in Servers
  BY IdleCallOK, ZenonT(30) DEF TypeOK, Busy, CallOK, Servers
<1>1. ASSUME NEW u \in Users, PerformLeave(c, u) PROVE Requested'
  <2> DEFINE cur == state[Local][u]
             e == BuildEvent(cur, "leave", FALSE)
             q == [IdleCall EXCEPT !.pc = "input", !.user = u, !.event = e]
  <2>1. call[c].pc = "idle" /\ UNCHANGED <<known, net, joins, request, faults>>
    BY <1>1, ZenonT(30) DEF PerformLeave, servers
  <2>2. ASSUME NEW id \in tab[Local][u].active, UNCHANGED ids,
               call' = [call EXCEPT ![c] =
                   [IdleCall EXCEPT !.pc = "makeleave", !.user = u, !.invite = id]]
        PROVE  Requested'
    <3> DEFINE r == [IdleCall EXCEPT !.pc = "makeleave", !.user = u, !.invite = id]
    <3>1. tab[Local][u] \in Rows
      BY <1>0, ZenonT(30) DEF TypeOK
    <3>2. tab[Local][u].active \in SUBSET (1..MaxEvents)
      BY <3>1 DEF Rows
    <3>3. id \in 1..MaxEvents /\ 1..MaxEvents \subseteq 0..MaxEvents
      BY <2>2, <3>2, Bounds
    <3>4. CallOK(r)
      BY <1>0, <3>3, ZenonT(30) DEF CallOK, CallRecords
    <3>5. call' = [call EXCEPT ![c] = r]
      BY <2>2
    <3> HIDE DEF r
    <3>6. call' \in [Calls -> CallRecords] /\ joins' \subseteq Users /\ Busy' /\ JoinsAreReleased'
      BY <2>1, <3>4, <3>5, CallStepKeeps, ZenonT(30)
    <3> QED BY <2>1, <2>2, <3>6, ZenonT(30) DEF Requested, RequestTypes, TypeOK
  <2>3. CASE MakeEvent /\ call' = [call EXCEPT ![c] = q]
    <3>1. cur \in EventOrNone
      BY <1>0, StateFacts
    <3>2. ids' \in 0..MaxEvents /\ e \in Events
      BY <2>3, <3>1, MakeEventFacts, BuildEventType, ZenonT(30)
    <3> HIDE DEF e
    <3>3. CallOK(q)
      BY <1>0, <3>2, ZenonT(30) DEF CallOK, CallRecords, EventOrNone
    <3> HIDE DEF q
    <3>4. call' \in [Calls -> CallRecords] /\ joins' \subseteq Users /\ Busy' /\ JoinsAreReleased'
      BY <2>1, <2>3, <3>3, CallStepKeeps, ZenonT(30)
    <3> QED BY <2>1, <3>2, <3>4, ZenonT(30) DEF Requested, RequestTypes, TypeOK
  <2> QED BY <1>1, <2>2, <2>3, ZenonT(30) DEF PerformLeave
<1>2. ASSUME NEW u \in Users, SendForget(c, u) PROVE Requested'
  <2> DEFINE r == [IdleCall EXCEPT !.pc = "forget", !.user = u]
  <2>1. call[c].pc = "idle" /\ UNCHANGED <<known, net, joins, request, ids, faults>>
        /\ call' = [call EXCEPT ![c] = r]
    BY <1>2, ZenonT(30) DEF SendForget, servers
  <2>2. CallOK(r)
    BY <1>0, ZenonT(30) DEF CallOK, CallRecords
  <2> HIDE DEF r
  <2>3. call' \in [Calls -> CallRecords] /\ joins' \subseteq Users /\ Busy' /\ JoinsAreReleased'
    BY <2>1, <2>2, CallStepKeeps, ZenonT(30)
  <2> QED BY <2>1, <2>3 DEF Requested, RequestTypes, TypeOK
<1>3. ASSUME MakeLeave(c) PROVE Requested'
  <2> DEFINE cur == state[Resident][call[c].user]
             b == BuildEvent(cur, "leave", FALSE)
             again == [b EXCEPT !.past = cur.past, !.from = cur.from]
             e == IF cur.m = "leave" THEN again ELSE b
             r == [call[c] EXCEPT !.pc = "sendleave", !.event = e]
  <2>1. call[c].pc = "makeleave" /\ UNCHANGED <<known, net, joins, request, faults>>
    BY <1>3, ZenonT(30) DEF MakeLeave, servers
  <2>2. CASE MakeEvent /\ call' = [call EXCEPT ![c].pc = "sendleave", ![c].event = e]
    <3>1. cur \in EventOrNone
      BY <1>0, <2>1, StateFacts, ZenonT(30) DEF Busy
    <3>2. ids' \in 0..MaxEvents /\ b \in Events
      BY <2>2, <3>1, MakeEventFacts, BuildEventType, ZenonT(30)
    <3>3. cur.past \in SUBSET (0..MaxEvents) /\ cur.from \in {"leave", "invite", "join", "ban"}
      BY <3>1 DEF EventOrNone, Events, NoEvent
    <3> HIDE DEF b, cur
    <3>4. e \in Events
      BY <3>2, <3>3, ZenonT(30) DEF Events
    <3> HIDE DEF e
    <3>5. CallOK(r)
      BY <1>0, <2>1, <3>4, ZenonT(30) DEF CallOK, CallRecords, EventOrNone
    <3>6. call' = [call EXCEPT ![c] = r]
      BY <2>2, ZenonT(30)
    <3>7. call[c].pc \notin {"make", "send", "process"}
      BY <2>1
    <3> HIDE DEF r
    <3>8. call' \in [Calls -> CallRecords] /\ joins' \subseteq Users /\ Busy' /\ JoinsAreReleased'
      BY <2>1, <3>5, <3>6, <3>7, CallStepKeeps, ZenonT(30)
    <3> QED BY <2>1, <3>2, <3>8, ZenonT(30) DEF Requested, RequestTypes, TypeOK
  <2>3. CASE Done(c) /\ UNCHANGED ids
    <3>1. call' \in [Calls -> CallRecords] /\ joins' \subseteq Users /\ Busy' /\ JoinsAreReleased'
      BY <1>0, <2>1, <2>3, CallStepKeeps, ZenonT(30) DEF Done
    <3> QED BY <2>1, <2>3, <3>1 DEF Requested, RequestTypes, TypeOK
  <2> QED BY <1>3, <2>2, <2>3, ZenonT(30) DEF MakeLeave
<1>4. ASSUME SendLeave(c) PROVE Requested'
  <2> DEFINE r == [call[c] EXCEPT !.pc = "retire"]
  <2>1. /\ call[c].pc = "sendleave" /\ UNCHANGED <<known, joins, request, ids>>
        /\ \/ net' = net
           \/ net' = [net EXCEPT ![Local] =
                         Append(@, [user |-> call[c].user, event |-> call[c].event])]
    BY <1>4, ZenonT(30) DEF SendLeave, ProcessAndSend
  <2>2. net' \in [Servers -> Seq(Messages)]
    BY <1>0, <2>1, SendKeepsNet, ZenonT(30) DEF CallOK
  <2>3. CASE Goto(c, "retire") /\ UNCHANGED faults
    <3>1. CallOK(r)
      BY <1>0, <2>1 DEF CallOK, CallRecords
    <3>2. call' = [call EXCEPT ![c] = r]
      BY <2>3 DEF Goto
    <3> HIDE DEF r
    <3>3. call' \in [Calls -> CallRecords] /\ joins' \subseteq Users /\ Busy' /\ JoinsAreReleased'
      BY <2>1, <3>1, <3>2, CallStepKeeps, ZenonT(30)
    <3> QED BY <2>1, <2>2, <2>3, <3>3 DEF Requested, RequestTypes, TypeOK
  <2>4. CASE faults < MaxFaults /\ faults' = faults + 1 /\ Done(c)
    <3>1. call' \in [Calls -> CallRecords] /\ joins' \subseteq Users /\ Busy' /\ JoinsAreReleased'
      BY <1>0, <2>1, <2>4, CallStepKeeps, ZenonT(30) DEF Done
    <3>2. faults' \in 0..MaxFaults
      BY SMTT(30), <2>4, FaultFacts
    <3> QED BY <2>1, <2>2, <3>1, <3>2 DEF Requested, RequestTypes, TypeOK
  <2> QED BY <1>4, <2>3, <2>4, ZenonT(30) DEF SendLeave
<1>5. ASSUME RetireInvite(c) \/ ForgetRoom(c) PROVE Requested'
  <2>1. call[c].pc \notin {"make", "send", "process"} /\ Done(c)
        /\ UNCHANGED <<known, net, joins, request, ids, faults>>
    BY <1>5 DEF RetireInvite, ForgetRoom, servers
  <2>2. call' \in [Calls -> CallRecords] /\ joins' \subseteq Users /\ Busy' /\ JoinsAreReleased'
    BY <1>0, <2>1, CallStepKeeps, ZenonT(30) DEF Done
  <2> QED BY <2>1, <2>2 DEF Requested, RequestTypes, TypeOK
<1> QED
  BY <1>1, <1>2, <1>3, <1>4, <1>5, ZenonT(30)

\* The member's request changes, and no request of the local server does.
LEMMA RequestKeeps ==
    ASSUME TypeOK, Busy, JoinsAreReleased, UNCHANGED <<known, call, joins>>,
           request' \in Requests, request'.pc # "idle" => request'.user \in Users /\ request'.event \in Events,
           net' \in [Servers -> Seq(Messages)], ids' \in 0..MaxEvents, faults' \in 0..MaxFaults
    PROVE  Requested'
<1>1. RequestTypes'
  BY SMTT(30) DEF RequestTypes, TypeOK
<1>2. Busy'
  BY DEF Busy
<1>3. JoinsAreReleased'
  BY DEF JoinsAreReleased
<1> QED
  BY <1>1, <1>2, <1>3 DEF Requested

\* A step of the member's request, of a server that receives an event, of the
\* sync API, or a restart, keeps what holds of the requests.
LEMMA RequestStepKeepsRequests ==
    ASSUME TypeOK, Busy, JoinsAreReleased,
           \/ \E u \in Users : PerformInvite(u) \/ SendKick(u) \/ SendUnban(u) \/ SendBan(u)
           \/ IsAlreadyJoined \/ CommitInvite \/ OutputInvite \/ InputRequest
           \/ \E s \in Servers : ReceiveEvent(s)
           \/ ReadLog \/ Restart
    PROVE  Requested'
<1>0. /\ IdleRequest \in Requests /\ IdleRequest.pc = "idle" /\ request \in Requests
      /\ Local \in Servers /\ Resident \in Servers
  BY SMTT(30) DEF TypeOK, IdleRequest, Requests, EventOrNone, Servers
<1>1. ASSUME NEW u \in Users, NEW pc \in {"invite", "input"}, NEW m \in {"leave", "invite", "ban"},
             NEW power \in BOOLEAN, NewRequest(pc, u, m, power)
      PROVE  Requested'
  <2> DEFINE cur == state[Resident][u]
             e == BuildEvent(cur, m, power)
             ok == Allowed(cur.m, e)
  <2>1. MakeEvent /\ UNCHANGED <<known, net, joins, call, faults>>
        /\ request' = [pc |-> pc, user |-> u, event |-> e, valid |-> ok]
    BY <1>1 DEF NewRequest, servers
  <2>2. cur \in EventOrNone
    BY SMTT(30), <1>0, StateFacts
  <2>3. ids' \in 0..MaxEvents /\ e \in Events
    BY <2>1, <2>2, MakeEventFacts, BuildEventType
  <2>4. ok \in BOOLEAN
    BY <2>2, <2>3, EventFacts, MembershipsAssumption, ZenonT(30) DEF Allowed, Events
  <2> HIDE DEF e, ok
  <2>5. request' \in Requests /\ request'.user \in Users /\ request'.event \in Events
    BY <2>1, <2>3, <2>4 DEF Requests, EventOrNone
  <2> QED BY SMTT(30), <2>1, <2>3, <2>5, RequestKeeps DEF TypeOK
<1>2. ASSUME NEW u \in Users, PerformInvite(u) \/ SendKick(u) \/ SendUnban(u) \/ SendBan(u)
      PROVE  Requested'
  BY <1>1, <1>2, ZenonT(30) DEF PerformInvite, SendKick, SendUnban, SendBan
<1>3. ASSUME IsAlreadyJoined \/ CommitInvite PROVE Requested'
  <2>1. request.pc # "idle" /\ UNCHANGED <<known, net, joins, call, ids, faults>>
    BY <1>3 DEF IsAlreadyJoined, CommitInvite, servers
  <2>2. \/ request' = IdleRequest
        \/ \E pc \in {"commit", "input", "output"} : request' = [request EXCEPT !.pc = pc]
    BY <1>3 DEF IsAlreadyJoined, CommitInvite
  <2>3. request' \in Requests /\ (request'.pc # "idle" => request'.user \in Users /\ request'.event \in Events)
    BY SMTT(30), <1>0, <2>1, <2>2 DEF Requests, Busy
  <2> QED BY <2>1, <2>3, RequestKeeps DEF TypeOK
<1>4. ASSUME OutputInvite PROVE Requested'
  <2>1. request.pc # "idle" /\ UNCHANGED <<known, net, joins, call, ids>>
        /\ faults' \in 0..MaxFaults
    BY <1>4, FaultFacts DEF OutputInvite, servers, TypeOK
  <2>2. request' = IdleRequest \/ request' = [request EXCEPT !.pc = "input"]
    BY <1>4 DEF OutputInvite
  <2>3. request' \in Requests /\ (request'.pc # "idle" => request'.user \in Users /\ request'.event \in Events)
    BY <1>0, <2>1, <2>2 DEF Requests, Busy
  <2> QED BY <2>1, <2>3, RequestKeeps DEF TypeOK
<1>5. ASSUME InputRequest PROVE Requested'
  <2>1. /\ request.pc = "input" /\ request' = IdleRequest /\ UNCHANGED <<known, joins, call, ids, faults>>
        /\ \/ net' = net
           \/ net' = [net EXCEPT ![Local] =
                         Append(@, [user |-> request.user, event |-> request.event])]
    BY <1>5, ZenonT(30) DEF InputRequest, ProcessAndSend
  <2>2. net' \in [Servers -> Seq(Messages)]
    BY <1>0, <2>1, SendKeepsNet, ZenonT(30) DEF Busy
  <2> QED BY <1>0, <2>1, <2>2, RequestKeeps, ZenonT(30) DEF TypeOK
<1>6. ASSUME NEW s \in Servers, ReceiveEvent(s) PROVE Requested'
  <2>1. net[s] # <<>> /\ net' = [net EXCEPT ![s] = Tail(@)]
        /\ UNCHANGED <<known, joins, call, request, ids, faults>>
    BY <1>6, ZenonT(30) DEF ReceiveEvent
  <2>2. net[s] \in Seq(Messages) /\ net \in [Servers -> Seq(Messages)]
    BY DEF TypeOK
  <2>3. Tail(net[s]) \in Seq(Messages)
    BY <2>1, <2>2
  <2>4. net' \in [Servers -> Seq(Messages)]
    BY <2>1, <2>2, <2>3, ZenonT(30)
  <2> QED BY <1>0, <2>1, <2>4, RequestKeeps, ZenonT(30) DEF TypeOK, Busy
<1>7. ASSUME ReadLog PROVE Requested'
  <2>1. UNCHANGED <<known, net, joins, call, request, ids, faults>>
    BY <1>7, ZenonT(30) DEF ReadLog, servers
  <2> QED BY <1>0, <2>1, RequestKeeps, ZenonT(30) DEF TypeOK, Busy
<1>8. ASSUME Restart PROVE Requested'
  <2>1. /\ UNCHANGED <<known, net, ids>> /\ faults' \in 0..MaxFaults
        /\ joins' = {} /\ call' = [c \in Calls |-> IdleCall]
        /\ request' = IdleRequest \/ request' = request
    BY <1>8, FaultFacts DEF Restart, servers
  <2>2. RequestTypes'
    BY <1>0, <2>1, IdleCallOK, ZenonT(30) DEF RequestTypes, TypeOK, CallOK
  <2>3. Busy'
    BY <1>0, <2>1, IdleCallOK, ZenonT(30) DEF Busy
  <2>4. JoinsAreReleased'
    BY <2>1 DEF JoinsAreReleased
  <2> QED BY SMTT(30), <2>2, <2>3, <2>4 DEF Requested
<1> QED
  BY SMTT(30), <1>2, <1>3, <1>4, <1>5, <1>6, <1>7, <1>8

\* Every step keeps what holds of the requests.
LEMMA RequestsStep ==
    ASSUME TypeOK, Busy, JoinsAreReleased, [Next]_vars
    PROVE  Requested'
<1>1. ASSUME NEW c \in Calls, CallStep(c) PROVE Requested'
  BY <1>1, JoinStepKeepsRequests, LeaveStepKeepsRequests, ZenonT(30) DEF CallStep
<1>2. CASE UNCHANGED vars
  <2>1. UNCHANGED <<known, net, joins, call, request, ids, faults>>
    BY <1>2 DEF vars, servers
  <2> QED BY <2>1, RequestKeeps DEF TypeOK, Busy
<1> QED
  BY <1>1, <1>2, RequestStepKeepsRequests DEF Next

-----------------------------------------------------------------------------
(* The invariant.                                                          *)

Inv == TypeOK /\ Busy /\ Tables /\ JoinsAreReleased

\* The invariant holds at the start.
LEMMA InitInv ==
    ASSUME Init
    PROVE  Inv
<1>1. /\ NoEvent \in EventOrNone /\ NoRow \in Rows /\ IdleCall \in CallRecords /\ IdleCall.pc = "idle"
      /\ IdleRequest \in Requests /\ IdleRequest.pc = "idle"
      /\ NoRow.m = "leave" /\ NoRow.active = {} /\ NoEvent.m = "leave"
      /\ Local \in Servers /\ Resident \in Servers
  BY IdleCallOK DEF EventOrNone, NoEvent, NoRow, Rows, CallOK, IdleRequest, Requests, Servers
<1>2. TypeOK
  <2>1. state \in [Servers -> [Users -> EventOrNone]] /\ tab \in [Servers -> [Users -> Rows]]
    BY <1>1 DEF Init
  <2>2. net \in [Servers -> Seq(Messages)] /\ log \in Seq(Entries)
    BY DEF Init
  <2>3. call \in [Calls -> CallRecords] /\ request \in Requests
    BY <1>1, ZenonT(30) DEF Init
  <2> QED BY <2>1, <2>2, <2>3, Bounds, ZenonT(30) DEF Init, TypeOK
<1>3. Busy
  BY <1>1, ZenonT(30) DEF Init, Busy
<1>4. ActiveInviteMeansInvited /\ EveryInviteIsAnnounced
  BY <1>1, ZenonT(30) DEF Init, ActiveInviteMeansInvited, EveryInviteIsAnnounced
<1>5. ResidentRowsFollowState
  BY <1>1 DEF Init, ResidentRowsFollowState
<1>6. JoinsAreReleased
  BY SMTT(30) DEF Init, JoinsAreReleased
<1> QED
  BY <1>2, <1>3, <1>4, <1>5, <1>6, ZenonT(30) DEF Inv, Tables, TableTypes, TypeOK

\* Every step keeps the invariant.
LEMMA NextInv ==
    ASSUME Inv, [Next]_vars
    PROVE  Inv'
<1>1. Requested' /\ Tables'
  BY RequestsStep, TablesStep DEF Inv
<1> QED
  BY SMTT(30), <1>1 DEF Inv, Requested, RequestTypes, Tables, TableTypes, TypeOK

\* The invariant holds in every reachable state.
LEMMA InvHolds == Spec => []Inv
BY InitInv, NextInv, PTL DEF Spec

\* The variables keep their types; in particular the membership column never
\* holds a ban and no row refers to an invite event.
THEOREM TypeCorrect == Spec => []TypeOK
<1>1. Inv => TypeOK
  BY DEF Inv
<1> QED
  BY <1>1, InvHolds, PTL

\* The invites table and the membership table agree, on both servers and
\* whatever joins, invites, kicks and restarts interleave.
THEOREM TablesAgree == Spec => []ActiveInviteMeansInvited
<1>1. Inv => ActiveInviteMeansInvited
  BY DEF Inv, Tables
<1> QED
  BY <1>1, InvHolds, PTL

\* Every active invite was announced, is about to be, or lost its
\* announcement to a restart in between.
THEOREM InvitesAnnounced == Spec => []EveryInviteIsAnnounced
<1>1. Inv => EveryInviteIsAnnounced
  BY DEF Inv, Tables
<1> QED
  BY <1>1, InvHolds, PTL

\* No way out of PerformJoin leaves a user in joins.
THEOREM JoinsReleased == Spec => []JoinsAreReleased
<1>1. Inv => JoinsAreReleased
  BY DEF Inv
<1> QED
  BY <1>1, InvHolds, PTL

\* The membership table of the resident server follows the room state.
THEOREM RowsFollowState == Spec => []ResidentRowsFollowState
<1>1. Inv => ResidentRowsFollowState
  BY DEF Inv, Tables
<1> QED
  BY <1>1, InvHolds, PTL
=============================================================================
