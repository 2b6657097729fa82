---------------------------- MODULE MCRoomEvents ----------------------------
(***************************************************************************)
(* A small room.  The user joins (a), after which the graph forks: the     *)
(* user leaves (b), a guest is invited (t) and a message is sent (m); a    *)
(* second message (n) merges the leave and the message.  A message that    *)
(* may be rejected (r) references the leave and the invite.                *)
(***************************************************************************)
EXTENDS RoomEvents, TLC

CONSTANTS a, b, t, m, n, r, user, guest

MCEvents == {a, b, t, m, n, r}
MCPrev == a :> {} @@ b :> {a} @@ t :> {a} @@ m :> {a} @@ n :> {b, m} @@ r :> {b, t}
MCKeys == {user, guest}
MCKeyOf == a :> user @@ b :> user @@ t :> guest @@ m :> NoKey @@ n :> NoKey @@ r :> NoKey
MCUsers == {user, guest}
MCMembership == a :> "join" @@ b :> "leave" @@ t :> "invite" @@ m :> "leave" @@ n :> "leave" @@ r :> "leave"
MCRank == a :> 1 @@ b :> 2 @@ t :> 3 @@ m :> 4 @@ n :> 5 @@ r :> 6

Plain(e, k) == [event |-> e, kind |-> k, hasState |-> FALSE, state |-> {}]
WithState(e, s) == [event |-> e, kind |-> "new", hasState |-> TRUE, state |-> s]

\* A room whose events arrive without state, the leave and the invite in other
\* ways too, and that is caught up with over federation at the merge.
MCInputs == {Plain(e, "new") : e \in {a, b, t, m, n, r}}
            \union {Plain(b, "old"), Plain(t, "outlier"), WithState(n, {b})}

\* The same room without the merge: everything arrives without state.
MCLocal == {Plain(e, "new") : e \in {a, b, t, m, r}}
=============================================================================
