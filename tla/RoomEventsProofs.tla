-------------------------- MODULE RoomEventsProofs --------------------------
(***************************************************************************)
(* Proofs about RoomEvents, for any event graph, any inputs and any        *)
(* verdicts of the auth checks.                                            *)
(***************************************************************************)
EXTENDS RoomEvents, TLAPS

\* What the steps of processRoomEvent have established when they are reached.
Progress ==
    /\ pc # "idle" =>
         /\ input \in [event : Events, kind : Kinds, hasState : BOOLEAN, state : Snapshots]
         /\ input.hasState => \E in \in Inputs : in.hasState
    /\ pc \in {"state", "latest"} => input.event \in linked
    /\ pc = "latest" => input.event \in settled

IInv == TypeOK /\ Progress /\ ExtremitiesIncomparable /\ ReceiverInStep

-----------------------------------------------------------------------------
(* Snapshots.                                                              *)

\* Resolving any state events leaves one per key (resolveConflicts).
LEMMA ResolveIsSnapshot ==
    ASSUME NEW S \in SUBSET Snapshots
    PROVE  Resolve(S) \in Snapshots
<1> DEFINE R == Resolve(S)
<1>1. \A x \in R : x \in UNION S
  BY DEF Resolve
<1>2. \A x \in R : x \in Events /\ IsState(x)
  BY <1>1 DEF Snapshots
<1>3. \A x, y \in R : KeyOf[x] = KeyOf[y] => Rank[x] = Rank[y]
  <2> SUFFICES ASSUME NEW x \in R, NEW y \in R, KeyOf[x] = KeyOf[y]
               PROVE  Rank[x] = Rank[y]
    OBVIOUS
  <2>1. Rank[x] <= Rank[y] /\ Rank[y] <= Rank[x]
    BY DEF Resolve
  <2>2. Rank[x] \in Nat /\ Rank[y] \in Nat
    BY <1>2, RankAssumption
  <2> HIDE DEF R
  <2> QED BY <2>1, <2>2
<1>4. \A x, y \in R : KeyOf[x] = KeyOf[y] => x = y
  BY <1>2, <1>3, RankAssumption
<1> QED BY <1>2, <1>4 DEF Snapshots

\* A state event replaces the entry of its key.
LEMMA ApplyIsSnapshot ==
    ASSUME NEW s \in Snapshots, NEW e \in Events, IsState(e)
    PROVE  Apply(s, e) \in Snapshots
BY DEF Apply, Snapshots

\* Part of a snapshot is a snapshot.
LEMMA SubsetIsSnapshot ==
    ASSUME NEW s \in Snapshots, NEW t \in SUBSET s
    PROVE  t \in Snapshots
BY DEF Snapshots

\* Snapshot 0 and the empty snapshot have no entries.
LEMMA EmptyIsSnapshot == {} \in Snapshots
BY DEF Snapshots

\* The state after any event whose state before is a snapshot.
LEMMA AfterIsSnapshot ==
    ASSUME TypeOK, NEW e \in Events
    PROVE  StateAfter(e) \in Snapshots /\ StateAfterPrev(e) \in Snapshots
BY ApplyIsSnapshot DEF TypeOK, StateAfter, StateAfterPrev

\* What a snapshot says of a user is what its one event for the user says.
LEMMA MembershipOfEvent ==
    ASSUME NEW s \in Snapshots, NEW u \in Users, NEW e \in s, KeyOf[e] = u
    PROVE  MembershipIn(s, u) = Membership[e]
<1>1. \A x \in s : KeyOf[x] = u => x = e
  BY DEF Snapshots
<1>2. (CHOOSE x \in s : KeyOf[x] = u) = e
  BY <1>1
<1> QED BY ZenonT(30), <1>2 DEF MembershipIn

-----------------------------------------------------------------------------
(* The transaction of updateLatestEvents.                                  *)

\* Old and new state of a transaction, named.
OldLatest == IF input.hasState THEN {} ELSE latest
OldState == IF input.hasState THEN {} ELSE current

\* The state a transaction writes is a snapshot; its output entry describes
\* the change from the old state, and a receiver arrives at the new one.
LEMMA TransactionEffect ==
    ASSUME IInv, pc = "latest", NEW commits \in BOOLEAN, Transaction(commits)
    PROVE  \E s \in Snapshots :
             /\ view' = s
             /\ out'.event = input.event
             /\ commits =>
                  /\ latest' = NewLatest(OldLatest)
                  /\ current' = s
                  /\ lastSent' = input.event
                  /\ sent' = sent \union {input.event}
                  /\ member' = UpdateMemberships(OldState \ s, s \ OldState)
                  /\ rewritten' = (rewritten \/ input.hasState)
             /\ ~commits => UNCHANGED <<latest, current, lastSent, sent, member, rewritten>>
<1>1. PICK calculated \in BOOLEAN :
        LET newState == IF calculated THEN NewState(OldLatest) ELSE OldState
            entry == MakeOutput(input.event, OldLatest, OldState, newState, calculated)
        IN  /\ out' = entry
            /\ view' = Receive(entry, newState)
            /\ IF commits
               THEN /\ latest' = NewLatest(OldLatest)
                    /\ current' = newState
                    /\ lastSent' = input.event
                    /\ sent' = sent \union {input.event}
                    /\ member' = UpdateMemberships(entry.removes, entry.adds)
                    /\ rewritten' = (rewritten \/ input.hasState)
               ELSE UNCHANGED <<latest, current, lastSent, sent, member, rewritten>>
  BY DEF Transaction, OldLatest, OldState
<1> DEFINE new == IF calculated THEN NewState(OldLatest) ELSE OldState
           entry == MakeOutput(input.event, OldLatest, OldState, new, calculated)
<1>2. OldState \in Snapshots
  BY EmptyIsSnapshot DEF OldState, IInv, TypeOK
<1>3. NewLatest(OldLatest) \subseteq Events
  BY DEF NewLatest, OldLatest, IInv, TypeOK, Progress
<1>4. NewState(OldLatest) \in Snapshots
  <2>1. {StateAfter(l) : l \in NewLatest(OldLatest)} \in SUBSET Snapshots
    BY <1>3, AfterIsSnapshot DEF IInv
  <2> QED BY <2>1, ResolveIsSnapshot DEF NewState
<1>5. new \in Snapshots
  BY <1>2, <1>4
<1>6. /\ entry.event = input.event /\ entry.last = lastSent /\ entry.rewrites = input.hasState
      /\ entry.adds = new \ OldState /\ entry.removes = OldState \ new
  BY DEF MakeOutput
<1> HIDE DEF entry, new
<1>7. Receive(entry, new) = new
  <2>1. CASE input.hasState
    <3>1. entry.rewrites /\ entry.adds = new
      BY <1>6, <2>1 DEF OldState
    <3> QED BY <3>1 DEF Receive
  <2>2. CASE ~input.hasState /\ lastSent = out.event
    <3>1. view = OldState
      BY <2>2 DEF IInv, ReceiverInStep, OldState
    <3>2. Receive(entry, new) = (view \ entry.removes) \union entry.adds
      BY <1>6, <2>2 DEF Receive
    <3> QED BY <1>6, <3>1, <3>2
  <2>3. CASE ~input.hasState /\ lastSent # out.event
    BY <1>6, <2>3 DEF Receive
  <2>4. input.hasState \in BOOLEAN
    BY DEF IInv, Progress
  <2> QED BY <2>1, <2>2, <2>3, <2>4
<1>8. /\ out' = entry
      /\ view' = Receive(entry, new)
      /\ IF commits
         THEN /\ latest' = NewLatest(OldLatest)
              /\ current' = new
              /\ lastSent' = input.event
              /\ sent' = sent \union {input.event}
              /\ member' = UpdateMemberships(entry.removes, entry.adds)
              /\ rewritten' = (rewritten \/ input.hasState)
         ELSE UNCHANGED <<latest, current, lastSent, sent, member, rewritten>>
  BY <1>1 DEF entry, new
<1> QED BY ZenonT(30), <1>5, <1>6, <1>7, <1>8

-----------------------------------------------------------------------------
(* The inductive invariant.                                                *)

\* When processing ends, nothing is left to be said of its input.
LEMMA DoneKeepsProgress ==
    ASSUME Done PROVE Progress'
BY DEF Done, Progress

\* A step that leaves the graph, the log and the current state alone keeps
\* the properties about them.
LEMMA FrameKeeps ==
    ASSUME IInv, UNCHANGED <<latest, current, lastSent, out, view>>
    PROVE  ExtremitiesIncomparable' /\ ReceiverInStep'
BY DEF IInv, ExtremitiesIncomparable, ReceiverInStep

\* A room that does not exist yet satisfies the invariant.
LEMMA InitIInv == Init => IInv
<1> SUFFICES ASSUME Init PROVE IInv
  OBVIOUS
<1>1. TypeOK
  BY ZenonT(30), EmptyIsSnapshot DEF Init, TypeOK
<1>2. Progress /\ ExtremitiesIncomparable
  BY DEF Init, Progress, ExtremitiesIncomparable
<1>3. ReceiverInStep
  BY DEF Init, ReceiverInStep
<1> QED BY <1>1, <1>2, <1>3 DEF IInv

\* Storing an event (first transaction of StoreEvent) keeps the invariant.
LEMMA BeginKeeps ==
    ASSUME IInv, NEW in \in Inputs, Begin(in) PROVE IInv'
<1>1. in \in [event : Events, kind : Kinds, hasState : BOOLEAN, state : SUBSET Events]
  BY InputAssumption
<1>2. in.state \in Snapshots
  BY InputAssumption, <1>1 DEF Snapshots, IsState
<1>3. PICK rejected \in BOOLEAN : input' = [in EXCEPT !.hasState = @ /\ ~rejected]
  BY DEF Begin
<1>4. /\ input' \in [event : Events, kind : Kinds, hasState : BOOLEAN, state : Snapshots]
      /\ input'.event = in.event
      /\ input'.hasState => in.hasState
  BY ZenonT(30), <1>1, <1>2, <1>3
<1>5. Progress'
  BY <1>4 DEF Begin, Progress
<1>6. input' # NoInput
  BY <1>4, NoneAssumption DEF NoInput
<1>7. flagged' \subseteq stored' /\ stored' = stored \union {in.event}
  BY DEF Begin, IInv, TypeOK
<1>8. TypeOK'
  BY <1>1, <1>4, <1>6, <1>7 DEF Begin, IInv, TypeOK, log
<1>9. ExtremitiesIncomparable' /\ ReceiverInStep'
  BY FrameKeeps DEF Begin, log
<1> QED BY <1>5, <1>8, <1>9 DEF IInv

\* Recording the references of an event keeps the invariant.
LEMMA LinkKeeps ==
    ASSUME IInv, Link PROVE IInv'
<1>1. ExtremitiesIncomparable' /\ ReceiverInStep'
  BY FrameKeeps DEF Link, log
<1>2. CASE input.kind = "outlier"
  <2>1. Done
    BY <1>2 DEF Link
  <2>2. TypeOK'
    BY <1>2, <2>1 DEF Link, Done, IInv, TypeOK, Progress, log
  <2> QED BY <1>1, <2>1, <2>2, DoneKeepsProgress DEF IInv
<1>3. CASE input.kind # "outlier"
  <2>1. Progress'
    BY <1>3 DEF Link, IInv, Progress
  <2>2. TypeOK'
    BY <1>3 DEF Link, IInv, TypeOK, Progress, log
  <2> QED BY <1>1, <2>1, <2>2 DEF IInv
<1> QED BY <1>2, <1>3

\* calculateAndSetState keeps the invariant.
LEMMA SetStateKeeps ==
    ASSUME IInv, SetState PROVE IInv'
<1>1. ExtremitiesIncomparable' /\ ReceiverInStep'
  BY FrameKeeps DEF SetState, log
<1>2. /\ input.event \in Events /\ input.event \in linked /\ pc = "state"
      /\ input.state \in Snapshots
  BY DEF SetState, IInv, Progress
<1>3. StateBefore \in Snapshots
  <2>1. {StateAfterPrev(p) : p \in Prev[input.event]} \in SUBSET Snapshots
    BY <1>2, AfterIsSnapshot, PrevAssumption DEF IInv
  <2> QED BY <1>2, <2>1, ResolveIsSnapshot DEF StateBefore
<1>4. /\ settled \subseteq settled' /\ settled' \subseteq linked
      /\ before' \in [Events -> Snapshots]
  BY <1>2, <1>3 DEF SetState, IInv, TypeOK
<1>5. \/ Done
      \/ pc' = "latest" /\ UNCHANGED input /\ input.event \in settled'
  BY DEF SetState, Continue
<1>6. UNCHANGED <<stored, flagged, linked, sent, latest, current, lastSent, member, rewritten, out, view>>
  BY DEF SetState, log
<1>7. CASE Done
  <2>1. TypeOK'
    BY <1>4, <1>6, <1>7 DEF Done, IInv, TypeOK
  <2> QED BY <1>1, <1>7, <2>1, DoneKeepsProgress DEF IInv
<1>8. CASE pc' = "latest" /\ UNCHANGED input /\ input.event \in settled'
  <2>1. TypeOK'
    BY <1>2, <1>4, <1>6, <1>8 DEF IInv, TypeOK
  <2>2. Progress'
    BY <1>2, <1>6, <1>8 DEF IInv, Progress
  <2> QED BY <1>1, <2>1, <2>2 DEF IInv
<1> QED BY <1>5, <1>7, <1>8

\* A committed updateLatestEvents keeps the invariant.
LEMMA UpdateLatestEventsKeeps ==
    ASSUME IInv, UpdateLatestEvents PROVE IInv'
<1>1. Done /\ pc = "latest"
  BY DEF UpdateLatestEvents
<1>2. input.event \in Events /\ input.event \in linked /\ input.event \in settled
  BY <1>1 DEF IInv, Progress
<1>3. Progress'
  BY <1>1, DoneKeepsProgress
<1>4. UNCHANGED <<stored, flagged, linked, settled, before>>
  BY DEF UpdateLatestEvents
<1>5. CASE input.event \in sent
  <2>1. UNCHANGED <<sent, latest, current, lastSent, member, rewritten, out, view>>
    BY <1>5 DEF UpdateLatestEvents, log
  <2>2. TypeOK'
    BY <1>1, <1>4, <2>1 DEF Done, IInv, TypeOK
  <2> QED BY <1>3, <2>1, <2>2, FrameKeeps DEF IInv
<1>6. CASE input.event \notin sent
  <2>1. Transaction(TRUE)
    BY ZenonT(30), <1>6 DEF UpdateLatestEvents
  <2>2. PICK s \in Snapshots :
          /\ view' = s /\ out'.event = input.event
          /\ latest' = NewLatest(OldLatest)
          /\ current' = s
          /\ lastSent' = input.event
          /\ sent' = sent \union {input.event}
          /\ member' = UpdateMemberships(OldState \ s, s \ OldState)
          /\ rewritten' = (rewritten \/ input.hasState)
    BY ZenonT(30), <1>1, <2>1, TransactionEffect
  <2>3. ReceiverInStep'
    BY <2>2 DEF ReceiverInStep
  <2>4. latest' \subseteq latest \union {input.event}
    BY <2>2 DEF NewLatest, OldLatest
  <2>5. member' \in [Users -> {"join", "invite", "leave"}]
    <3>1. OldState \in Snapshots
      BY EmptyIsSnapshot DEF OldState, IInv, TypeOK
    <3>2. \A t \in Snapshots, u \in Users : MembershipIn(t, u) \in {"join", "invite", "leave"}
      BY MembershipOfEvent, KeyAssumption DEF Snapshots, MembershipIn
    <3>3. OldState \ s \in Snapshots /\ s \ OldState \in Snapshots
      BY <3>1, SubsetIsSnapshot
    <3>4. member \in [Users -> {"join", "invite", "leave"}]
      BY DEF IInv, TypeOK
    <3> QED BY <2>2, <3>2, <3>3, <3>4 DEF UpdateMemberships
  <2>6. TypeOK'
    BY ZenonT(30), <1>1, <1>2, <1>4, <2>2, <2>4, <2>5 DEF Done, IInv, TypeOK
  <2>7. ExtremitiesIncomparable'
    <3>1. \A e, f \in OldLatest : e \notin Prev[f]
      BY DEF OldLatest, IInv, ExtremitiesIncomparable
    <3>2. CASE ~IsNewExtremity(OldLatest)
      BY <2>2, <3>1, <3>2 DEF NewLatest, ExtremitiesIncomparable
    <3>3. CASE IsNewExtremity(OldLatest)
      <4>1. latest' = {input.event} \union (OldLatest \ (Prev[input.event] \union Referenced))
        BY <2>2, <3>3 DEF NewLatest
      <4>2. \A f \in OldLatest : f \in linked
        BY DEF OldLatest, IInv, TypeOK
      <4>3. \A f \in OldLatest : input.event \notin Prev[f]
        BY <3>3, <4>2 DEF IsNewExtremity, Referenced
      <4>4. input.event \notin Prev[input.event]
        BY <1>2, PrevAssumption
      <4> QED BY <3>1, <4>1, <4>3, <4>4 DEF ExtremitiesIncomparable
    <3> QED BY <3>2, <3>3
  <2> QED BY <1>3, <2>3, <2>6, <2>7 DEF IInv
<1> QED BY <1>5, <1>6

\* An updateLatestEvents whose commit fails keeps the invariant.
LEMMA CommitFailsKeeps ==
    ASSUME IInv, CommitFails PROVE IInv'
<1>1. Done /\ pc = "latest" /\ input.event \notin sent /\ Transaction(FALSE)
  BY ZenonT(30) DEF CommitFails
<1>2. PICK s \in Snapshots :
        /\ view' = s /\ out'.event = input.event
        /\ UNCHANGED <<latest, current, lastSent, sent, member, rewritten>>
  BY ZenonT(30), <1>1, TransactionEffect
<1>3. Progress'
  BY <1>1, DoneKeepsProgress
<1>4. TypeOK'
  BY <1>1, <1>2 DEF CommitFails, Done, IInv, TypeOK
<1>5. ReceiverInStep'
  <2>1. lastSent \in sent \union {None} /\ input.event \in Events
    BY SMTT(30), <1>1 DEF IInv, TypeOK, Progress
  <2> QED BY <1>1, <1>2, <2>1, NoneAssumption DEF ReceiverInStep
<1>6. ExtremitiesIncomparable'
  BY <1>2 DEF IInv, ExtremitiesIncomparable
<1> QED BY <1>3, <1>4, <1>5, <1>6 DEF IInv

\* Failing and dying leave the database and the log as they are.
LEMMA StoppingKeeps ==
    ASSUME IInv, Fail PROVE IInv'
<1>1. Done /\ UNCHANGED <<db, log>>
  BY DEF Fail
<1>3. TypeOK'
  BY <1>1 DEF Done, db, log, IInv, TypeOK
<1>4. ExtremitiesIncomparable' /\ ReceiverInStep'
  BY <1>1, FrameKeeps DEF db, log
<1> QED BY <1>1, <1>3, <1>4, DoneKeepsProgress DEF IInv

\* Every step keeps the invariant.
LEMMA NextKeepsIInv == IInv /\ [Next]_vars => IInv'
<1> SUFFICES ASSUME IInv, [Next]_vars PROVE IInv'
  OBVIOUS
<1>1. CASE \E in \in Inputs : Begin(in)
  BY <1>1, BeginKeeps
<1>2. CASE UNCHANGED vars
  <2>1. UNCHANGED <<stored, flagged, linked, settled, before, sent, latest, current, lastSent, member, rewritten,
                    pc, input, accepted, out, view>>
    BY <1>2 DEF vars, db, log
  <2>2. TypeOK' /\ Progress'
    BY <2>1 DEF IInv, TypeOK, Progress
  <2> QED BY <2>1, <2>2, FrameKeeps DEF IInv
<1> QED BY <1>1, <1>2, LinkKeeps, SetStateKeeps, UpdateLatestEventsKeeps, CommitFailsKeeps, StoppingKeeps DEF Next

\* Every reachable state satisfies the inductive invariant.
LEMMA Invariance == Spec => []IInv
BY InitIInv, NextKeepsIInv, PTL DEF Spec

\* Tables, snapshots and extremities keep their shape, for any event graph:
\* in particular no snapshot ever holds two events for one key.
THEOREM Types == Spec => []TypeOK
<1>1. IInv => TypeOK
  BY DEF IInv
<1> QED BY <1>1, Invariance, PTL

\* For any event graph and any order of arrivals, failures and crashes, no
\* forward extremity is a prev event of another (calculateLatest).
THEOREM Incomparable == Spec => []ExtremitiesIncomparable
<1>1. IInv => ExtremitiesIncomparable
  BY DEF IInv
<1> QED BY <1>1, Invariance, PTL

\* A receiver of the output log that follows LastSentEventID has the room's
\* current state whenever the newest entry was committed.
THEOREM ReceiverFollows == Spec => []ReceiverInStep
<1>1. IInv => ReceiverInStep
  BY DEF IInv
<1> QED BY <1>1, Invariance, PTL

-----------------------------------------------------------------------------
(* Rooms whose state has not been rewritten.                               *)

\* No sent event is forgotten by calculateLatest while it is unreferenced.
LEMMA TipsStep ==
    ASSUME IInv, EveryTipIsExtremity, [Next]_vars
    PROVE  EveryTipIsExtremity'
<1>1. ASSUME linked \subseteq linked', UNCHANGED <<sent, latest, rewritten>>
      PROVE  EveryTipIsExtremity'
  BY <1>1 DEF EveryTipIsExtremity, Referenced
<1>2. CASE UpdateLatestEvents /\ input.event \notin sent
  <2>1. Transaction(TRUE) /\ pc = "latest" /\ UNCHANGED linked
    BY ZenonT(30), <1>2 DEF UpdateLatestEvents
  <2>2. input.event \in linked /\ (rewritten' = (rewritten \/ input.hasState))
    BY ZenonT(30), <2>1, TransactionEffect DEF IInv, Progress
  <2> SUFFICES ASSUME ~rewritten, ~input.hasState PROVE EveryTipIsExtremity'
    BY ZenonT(30), <2>2 DEF EveryTipIsExtremity
  <2>3. latest' = NewLatest(latest) /\ sent' = sent \union {input.event}
    BY ZenonT(30), <2>1, <2>2, TransactionEffect DEF OldLatest
  <2>4. Referenced' = Referenced /\ Prev[input.event] \subseteq Referenced
    BY <2>1, <2>2 DEF Referenced
  <2> QED BY <2>3, <2>4 DEF EveryTipIsExtremity, NewLatest, IsNewExtremity
<1>3. CASE UpdateLatestEvents /\ input.event \in sent
  BY <1>1, <1>3 DEF UpdateLatestEvents
<1>4. CASE CommitFails
  <2>1. Transaction(FALSE) /\ pc = "latest" /\ UNCHANGED linked
    BY ZenonT(30), <1>4 DEF CommitFails
  <2> QED BY ZenonT(30), <1>1, <2>1, TransactionEffect
<1>5. CASE \E in \in Inputs : Begin(in)
  BY <1>1, <1>5 DEF Begin
<1>6. CASE Link
  BY <1>1, <1>6 DEF Link
<1>7. CASE SetState
  BY <1>1, <1>7 DEF SetState
<1>8. CASE Fail \/ UNCHANGED vars
  BY <1>1, <1>8 DEF Fail, vars, db
<1> QED BY <1>2, <1>3, <1>4, <1>5, <1>6, <1>7, <1>8 DEF Next

\* updateMemberships turns the membership table of the old state into the one
\* of the new state.
LEMMA MembershipsOfDelta ==
    ASSUME NEW s \in Snapshots, current \in Snapshots, MembershipFollowsState, ~rewritten, NEW u \in Users
    PROVE  UpdateMemberships(current \ s, s \ current)[u] = MembershipIn(s, u)
<1> DEFINE removed == current \ s
           added == s \ current
           old == MembershipIn(removed, u)
           new == MembershipIn(added, u)
<1>1. removed \in Snapshots /\ added \in Snapshots
  BY SubsetIsSnapshot
<1>2. member[u] = MembershipIn(current, u)
  BY DEF MembershipFollowsState
<1>3. \A x, y \in s : KeyOf[x] = KeyOf[y] => x = y
  BY DEF Snapshots
<1>4. \A x, y \in current : KeyOf[x] = KeyOf[y] => x = y
  BY DEF Snapshots
<1>5. UpdateMemberships(removed, added)[u] =
        IF (\E e \in removed \union added : KeyOf[e] = u) /\ (old # new \/ new = "join")
        THEN new ELSE member[u]
  BY DEF UpdateMemberships
<1>6. CASE \E e \in added : KeyOf[e] = u
  <2>1. PICK e \in added : KeyOf[e] = u
    BY <1>6
  <2>2. new = Membership[e] /\ MembershipIn(s, u) = Membership[e]
    BY SMTT(30), <1>1, <2>1, MembershipOfEvent
  <2>3. CASE \E f \in removed : KeyOf[f] = u
    <3>1. PICK f \in removed : KeyOf[f] = u
      BY <2>3
    <3>2. old = Membership[f] /\ MembershipIn(current, u) = Membership[f]
      BY <1>1, <3>1, MembershipOfEvent
    <3> QED BY <1>2, <1>5, <2>1, <2>2, <3>2
  <2>4. CASE ~\E f \in removed : KeyOf[f] = u
    <3>1. old = "leave"
      BY <2>4 DEF MembershipIn
    <3>2. ~\E f \in current : KeyOf[f] = u
      BY <1>3, <2>1, <2>4
    <3>3. MembershipIn(current, u) = "leave"
      BY <3>2 DEF MembershipIn
    <3> QED BY <1>2, <1>5, <2>1, <2>2, <3>1, <3>3
  <2> QED BY <2>3, <2>4
<1>7. CASE (~\E e \in added : KeyOf[e] = u) /\ \E f \in removed : KeyOf[f] = u
  <2>1. PICK f \in removed : KeyOf[f] = u
    BY <1>7
  <2>2. new = "leave"
    BY <1>7 DEF MembershipIn
  <2>3. ~\E e \in s : KeyOf[e] = u
    BY <1>4, <1>7, <2>1
  <2>4. MembershipIn(s, u) = "leave"
    BY <2>3 DEF MembershipIn
  <2>5. old = Membership[f] /\ MembershipIn(current, u) = Membership[f]
    BY <1>1, <2>1, MembershipOfEvent
  <2> QED BY <1>2, <1>5, <2>1, <2>2, <2>4, <2>5
<1>8. CASE ~\E e \in removed \union added : KeyOf[e] = u
  <2>1. UpdateMemberships(removed, added)[u] = MembershipIn(current, u)
    BY <1>2, <1>5, <1>8
  <2>2. CASE \E e \in s : KeyOf[e] = u
    <3>1. PICK e \in s : KeyOf[e] = u
      BY <2>2
    <3>2. e \in current
      BY <1>8, <3>1
    <3> QED BY <2>1, <3>1, <3>2, MembershipOfEvent
  <2>3. CASE ~\E e \in s : KeyOf[e] = u
    <3>1. ~\E e \in current : KeyOf[e] = u
      BY <1>8, <2>3
    <3> QED BY <2>1, <2>3, <3>1 DEF MembershipIn
  <2> QED BY <2>2, <2>3
<1> QED BY <1>6, <1>7, <1>8

\* Only a committed transaction changes the membership table or the state.
LEMMA MembershipStep ==
    ASSUME IInv, MembershipFollowsState, [Next]_vars
    PROVE  MembershipFollowsState'
<1>1. ASSUME UNCHANGED <<current, member, rewritten>>
      PROVE  MembershipFollowsState'
  BY <1>1 DEF MembershipFollowsState, MembershipIn
<1>2. CASE UpdateLatestEvents /\ input.event \notin sent
  <2>1. Transaction(TRUE) /\ pc = "latest"
    BY ZenonT(30), <1>2 DEF UpdateLatestEvents
  <2>2. current \in Snapshots /\ (rewritten' = (rewritten \/ input.hasState))
    BY ZenonT(30), <2>1, TransactionEffect DEF IInv, TypeOK
  <2> SUFFICES ASSUME ~rewritten, ~input.hasState PROVE MembershipFollowsState'
    BY ZenonT(30), <2>2 DEF MembershipFollowsState
  <2>3. PICK s \in Snapshots : current' = s /\ member' = UpdateMemberships(current \ s, s \ current)
    BY ZenonT(30), <2>1, <2>2, TransactionEffect DEF OldState
  <2>4. \A u \in Users : member'[u] = MembershipIn(s, u)
    BY <2>2, <2>3, MembershipsOfDelta
  <2> QED BY SMTT(30), <2>3, <2>4 DEF MembershipFollowsState, MembershipIn
<1>3. CASE UpdateLatestEvents /\ input.event \in sent
  BY <1>1, <1>3 DEF UpdateLatestEvents
<1>4. CASE CommitFails
  <2>1. Transaction(FALSE) /\ pc = "latest"
    BY ZenonT(30), <1>4 DEF CommitFails
  <2> QED BY ZenonT(30), <1>1, <2>1, TransactionEffect
<1>5. CASE \E in \in Inputs : Begin(in)
  BY <1>1, <1>5 DEF Begin
<1>6. CASE Link
  BY <1>1, <1>6 DEF Link
<1>7. CASE SetState
  BY <1>1, <1>7 DEF SetState
<1>8. CASE Fail \/ UNCHANGED vars
  BY <1>1, <1>8 DEF Fail, vars, db
<1> QED BY <1>2, <1>3, <1>4, <1>5, <1>6, <1>7, <1>8 DEF Next

\* Until the state is rewritten, every sent event that nothing references is a
\* forward extremity, for any event graph.
THEOREM TipsAreExtremities == Spec => []EveryTipIsExtremity
<1>1. Init => EveryTipIsExtremity
  BY DEF Init, EveryTipIsExtremity
<1>2. IInv /\ EveryTipIsExtremity /\ [Next]_vars => EveryTipIsExtremity'
  BY TipsStep
<1> QED BY <1>1, <1>2, Invariance, PTL DEF Spec

\* Until the state is rewritten, the membership table and the current state
\* agree about every user, state resets included.
THEOREM MembershipAgrees == Spec => []MembershipFollowsState
<1>1. Init => MembershipFollowsState
  BY DEF Init, MembershipFollowsState, MembershipIn
<1>2. IInv /\ MembershipFollowsState /\ [Next]_vars => MembershipFollowsState'
  BY MembershipStep
<1> QED BY <1>1, <1>2, Invariance, PTL DEF Spec

=============================================================================
