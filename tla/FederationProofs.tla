-------------------------- MODULE FederationProofs --------------------------
(***************************************************************************)
(* Proofs about the two sides of federation that have state of their own:  *)
(* the transactions that come in (FederationInbound), and what the         *)
(* federation sender remembers about a server that transactions go out to  *)
(* (ServerStatistics).                                                     *)
(*                                                                         *)
(* Inbound, the properties are not inductive.  A handler works from what   *)
(* it read some steps ago while others change the room, so the invariant   *)
(* says what each handler has in hand: the rest of the transaction, of     *)
(* which all that came before has a result; and, once it has looked up the *)
(* state at the oldest event of a gap, that this state is right unless it  *)
(* has a hole.  Every step of a handler is then reduced to one of a few    *)
(* effects: the room gains events and at most one of them its state, and   *)
(* the handler goes on with its event or is done with it.                  *)
(*                                                                         *)
(* What makes the statistics hold is ownership: between the CAS that sets  *)
(* backoffStarted and the store that unsets it, exactly one goroutine (the *)
(* caller that won the CAS, then the goroutine it starts) may move the     *)
(* counter, and it finds the counter below the count that blacklists.  The *)
(* counter reaches that count only on the path that leaves backoffStarted  *)
(* set with no owner, and from then on no caller wins the CAS again.       *)
(***************************************************************************)
EXTENDS FederationInbound, ServerStatistics, FiniteSetTheorems, TLAPS

-----------------------------------------------------------------------------
(* Server statistics.                                                        *)

CallerOwns(c) == pc[c] = "inc"

\* At most one owner of the backoff, and it implies the flag.
OneOwner ==
  /\ \A c, d \in Callers : CallerOwns(c) /\ CallerOwns(d) => c = d
  /\ \A c \in Callers, g \in Timers : ~(CallerOwns(c) /\ Live(g))
  /\ \A c \in Callers : CallerOwns(c) => backoffStarted
  /\ \A g \in Timers : Live(g) => backoffStarted

\* Whoever owns the backoff, or will win it next, finds room in the counter.
RoomToCount ==
  /\ ~backoffStarted => backoffCount < BlacklistCount
  /\ \A c \in Callers : CallerOwns(c) => backoffCount < BlacklistCount
  /\ \A g \in Timers : Live(g) => backoffCount < BlacklistCount

\* The types the argument needs; how long an interval is does not matter.
OwnerTypes ==
  /\ backoffStarted \in BOOLEAN
  /\ backoffCount \in Nat
  /\ pc \in [Callers -> Steps]
  /\ timer \in [Timers -> {"none", "begin", "wait"}]
  /\ count \in [Callers -> 0..BlacklistCount]

BackoffInv == OwnerTypes /\ OneBackoffTimer /\ CountBounded /\ OneOwner /\ RoomToCount

\* There is room for one failure at least.
LEMMA CountPositive == BlacklistCount \in Nat /\ BlacklistCount > 0
BY ThresholdAssumption DEF BlacklistCount

\* A failure that does not reach the threshold leaves room below the limit,
\* one that finds room never passes it.
LEMMA CountReached ==
  ASSUME NEW n \in Nat, n < BlacklistCount
  PROVE  n + 1 <= BlacklistCount /\ (n + 1 < FailuresUntilBlacklist => n + 1 < BlacklistCount)
BY ThresholdAssumption DEF BlacklistCount

\* A freshly created ServerStatistics satisfies the inductive invariant.
LEMMA InitBackoff == StatisticsInit => BackoffInv
<1> SUFFICES ASSUME StatisticsInit PROVE BackoffInv
  OBVIOUS
<1>1. OwnerTypes
  <2>1. 0 \in 0..BlacklistCount
    BY CountPositive
  <2>2. backoffStarted \in BOOLEAN /\ backoffCount \in Nat
    BY ZenonT(30) DEF StatisticsInit
  <2>3. /\ pc \in [Callers -> Steps]
        /\ timer \in [Timers -> {"none", "begin", "wait"}]
    BY DEF StatisticsInit, Steps
  <2>4. count \in [Callers -> 0..BlacklistCount]
    BY <2>1 DEF StatisticsInit
  <2>5. QED
    BY <2>2, <2>3, <2>4 DEF OwnerTypes
<1>2. OneBackoffTimer /\ OneOwner
  BY DEF StatisticsInit, OneBackoffTimer, OneOwner, CallerOwns, Live
<1>3. CountBounded /\ RoomToCount
  BY CountPositive DEF StatisticsInit, CountBounded, RoomToCount, CallerOwns, Live
<1>4. QED
  BY <1>1, <1>2, <1>3 DEF BackoffInv

\* Every atomic access of Success, Failure and the backoff goroutine, and the
\* passing of time, preserve the inductive invariant.
LEMMA NextBackoff == BackoffInv /\ [StatisticsNext]_statistics => BackoffInv'
<1> SUFFICES ASSUME BackoffInv, [StatisticsNext]_statistics PROVE BackoffInv'
  OBVIOUS
<1> USE CountPositive
<1> USE DEF BackoffInv, OwnerTypes, OneBackoffTimer, CountBounded, OneOwner,
            RoomToCount, CallerOwns, Live, Steps, Goto
<1>1. ASSUME NEW c \in Callers, FailureBegin(c) PROVE BackoffInv'
  BY <1>1 DEF FailureBegin
<1>2. ASSUME NEW c \in Callers, FailureIncLast(c) PROVE BackoffInv'
  BY <1>2, CountReached DEF FailureIncLast
<1>3. ASSUME NEW c \in Callers, FailureInc(c) PROVE BackoffInv'
  BY <1>3, CountReached DEF FailureInc
<1>4. ASSUME NEW c \in Callers, FailureBlacklist(c) PROVE BackoffInv'
  BY <1>4 DEF FailureBlacklist
<1>5. ASSUME NEW c \in Callers, FailureDbAdd(c) PROVE BackoffInv'
  BY <1>5 DEF FailureDbAdd
<1>6. ASSUME NEW c \in Callers, FailureCheckBlacklisted(c) PROVE BackoffInv'
  BY <1>6 DEF FailureCheckBlacklisted
<1>7. ASSUME NEW c \in Callers, FailureCheckUntil(c) PROVE BackoffInv'
  BY <1>7 DEF FailureCheckUntil
<1>8. ASSUME NEW c \in Callers, FailureLoadCount(c) PROVE BackoffInv'
  BY <1>8 DEF FailureLoadCount
<1>9. ASSUME NEW c \in Callers, FailureStoreUntil(c) PROVE BackoffInv'
  BY <1>9 DEF FailureStoreUntil
<1>10. ASSUME NEW g \in Timers, TimerBegin(g) PROVE BackoffInv'
  BY ZenonT(30), <1>10 DEF TimerBegin
<1>11. ASSUME NEW g \in Timers, TimerFires(g) PROVE BackoffInv'
  BY ZenonT(30), <1>11 DEF TimerFires, Waiting
<1>12. ASSUME NEW c \in Callers, SuccessBegin(c) PROVE BackoffInv'
  BY <1>12 DEF SuccessBegin
<1>13. ASSUME NEW c \in Callers, CancelBlacklisted(c) PROVE BackoffInv'
  BY <1>13 DEF CancelBlacklisted
<1>14. ASSUME NEW c \in Callers, CancelUntil(c) PROVE BackoffInv'
  BY <1>14 DEF CancelUntil
<1>15. ASSUME NEW c \in Callers, CancelInterrupt(c) PROVE BackoffInv'
  BY <1>15 DEF CancelInterrupt
<1>16. ASSUME NEW c \in Callers, SuccessCount(c) PROVE BackoffInv'
  BY <1>16 DEF SuccessCount
<1>17. ASSUME NEW c \in Callers, SuccessReset(c) PROVE BackoffInv'
  BY <1>17 DEF SuccessReset
<1>18. ASSUME NEW c \in Callers, SuccessDbRemove(c) PROVE BackoffInv'
  BY <1>18 DEF SuccessDbRemove
<1>19. CASE Tick
  BY <1>19 DEF Tick
<1>20. CASE UNCHANGED statistics
  BY <1>20 DEF statistics
<1>21. QED
  BY ZenonT(30), <1>1, <1>2, <1>3, <1>4, <1>5, <1>6, <1>7, <1>8, <1>9, <1>10, <1>11, <1>12,
     <1>13, <1>14, <1>15, <1>16, <1>17, <1>18, <1>19, <1>20
  DEF StatisticsNext, Failure, Success, TimerStep

\* Whatever calls to Success and Failure overlap, there is never more than one
\* backoff goroutine per server: the CAS on backoffStarted is enough.
THEOREM OneTimer == StatisticsSpec => []OneBackoffTimer
<1>1. BackoffInv => OneBackoffTimer
  BY DEF BackoffInv
<1>2. QED
  BY InitBackoff, NextBackoff, <1>1, PTL DEF StatisticsSpec

\* Whatever calls to Success and Failure overlap, backoffCount stays within
\* the count that blacklists the server.
THEOREM CounterBounded == StatisticsSpec => []CountBounded
<1>1. BackoffInv => CountBounded
  BY DEF BackoffInv
<1>2. QED
  BY InitBackoff, NextBackoff, <1>1, PTL DEF StatisticsSpec

\* The variables have their types: a backoff interval is Past or a number of
\* seconds, and no caller's copy of the failure counter exceeds the count that
\* blacklists the server, whatever calls overlap.
THEOREM StatisticsTypes == StatisticsSpec => []StatisticsTypeOK
<1>1. StatisticsInit => StatisticsTypeOK
  <2> SUFFICES ASSUME StatisticsInit PROVE StatisticsTypeOK
    OBVIOUS
  <2>1. 0 \in 0..BlacklistCount /\ Past \in Times
    BY CountPositive DEF Times
  <2> QED BY ZenonT(30), <2>1 DEF StatisticsInit, StatisticsTypeOK, Steps
<1>2. BackoffInv /\ BackoffInv' /\ StatisticsTypeOK /\ [StatisticsNext]_statistics => StatisticsTypeOK'
  <2> SUFFICES ASSUME BackoffInv, BackoffInv', StatisticsTypeOK, [StatisticsNext]_statistics
               PROVE  StatisticsTypeOK'
    OBVIOUS
  <2>1. OwnerTypes'
    BY DEF BackoffInv
  <2>2. successCounter + 1 \in Nat
    BY DEF StatisticsTypeOK
  <2>3. \A x \in Times \cup {NotStored} : Elapse(x) \in Times \cup {NotStored} /\ (x \in Times => Elapse(x) \in Times)
    BY NotStoredAssumption DEF Elapse, Times, Past
  <2>4. Past \in Times
    BY DEF Times
  <2>5. \A c \in Callers : duration(count[c]) \in Times
    <3>1. \A c \in Callers : count[c] \in 0..BlacklistCount
      BY DEF StatisticsTypeOK
    <3> QED BY <3>1, DurationAssumption DEF Times
  <2>6. /\ blacklisted' \in BOOLEAN /\ dbBlacklisted' \in BOOLEAN /\ successCounter' \in Nat
        /\ backoffUntil' \in Times \cup {NotStored}
    BY ZenonT(30), <2>2, <2>3, <2>4, <2>5
       DEF StatisticsTypeOK, StatisticsNext, Failure, Success, TimerStep, statistics, FailureBegin,
           FailureIncLast, FailureInc, FailureBlacklist, FailureDbAdd, FailureCheckBlacklisted, FailureCheckUntil,
           FailureLoadCount, FailureStoreUntil, TimerBegin, TimerFires, SuccessBegin,
           CancelBlacklisted, CancelUntil, CancelInterrupt, SuccessCount, SuccessReset,
           SuccessDbRemove, Tick
  <2>7. left' \in [Timers -> Times]
    <3>1. CASE UNCHANGED left
      BY <3>1 DEF StatisticsTypeOK
    <3>2. ASSUME NEW g \in Timers, NEW t \in Times, left' = [left EXCEPT ![g] = t]
          PROVE  left' \in [Timers -> Times]
      BY <3>2 DEF StatisticsTypeOK
    <3>3. ASSUME NEW g \in Timers, TimerBegin(g) PROVE left' \in [Timers -> Times]
      BY <3>1, <3>2, <3>3 DEF StatisticsTypeOK, TimerBegin
    <3>4. ASSUME NEW c \in Callers, CancelInterrupt(c) PROVE left' \in [Timers -> Times]
      BY <2>4, <3>1, <3>2, <3>4 DEF CancelInterrupt
    <3>5. CASE Tick
      BY <2>3, <3>5 DEF StatisticsTypeOK, Tick
    <3> QED BY ZenonT(30), <3>1, <3>3, <3>4, <3>5
       DEF StatisticsNext, Failure, Success, TimerStep, statistics, FailureBegin,
           FailureIncLast, FailureInc, FailureBlacklist, FailureDbAdd, FailureCheckBlacklisted, FailureCheckUntil,
           FailureLoadCount, FailureStoreUntil, TimerFires, SuccessBegin,
           CancelBlacklisted, CancelUntil, SuccessCount, SuccessReset, SuccessDbRemove
  <2> QED BY <2>1, <2>6, <2>7 DEF OwnerTypes, StatisticsTypeOK
<1> QED BY InitBackoff, NextBackoff, <1>1, <1>2, PTL DEF StatisticsSpec

-----------------------------------------------------------------------------
(* Transactions from other servers: the invariant.                           *)

\* A state has state events only, and one for each key.
Snapshot(s) == s \in States /\ \A x, y \in s : KeyOf[x] = KeyOf[y] => x = y

\* What the roomserver has.
RoomTypes ==
    /\ stored \subseteq Events /\ latest \subseteq stored /\ sent \subseteq stored
    /\ before \in [Events -> States \cup {NoState}]
    /\ \A e \in Events : HasState(e) =>
         e \in stored /\ Snapshot(before[e]) /\ before[e] \subseteq stored

Busy == {"auth", "input", "gap", "lookup", "extremity", "rest"}

HandlerRecord ==
    [pc : {"idle", "event"} \cup Busy, origin : Origins \cup {None}, txn : Nat,
     todo : Seq(Events), missingAuth : SUBSET Events, gap : BOOLEAN, new : Seq(Events),
     state : States, hole : BOOLEAN, err : BOOLEAN]

\* What a handler has in hand at each of its steps: the event it works on, the
\* events that are missing before it, and, once those are being sent, the event
\* itself as the last of them.
InHand(r) ==
    /\ r \in HandlerRecord
    /\ r.pc \in Busy => r.todo # <<>>
    /\ r.pc \in {"lookup", "extremity", "rest"} => r.new # <<>>
    /\ r.pc = "extremity" => Snapshot(r.state)
    /\ r.pc = "rest" => r.new[Len(r.new)] = Head(r.todo)

HandlerTypes == DOMAIN handler = Handlers /\ \A h \in Handlers : InHand(handler[h])

-----------------------------------------------------------------------------
(* The events that a handler sends.                                          *)

\* What Append adds is the last.
LEMMA AppendIsLast ==
    ASSUME NEW S, NEW t \in Seq(S), NEW e \in S
    PROVE  Append(t, e) \in Seq(S) /\ Append(t, e) # <<>> /\ Append(t, e)[Len(Append(t, e))] = e
<1>1. Append(t, e) \in Seq(S) /\ Len(Append(t, e)) = Len(t) + 1 /\ Len(t) \in Nat
  BY SMTT(30)
<1>2. Append(t, e)[Len(t) + 1] = e
  BY SMTT(30)
<1>3. Append(t, e) # <<>>
  BY SMTT(30), <1>1
<1> QED BY ZenonT(30), <1>1, <1>2, <1>3

\* The event itself comes after the others.
LEMMA EventIsLast ==
    ASSUME NEW q \in Seq(Events), q # <<>>, NEW e \in Events
    PROVE  LET new == Append(Tail(q), e)
           IN  new \in Seq(Events) /\ new # <<>> /\ new[Len(new)] = e
<1>1. Tail(q) \in Seq(Events)
  BY SMTT(30)
<1> QED BY ZenonT(30), <1>1, AppendIsLast

\* A number that is neither zero nor more than one.
LEMMA IsOne == ASSUME NEW n \in Nat, n # 0, ~(n > 1) PROVE n = 1
BY SMTT(30)

\* The last of two or more is the last of the rest.
LEMMA TailLast ==
    ASSUME NEW S, NEW q \in Seq(S), Len(q) > 1
    PROVE  Tail(q) \in Seq(S) /\ Len(Tail(q)) = Len(q) - 1 /\ Tail(q)[Len(q) - 1] = q[Len(q)]
           /\ Tail(q) # <<>>
<1>1. Len(q) \in Nat
  BY SMTT(30)
<1>2. q # <<>>
  BY SMTT(30)
<1>3. Tail(q) \in Seq(S) /\ Len(Tail(q)) = Len(q) - 1
  BY SMTT(30), <1>2
<1>4. Len(q) - 1 \in 1..Len(Tail(q)) /\ (Len(q) - 1) + 1 = Len(q)
  BY SMTT(30), <1>1, <1>3
<1>5. \A i \in 1..Len(Tail(q)) : Tail(q)[i] = q[i + 1]
  BY SMTT(30), <1>2, <1>1
<1>6. Tail(q)[Len(q) - 1] = q[(Len(q) - 1) + 1]
  BY ZenonT(30), <1>4, <1>5
<1>7. Len(Tail(q)) # 0
  BY SMTT(30), <1>1, <1>3
<1>8. Len(<<>>) = 0
  BY SMTT(30)
<1> QED BY ZenonT(30), <1>3, <1>4, <1>6, <1>7, <1>8

\* The others, and then the event itself.
LEMMA TailKeepsLast ==
    ASSUME NEW q \in Seq(Events), q # <<>>
    PROVE  /\ Len(q) > 1 => Tail(q) \in Seq(Events) /\ Tail(q) # <<>>
                            /\ Tail(q)[Len(Tail(q))] = q[Len(q)]
           /\ ~(Len(q) > 1) => Head(q) = q[Len(q)]
<1>1. Len(q) \in Nat /\ Len(q) # 0 /\ Head(q) = q[1]
  BY SMTT(30)
<1>2. CASE Len(q) > 1
  BY ZenonT(30), <1>2, TailLast
<1>3. CASE ~(Len(q) > 1)
  BY ZenonT(30), <1>1, <1>3, IsOne
<1> QED BY <1>2, <1>3

-----------------------------------------------------------------------------
(* States.                                                                   *)

\* No state is the mark of an event without one.
LEMMA StateIsSome == \A s \in States : s # NoState
BY InboundAssumption DEF States, NoState

\* State resolution picks one of the given events for each key.
LEMMA ResolveIsSnapshot ==
    ASSUME NEW S \in SUBSET States
    PROVE  Snapshot(ResolveConflicts(S)) /\ ResolveConflicts(S) \subseteq UNION S
<1> DEFINE R == ResolveConflicts(S)
<1>1. R \subseteq UNION S
  BY DEF ResolveConflicts
<1>2. \A x \in R : x \in Events /\ KeyOf[x] # NoKey /\ Rank[x] \in Nat
  BY <1>1, RankAssumption DEF States
<1>3. \A x, y \in R : KeyOf[x] = KeyOf[y] => Rank[x] <= Rank[y]
  BY DEF ResolveConflicts
<1> HIDE DEF R
<1>4. \A x, y \in R : KeyOf[x] = KeyOf[y] => Rank[x] = Rank[y]
  BY <1>2, <1>3
<1>5. \A x, y \in R : KeyOf[x] = KeyOf[y] => x = y
  BY <1>2, <1>4, RankAssumption
<1>6. R \in States
  BY <1>2 DEF States
<1> QED BY <1>1, <1>5, <1>6 DEF Snapshot, R

\* A state event takes the place of the one with its key.
LEMMA AfterIsState ==
    ASSUME NEW s \in States, NEW e \in Events
    PROVE  StateAfter(s, e) \in States /\ StateAfter(s, e) \subseteq s \cup {e}
BY DEF StateAfter, States

\* The state before an event is a state.
LEMMA TrueIsState == \A e \in Events : TrueBefore[e] \in States
<1> DEFINE B == {e \in Events : TrueBefore[e] \notin States}
<1> SUFFICES ASSUME B # {} PROVE FALSE
  OBVIOUS
<1>1. PICK e \in B : Prev[e] \cap B = {}
  BY ZenonT(30), AcyclicAssumption
<1>2. e \in Events /\ Prev[e] \in SUBSET Events /\ TrueBefore[e] \notin States
  BY InboundAssumption
<1>3. \A p \in Prev[e] : TrueBefore[p] \in States
  BY <1>1, <1>2
<1>4. \A p \in Prev[e] : StateAfter(TrueBefore[p], p) \in States
  BY <1>2, <1>3, AfterIsState
<1>5. {StateAfter(TrueBefore[p], p) : p \in Prev[e]} \in SUBSET States
  BY <1>4
<1>6. TrueBefore[e] = ResolveConflicts({StateAfter(TrueBefore[p], p) : p \in Prev[e]})
  BY <1>2, StateAssumption
<1> QED BY <1>2, <1>5, <1>6, ResolveIsSnapshot DEF Snapshot

\* What came before an event that came before came before.
LEMMA AncestorsGrow ==
    ASSUME NEW e \in Events
    PROVE  e \in Ancestors[e] /\ \A p \in Prev[e] : Ancestors[p] \subseteq Ancestors[e]
<1>1. Prev[e] \in SUBSET Events
  BY InboundAssumption
<1>2. e \in Ancestors[e]
  BY DEF Ancestors
<1>3. ASSUME NEW p \in Prev[e], NEW x \in Ancestors[p] PROVE x \in Ancestors[e]
  <2>1. x \in Events /\ \A S \in SUBSET Events : p \in S /\ (\A y \in S : Prev[y] \subseteq S) => x \in S
    BY <1>1 DEF Ancestors
  <2>2. \A S \in SUBSET Events : e \in S /\ (\A y \in S : Prev[y] \subseteq S) => x \in S
    BY <2>1
  <2> QED BY <2>1, <2>2 DEF Ancestors
<1> QED BY <1>2, <1>3

\* The state that is worked out for an event is a snapshot of stored events.
LEMMA StateBeforeIs ==
    ASSUME RoomTypes, NEW e \in Events, NEW supplied, NEW known \in SUBSET Events,
           supplied = NoState \/ (Snapshot(supplied) /\ supplied \subseteq known),
           stored \subseteq known
    PROVE  LET s == StateBefore(e, supplied)
           IN  s = NoState \/ (Snapshot(s) /\ s \subseteq known)
<1>1. CASE HasState(e)
  BY <1>1 DEF StateBefore, RoomTypes
<1>2. CASE ~HasState(e) /\ supplied # NoState
  BY <1>2 DEF StateBefore
<1>3. CASE ~HasState(e) /\ supplied = NoState /\ \A p \in Prev[e] : HasState(p)
  <2>1. Prev[e] \in SUBSET Events
    BY InboundAssumption
  <2>2. \A p \in Prev[e] : /\ StateAfter(before[p], p) \in States
                           /\ StateAfter(before[p], p) \subseteq stored
    <3> SUFFICES ASSUME NEW p \in Prev[e]
                 PROVE  /\ StateAfter(before[p], p) \in States
                        /\ StateAfter(before[p], p) \subseteq stored
      OBVIOUS
    <3>1. p \in Events /\ p \in stored /\ before[p] \in States /\ before[p] \subseteq stored
      BY <1>3, <2>1 DEF RoomTypes, Snapshot
    <3> QED BY <3>1, AfterIsState
  <2> DEFINE S == {StateAfter(before[p], p) : p \in Prev[e]}
  <2>3. S \in SUBSET States /\ UNION S \subseteq stored
    BY <2>2
  <2>4. StateBefore(e, supplied) = ResolveConflicts(S)
    BY <1>3 DEF StateBefore
  <2> HIDE DEF S
  <2> QED BY <2>3, <2>4, ResolveIsSnapshot
<1>4. CASE ~HasState(e) /\ supplied = NoState /\ ~(\A p \in Prev[e] : HasState(p))
  BY <1>4 DEF StateBefore
<1> QED BY <1>1, <1>2, <1>3, <1>4

-----------------------------------------------------------------------------
(* What a step of the roomserver keeps.                                      *)

\* Events are only added, and at most one of them is given its state.
Stores(e, supplied) ==
    /\ stored \subseteq stored' /\ stored' \subseteq Events
    /\ latest' \subseteq stored' /\ sent' \subseteq stored'
    /\ \/ before' = before
       \/ e \in stored' /\ before' = [before EXCEPT ![e] = StateBefore(e, supplied)]

\* A state that comes with an event has its events stored.
Supplied(s) == s = NoState \/ (Snapshot(s) /\ s \subseteq stored')

\* Such a step keeps the types of the room.
LEMMA RoomKeeps ==
    ASSUME RoomTypes, NEW e \in Events, NEW supplied, Supplied(supplied), Stores(e, supplied)
    PROVE  RoomTypes'
<1> DEFINE s == StateBefore(e, supplied)
<1>1. s = NoState \/ (Snapshot(s) /\ s \subseteq stored')
  BY StateBeforeIs DEF Stores, Supplied
<1> HIDE DEF s
<1>2. CASE before' = before
  BY <1>2 DEF RoomTypes, Stores, HasState
<1>3. CASE e \in stored' /\ before' = [before EXCEPT ![e] = s]
  <2>1. before' \in [Events -> States \cup {NoState}]
    BY <1>1, <1>3 DEF RoomTypes, Snapshot
  <2>2. ASSUME NEW x \in Events, before'[x] # NoState
        PROVE  x \in stored' /\ Snapshot(before'[x]) /\ before'[x] \subseteq stored'
    <3>1. CASE x = e
      BY <1>1, <1>3, <2>2, <3>1 DEF RoomTypes
    <3>2. CASE x # e
      BY <1>3, <2>2, <3>2 DEF RoomTypes, HasState, Stores
    <3> QED BY <3>1, <3>2
  <2> QED BY <2>1, <2>2 DEF RoomTypes, HasState, Stores, Snapshot
<1> QED BY <1>2, <1>3 DEF Stores, s

\* A state is worked out from the states before, which are right, or is given
\* with the event, and then it is right or the event becomes a hole.
LEMMA RightKeeps ==
    ASSUME RoomTypes, StateIsRight, NEW e \in Events, NEW supplied, Stores(e, supplied),
           holes \subseteq holes',
           supplied # NoState /\ ~HasState(e) /\ Ancestors[e] \cap holes' = {}
              => supplied = TrueBefore[e]
    PROVE  StateIsRight'
<1> SUFFICES ASSUME NEW x \in Events, before'[x] # NoState, Ancestors[x] \cap holes' = {}
             PROVE  before'[x] = TrueBefore[x]
  BY DEF StateIsRight, HasState
<1>1. \A y \in Events : HasState(y) /\ Ancestors[y] \cap holes' = {} => before[y] = TrueBefore[y]
  BY DEF StateIsRight
<1>2. CASE before'[x] = before[x]
  BY <1>1, <1>2 DEF HasState
<1>3. CASE before'[x] # before[x]
  <2>1. x = e /\ before'[e] = StateBefore(e, supplied)
    BY <1>3 DEF Stores, RoomTypes
  <2>2. ~HasState(e)
    BY <1>3, <2>1 DEF StateBefore
  <2>3. CASE supplied # NoState
    BY <2>1, <2>2, <2>3 DEF StateBefore
  <2>4. CASE supplied = NoState
    <3>1. /\ \A p \in Prev[e] : HasState(p)
          /\ before'[e] = ResolveConflicts({StateAfter(before[p], p) : p \in Prev[e]})
      BY <2>1, <2>2, <2>4 DEF StateBefore
    <3>2. \A p \in Prev[e] : before[p] = TrueBefore[p]
      <4> SUFFICES ASSUME NEW p \in Prev[e] PROVE before[p] = TrueBefore[p]
        OBVIOUS
      <4>1. p \in Events
        BY InboundAssumption
      <4>2. Ancestors[p] \cap holes' = {}
        BY <2>1, AncestorsGrow
      <4> QED BY <1>1, <3>1, <4>1, <4>2
    <3>3. {StateAfter(before[p], p) : p \in Prev[e]} = {StateAfter(TrueBefore[p], p) : p \in Prev[e]}
      BY <3>2
    <3> QED BY <2>1, <3>1, <3>3, StateAssumption
  <2> QED BY <2>3, <2>4
<1> QED BY <1>2, <1>3

-----------------------------------------------------------------------------
(* What a handler does.                                                      *)

\* The state that was looked up for the oldest event is right, unless it has a
\* hole.
KnowsState(r, missing) ==
    r.pc = "extremity" /\ ~r.hole /\ Ancestors[Head(r.new)] \cap missing = {} =>
        r.state = TrueBefore[Head(r.new)]

\* The handler goes on with its event ...
Continues(h) ==
    /\ handler[h].pc # "idle" /\ handler' = [handler EXCEPT ![h] = handler'[h]]
    /\ InHand(handler'[h]) /\ KnowsState(handler'[h], holes') /\ handler'[h].pc # "idle"
    /\ handler'[h].origin = handler[h].origin /\ handler'[h].txn = handler[h].txn
    /\ handler'[h].todo = handler[h].todo
    /\ UNCHANGED <<accepted, failed>>

\* ... or it is done with it.
Finishes(h) ==
    /\ NextEvent(h) /\ handler[h].pc # "idle" /\ handler[h].todo # <<>>
    /\ accepted \subseteq accepted' /\ failed \subseteq failed'
    /\ Event(h) \in accepted' \cup failed' /\ accepted' \subseteq accepted \cup (stored' \cap {Event(h)})

RoomEffect ==
    /\ holes \subseteq holes'
    /\ \E e \in Events : \E supplied \in States \cup {NoState} :
         /\ Supplied(supplied) /\ Stores(e, supplied)
         /\ supplied # NoState /\ ~HasState(e) /\ Ancestors[e] \cap holes' = {} =>
               supplied = TrueBefore[e]

Effect(h) ==
    /\ RoomEffect
    /\ Continues(h) \/ Finishes(h)
    /\ faults' \in 0..MaxFaults
    /\ UNCHANGED <<next, waiting, applied>>

\* The event that a busy handler works on.
LEMMA EventIs ==
    ASSUME HandlerTypes, NEW h \in Handlers, handler[h].todo # <<>>
    PROVE  Event(h) \in Events /\ Event(h) = handler[h].todo[1]
<1>1. handler[h].todo \in Seq(Events)
  BY DEF HandlerTypes, InHand, HandlerRecord
<1> QED BY <1>1 DEF Event

\* A step that leaves the roomserver alone.
LEMMA RoomStays ==
    ASSUME RoomTypes, UNCHANGED room, holes' = holes
    PROVE  RoomEffect
<1>1. Supplied(NoState) /\ Stores(Root, NoState) /\ Root \in Events
  BY InboundAssumption DEF Supplied, Stores, RoomTypes, room
<1> QED BY <1>1 DEF RoomEffect

\* An error, whatever it is, finishes the event.
LEMMA SkipFinishes ==
    ASSUME HandlerTypes, NEW h \in Handlers, handler[h].pc # "idle", handler[h].todo # <<>>, Skip(h)
    PROVE  Finishes(h) /\ UNCHANGED <<applied, holes>>
BY DEF Skip, Finishes

\* Faults are counted.
LEMMA FaultCounts ==
    ASSUME faults \in 0..MaxFaults, Fault
    PROVE  faults' \in 0..MaxFaults
BY SMTT(30), InboundAssumption DEF Fault

\* A query that fails, and the event with it.
LEMMA FailsEffect ==
    ASSUME RoomTypes, HandlerTypes, faults \in 0..MaxFaults, NEW h \in Handlers,
           handler[h].pc # "idle", handler[h].todo # <<>>, Fails(h), UNCHANGED origin
    PROVE  Effect(h)
<1>1. Finishes(h) /\ UNCHANGED <<applied, holes>> /\ UNCHANGED room
  BY SkipFinishes DEF Fails
<1>2. faults' \in 0..MaxFaults
  BY ZenonT(30), FaultCounts DEF Fails
<1> QED BY <1>1, <1>2, RoomStays DEF Effect, origin

\* QueryMissingAuthPrevEvents only reads: the handler goes on with what it found.
LEMMA ProcessEventEffect ==
    ASSUME RoomTypes, HandlerTypes, faults \in 0..MaxFaults, NEW h \in Handlers, ProcessEvent(h)
    PROVE  Effect(h)
<1> DEFINE e == Event(h)
           missing == Auth[e] \ stored
           gap == \E p \in Prev[e] : ~HasState(p)
           step == IF missing # {} THEN "auth" ELSE IF gap THEN "gap" ELSE "input"
           r == handler[h]
           r2 == [r EXCEPT !.missingAuth = missing, !.gap = gap, !.pc = step]
<1>1. r.pc = "event" /\ r.pc # "idle" /\ r.todo # <<>> /\ r \in HandlerRecord /\ UNCHANGED origin
  BY ZenonT(30) DEF ProcessEvent, HandlerTypes, InHand
<1>2. e \in Events /\ missing \in SUBSET Events /\ gap \in BOOLEAN
  BY <1>1, EventIs, InboundAssumption
<1>3. CASE Fails(h)
  BY <1>1, <1>3, FailsEffect
<1>4. CASE /\ handler' = [handler EXCEPT ![h].missingAuth = missing, ![h].gap = gap, ![h].pc = step]
           /\ UNCHANGED <<room, history, faults>>
  <2>1. step \in {"auth", "gap", "input"}
    OBVIOUS
  <2> HIDE DEF e, missing, gap, step
  <2>2. handler' = [handler EXCEPT ![h] = r2] /\ handler'[h] = r2
    BY ZenonT(30), <1>4 DEF HandlerTypes
  <2>3. r2 \in HandlerRecord /\ r2.pc = step /\ r2.origin = r.origin /\ r2.txn = r.txn /\ r2.todo = r.todo
    BY ZenonT(30), <1>1, <1>2, <2>1 DEF HandlerRecord, Busy
  <2> HIDE DEF r2
  <2>4. InHand(r2) /\ KnowsState(r2, holes')
    BY <1>1, <2>1, <2>3 DEF InHand, KnowsState
  <2>5. Continues(h)
    BY ZenonT(30), <1>1, <1>4, <2>1, <2>2, <2>3, <2>4 DEF Continues, history
  <2>6. RoomEffect
    BY ZenonT(30), <1>4, RoomStays DEF history
  <2>7. UNCHANGED <<next, waiting, applied>> /\ faults' \in 0..MaxFaults
    BY ZenonT(30), <1>1, <1>4 DEF origin, history
  <2> QED BY ZenonT(30), <2>5, <2>6, <2>7 DEF Effect
<1> QED BY ZenonT(30), <1>3, <1>4 DEF ProcessEvent

\* Auth events are stored without a state.
LEMMA RetrieveEffect ==
    ASSUME RoomTypes, HandlerTypes, faults \in 0..MaxFaults, NEW h \in Handlers,
           RetrieveMissingAuthEvents(h)
    PROVE  Effect(h)
<1> DEFINE r == handler[h]
           step == IF r.gap THEN "gap" ELSE "input"
           r2 == [r EXCEPT !.pc = step]
<1>1. r.pc = "auth" /\ r.pc # "idle" /\ r.todo # <<>> /\ r \in HandlerRecord /\ UNCHANGED origin
  BY ZenonT(30) DEF RetrieveMissingAuthEvents, HandlerTypes, InHand, Busy
<1>2. CASE Fails(h)
  BY ZenonT(30), <1>1, <1>2, FailsEffect
<1>3. CASE /\ stored' = stored \cup r.missingAuth
           /\ Proceed(h, step)
           /\ UNCHANGED <<before, latest, sent, history, faults>>
  <2>1. step \in {"gap", "input"}
    OBVIOUS
  <2> HIDE DEF step
  <2>2. handler' = [handler EXCEPT ![h] = r2] /\ handler'[h] = r2
    BY ZenonT(30), <1>3 DEF HandlerTypes, Proceed
  <2>3. r2 \in HandlerRecord /\ r2.pc = step /\ r2.origin = r.origin /\ r2.txn = r.txn /\ r2.todo = r.todo
    BY ZenonT(30), <1>1, <2>1 DEF HandlerRecord, Busy
  <2> HIDE DEF r2
  <2>4. InHand(r2) /\ KnowsState(r2, holes')
    BY <1>1, <2>1, <2>3 DEF InHand, KnowsState
  <2>5. Continues(h)
    BY ZenonT(30), <1>1, <1>3, <2>1, <2>2, <2>3, <2>4 DEF Continues, history
  <2>6. r.missingAuth \subseteq Events
    BY ZenonT(30), <1>1 DEF HandlerRecord
  <2>7. Supplied(NoState) /\ Stores(Root, NoState) /\ Root \in Events /\ holes' = holes
    BY <1>3, <2>6, InboundAssumption DEF Supplied, Stores, RoomTypes, history
  <2>8. RoomEffect
    BY <2>7 DEF RoomEffect
  <2>9. UNCHANGED <<next, waiting, applied>> /\ faults' \in 0..MaxFaults
    BY ZenonT(30), <1>1, <1>3 DEF origin, history
  <2> QED BY ZenonT(30), <2>5, <2>8, <2>9 DEF Effect
<1> QED BY ZenonT(30), <1>2, <1>3 DEF RetrieveMissingAuthEvents

\* A roomserver that fails half way.
LEMMA InputFailsEffect ==
    ASSUME RoomTypes, NEW e \in Events, InputFails(e), holes' = holes
    PROVE  RoomEffect
<1>1. CASE UNCHANGED room
  BY <1>1, RoomStays
<1>2. CASE /\ stored' = stored \cup {e}
           /\ before' \in {before, [before EXCEPT ![e] = StateBefore(e, NoState)]}
           /\ UNCHANGED <<latest, sent>>
  <2>1. Supplied(NoState) /\ Stores(e, NoState)
    BY <1>2 DEF Supplied, Stores, RoomTypes
  <2> QED BY <2>1 DEF RoomEffect
<1> QED BY <1>1, <1>2 DEF InputFails

\* A new event is stored with the state after its prev events.
LEMMA SendNewEffect ==
    ASSUME RoomTypes, HandlerTypes, faults \in 0..MaxFaults, NEW h \in Handlers, SendNewEvent(h)
    PROVE  Effect(h)
<1> DEFINE e == Event(h)
<1>1. handler[h].pc = "input" /\ handler[h].pc # "idle" /\ handler[h].todo # <<>> /\ UNCHANGED origin
  BY ZenonT(30) DEF SendNewEvent, HandlerTypes, InHand, Busy
<1>2. e \in Events
  BY <1>1, EventIs
<1>3. CASE InputNew(e) /\ Accept(h) /\ UNCHANGED <<failed, applied, holes, faults>>
  <2>1. Finishes(h)
    BY <1>1, <1>3 DEF Finishes, Accept, InputNew
  <2>2. Supplied(NoState) /\ Stores(e, NoState)
    BY <1>2, <1>3 DEF Supplied, Stores, RoomTypes, InputNew
  <2>3. RoomEffect
    BY <1>2, <1>3, <2>2 DEF RoomEffect
  <2> QED BY ZenonT(30), <1>1, <1>3, <2>1, <2>3 DEF Effect, origin
<1>4. CASE Fault /\ InputFails(e) /\ Skip(h)
  <2>1. Finishes(h) /\ UNCHANGED <<applied, holes>>
    BY ZenonT(30), <1>1, <1>4, SkipFinishes
  <2>2. RoomEffect
    BY ZenonT(30), <1>2, <1>4, <2>1, InputFailsEffect
  <2>3. faults' \in 0..MaxFaults
    BY ZenonT(30), <1>4, FaultCounts
  <2> QED BY ZenonT(30), <1>1, <2>1, <2>2, <2>3 DEF Effect, origin
<1> QED BY ZenonT(30), <1>3, <1>4 DEF SendNewEvent

\* An order of some events lists them.
LEMMA OrderIsSequence ==
    ASSUME NEW s \in SUBSET Events, NEW q \in TopologicalOrders(s), s # {}
    PROVE  q \in Seq(Events) /\ q # <<>>
<1>1. IsFiniteSet(s)
  BY FS_Subset, InboundAssumption
<1>2. Cardinality(s) \in Nat
  BY <1>1, FS_CardinalityType
<1>3. q \in [1..Cardinality(s) -> s] /\ {q[i] : i \in DOMAIN q} = s
  BY DEF TopologicalOrders
<1>4. q \in Seq(Events)
  BY <1>2, <1>3
<1>5. DOMAIN q # {}
  BY <1>3
<1> QED BY <1>4, <1>5

\* An answer gives the events of the gap in order, or the event is dropped.
LEMMA GetMissingEffect ==
    ASSUME RoomTypes, HandlerTypes, faults \in 0..MaxFaults, NEW h \in Handlers, GetMissingEvents(h)
    PROVE  Effect(h)
<1> DEFINE r == handler[h]
           e == Event(h)
<1>1. r.pc = "gap" /\ r.pc # "idle" /\ r.todo # <<>> /\ r \in HandlerRecord /\ UNCHANGED origin
  BY ZenonT(30) DEF GetMissingEvents, HandlerTypes, InHand, Busy
<1>2. CASE Fails(h)
  BY ZenonT(30), <1>1, <1>2, FailsEffect
<1>3. ASSUME NEW s \in QueryMissingEvents(e, latest), s \cap Prev[e] = {}, Skip(h), UNCHANGED <<room, faults>>
      PROVE  Effect(h)
  <2>1. Finishes(h) /\ UNCHANGED <<applied, holes>>
    BY ZenonT(30), <1>1, <1>3, SkipFinishes
  <2>2. RoomEffect
    BY ZenonT(30), <1>3, <2>1, RoomStays
  <2> QED BY ZenonT(30), <1>1, <1>3, <2>1, <2>2 DEF Effect, origin
<1>4. ASSUME NEW s \in QueryMissingEvents(e, latest), s \cap Prev[e] # {},
             NEW q \in TopologicalOrders(s),
             handler' = [handler EXCEPT ![h].new = q, ![h].pc = "lookup"],
             UNCHANGED <<room, history, faults>>
      PROVE  Effect(h)
  <2>1. s \in SUBSET Events /\ s # {}
    BY <1>4 DEF QueryMissingEvents, ScanEventTree
  <2>2. q \in Seq(Events) /\ q # <<>>
    BY ZenonT(30), <2>1, OrderIsSequence
  <2> DEFINE r2 == [r EXCEPT !.new = q, !.pc = "lookup"]
  <2>3. handler' = [handler EXCEPT ![h] = r2] /\ handler'[h] = r2
    BY ZenonT(30), <1>4 DEF HandlerTypes
  <2>4. r2 \in HandlerRecord /\ r2.pc = "lookup" /\ r2.origin = r.origin /\ r2.txn = r.txn
        /\ r2.todo = r.todo /\ r2.new = q
    BY ZenonT(30), <1>1, <2>2 DEF HandlerRecord, Busy
  <2> HIDE DEF r2
  <2>5. InHand(r2) /\ KnowsState(r2, holes')
    BY <1>1, <2>2, <2>4 DEF InHand, KnowsState
  <2>6. Continues(h)
    BY ZenonT(30), <1>1, <1>4, <2>3, <2>4, <2>5 DEF Continues, history
  <2>7. RoomEffect
    BY ZenonT(30), <1>4, RoomStays DEF history
  <2>8. UNCHANGED <<next, waiting, applied>> /\ faults' \in 0..MaxFaults
    BY ZenonT(30), <1>1, <1>4 DEF origin, history
  <2> QED BY ZenonT(30), <2>6, <2>7, <2>8 DEF Effect
<1> QED BY ZenonT(30), <1>2, <1>3, <1>4 DEF GetMissingEvents

\* The oldest of the events that a handler is about to send.
LEMMA OldestIs ==
    ASSUME NEW r, InHand(r), r.pc \in {"lookup", "extremity", "rest"}
    PROVE  r.new \in Seq(Events) /\ r.new # <<>> /\ Head(r.new) \in Events /\ Head(r.new) = r.new[1]
<1>1. r.new \in Seq(Events) /\ r.new # <<>>
  BY ZenonT(30) DEF InHand, HandlerRecord
<1> QED BY SMTT(30), <1>1

\* The state after an event is a state, wherever it is looked up.
LEMMA LookupIsState ==
    ASSUME RoomTypes, NEW p \in Events, NEW lost
    PROVE  LookupStateAfterEvent(p, lost) \in States
<1>1. CASE HasState(p)
  <2>1. before[p] \in States
    BY <1>1 DEF RoomTypes, Snapshot
  <2> QED BY <1>1, <2>1, AfterIsState DEF LookupStateAfterEvent
<1>2. CASE ~HasState(p)
  <2>1. TrueBefore[p] \in States
    BY TrueIsState
  <2>2. TrueBefore[p] \ lost \in States
    BY <2>1 DEF States
  <2> QED BY ZenonT(30), <1>2, <2>2, AfterIsState DEF LookupStateAfterEvent
<1> QED BY <1>1, <1>2

\* Without a loss it is the one by the whole graph.
LEMMA LookupIsRight ==
    ASSUME StateIsRight, NEW p \in Events, Ancestors[p] \cap holes = {}
    PROVE  LookupStateAfterEvent(p, {}) = StateAfter(TrueBefore[p], p)
<1>1. HasState(p) => before[p] = TrueBefore[p]
  BY ZenonT(30) DEF StateIsRight
<1>2. TrueBefore[p] \ {} = TrueBefore[p]
  OBVIOUS
<1> QED BY ZenonT(30), <1>1, <1>2 DEF LookupStateAfterEvent

\* The state at the oldest event is put together from states that are right.
LEMMA LookupEffect ==
    ASSUME RoomTypes, StateIsRight, HandlerTypes, faults \in 0..MaxFaults, NEW h \in Handlers,
           LookupStates(h)
    PROVE  Effect(h)
<1> DEFINE r == handler[h]
           e == Head(r.new)
           prev == Prev[e]
<1>1. r.pc = "lookup" /\ r.pc # "idle" /\ r.todo # <<>> /\ r \in HandlerRecord /\ InHand(r) /\ UNCHANGED origin
  BY ZenonT(30) DEF LookupStates, HandlerTypes, InHand, Busy
<1>2. r.new \in Seq(Events) /\ r.new # <<>> /\ e \in Events
  BY ZenonT(30), <1>1, OldestIs
<1>3. prev \in SUBSET Events
  BY <1>2, InboundAssumption
<1>4. CASE Fails(h)
  BY ZenonT(30), <1>1, <1>4, FailsEffect
<1>5. ASSUME NEW lost \in SUBSET Fetched(prev),
             IF lost = {} THEN UNCHANGED faults ELSE Fault,
             handler' = [handler EXCEPT ![h].pc = "extremity", ![h].hole = (lost # {}),
                     ![h].state = ResolveConflicts({LookupStateAfterEvent(p, lost) : p \in prev})],
             UNCHANGED <<room, history>>
      PROVE  Effect(h)
  <2> DEFINE S == {LookupStateAfterEvent(p, lost) : p \in prev}
             state == ResolveConflicts(S)
             hole == (lost # {})
             r2 == [r EXCEPT !.pc = "extremity", !.hole = hole, !.state = state]
  <2>1. S \in SUBSET States
    BY <1>3, LookupIsState
  <2>2. Snapshot(state) /\ state \in States
    <3> HIDE DEF S
    <3> QED BY <2>1, ResolveIsSnapshot DEF Snapshot
  <2>3. ~hole /\ Ancestors[e] \cap holes' = {} => state = TrueBefore[e]
    <3> SUFFICES ASSUME ~hole, Ancestors[e] \cap holes' = {} PROVE state = TrueBefore[e]
      OBVIOUS
    <3>1. ASSUME NEW p \in prev PROVE LookupStateAfterEvent(p, lost) = StateAfter(TrueBefore[p], p)
      <4>1. p \in Events /\ lost = {} /\ holes' = holes
        BY ZenonT(30), <1>3, <1>5 DEF history
      <4>2. Ancestors[p] \cap holes = {}
        BY <1>2, <4>1, AncestorsGrow
      <4> QED BY ZenonT(30), <4>1, <4>2, LookupIsRight
    <3>2. S = {StateAfter(TrueBefore[p], p) : p \in prev}
      BY <3>1
    <3> QED BY ZenonT(30), <1>2, <3>2, StateAssumption
  <2>4. hole \in BOOLEAN
    OBVIOUS
  <2>5. handler' = [handler EXCEPT ![h] = r2] /\ handler'[h] = r2
    BY ZenonT(30), <1>5 DEF HandlerTypes
  <2> HIDE DEF S, state, hole, e
  <2>6. r2 \in HandlerRecord /\ r2.pc = "extremity" /\ r2.origin = r.origin /\ r2.txn = r.txn
        /\ r2.todo = r.todo /\ r2.new = r.new /\ r2.state = state /\ r2.hole = hole
    BY ZenonT(30), <1>1, <2>2, <2>4 DEF HandlerRecord, Busy
  <2> HIDE DEF r2
  <2>7. InHand(r2)
    BY <1>1, <1>2, <2>2, <2>6 DEF InHand
  <2>8. KnowsState(r2, holes')
    BY ZenonT(30), <2>3, <2>6 DEF KnowsState, e
  <2>9. Continues(h)
    BY ZenonT(30), <1>1, <1>5, <2>5, <2>6, <2>7, <2>8 DEF Continues, history
  <2>10. RoomEffect
    BY ZenonT(30), <1>5, RoomStays DEF history
  <2>11. faults' \in 0..MaxFaults
    BY ZenonT(30), <1>5, FaultCounts
  <2> QED BY ZenonT(30), <1>1, <1>5, <2>9, <2>10, <2>11 DEF Effect, origin, history
<1> QED BY ZenonT(30), <1>4, <1>5 DEF LookupStates

\* The oldest event gets the state that was looked up; with a hole it is noted as one.
LEMMA ExtremityEffect ==
    ASSUME RoomTypes, HandlerTypes, faults \in 0..MaxFaults, NEW h \in Handlers,
           KnowsState(handler[h], holes), SendExtremity(h)
    PROVE  Effect(h)
<1> DEFINE r == handler[h]
           e == Head(r.new)
           state == r.state
<1>1. r.pc = "extremity" /\ r.pc # "idle" /\ r.todo # <<>> /\ r \in HandlerRecord /\ InHand(r) /\ UNCHANGED origin
  BY ZenonT(30) DEF SendExtremity, HandlerTypes, InHand, Busy
<1>2. r.new \in Seq(Events) /\ r.new # <<>> /\ e \in Events
  BY ZenonT(30), <1>1, OldestIs
<1>3. Event(h) \in Events /\ Event(h) = Head(r.todo)
  BY ZenonT(30), <1>1, EventIs DEF Event
<1>4. Snapshot(state) /\ state \in States /\ state \subseteq Events
  BY <1>1 DEF InHand, Snapshot, States
<1>5. CASE Fails(h)
  BY ZenonT(30), <1>1, <1>5, FailsEffect
<1>6. CASE /\ Fault /\ Skip(h)
           /\ \E x \in state \ stored : stored' = stored \cup (state \ {x}) \cup {e}
           /\ UNCHANGED <<before, latest, sent>>
  <2>1. Finishes(h) /\ UNCHANGED <<applied, holes>>
    BY ZenonT(30), <1>1, <1>6, SkipFinishes
  <2>2. Supplied(NoState) /\ Stores(e, NoState)
    <3> HIDE DEF e, state
    <3> QED BY SMTT(30), <1>2, <1>4, <1>6 DEF Supplied, Stores, RoomTypes
  <2>3. RoomEffect
    BY <1>2, <2>1, <2>2 DEF RoomEffect
  <2>4. faults' \in 0..MaxFaults
    BY ZenonT(30), <1>6, FaultCounts
  <2> QED BY ZenonT(30), <1>1, <2>1, <2>3, <2>4 DEF Effect, origin
<1>7. CASE /\ InputOld(e, state, state)
           /\ holes' = IF r.hole /\ ~HasState(e) THEN holes \cup {e} ELSE holes
           /\ handler' = [handler EXCEPT ![h].pc = "rest", ![h].new = Append(Tail(@), Event(h))]
           /\ UNCHANGED <<accepted, failed, applied, faults>>
  <2> DEFINE new == Append(Tail(r.new), Event(h))
             r2 == [r EXCEPT !.pc = "rest", !.new = new]
  <2>1. new \in Seq(Events) /\ new # <<>> /\ new[Len(new)] = Event(h)
    BY ZenonT(30), <1>2, <1>3, EventIsLast
  <2>2. handler' = [handler EXCEPT ![h] = r2] /\ handler'[h] = r2
    BY ZenonT(30), <1>7 DEF HandlerTypes
  <2> HIDE DEF new
  <2>3. r2 \in HandlerRecord /\ r2.pc = "rest" /\ r2.origin = r.origin /\ r2.txn = r.txn
        /\ r2.todo = r.todo /\ r2.new = new
    BY ZenonT(30), <1>1, <2>1 DEF HandlerRecord, Busy
  <2> HIDE DEF r2
  <2>4. InHand(r2) /\ KnowsState(r2, holes')
    BY <1>1, <1>3, <2>1, <2>3 DEF InHand, KnowsState
  <2>5. Continues(h)
    BY ZenonT(30), <1>1, <1>7, <2>2, <2>3, <2>4 DEF Continues
  <2>6. Supplied(state) /\ Stores(e, state)
    <3> HIDE DEF e, state
    <3> QED BY <1>2, <1>4, <1>7 DEF Supplied, Stores, RoomTypes, InputOld
  <2>7. holes \subseteq holes'
    BY <1>7
  <2>8. ASSUME ~HasState(e), Ancestors[e] \cap holes' = {} PROVE state = TrueBefore[e]
    <3>1. e \in Ancestors[e]
      BY <1>2, AncestorsGrow
    <3>2. ~r.hole /\ holes' = holes
      BY <1>7, <2>8, <3>1
    <3> QED BY ZenonT(30), <1>1, <2>8, <3>2 DEF KnowsState
  <2>9. RoomEffect
    BY ZenonT(30), <1>2, <1>4, <2>6, <2>7, <2>8 DEF RoomEffect
  <2> QED BY ZenonT(30), <1>1, <1>7, <2>5, <2>9 DEF Effect, origin
<1> QED BY ZenonT(30), <1>5, <1>6, <1>7 DEF SendExtremity

\* After each of the events that are sent together there is a next one, or a result.
LEMMA FinishRestEffect ==
    ASSUME HandlerTypes, NEW h \in Handlers, handler[h].pc = "rest", NEW err \in BOOLEAN,
           FinishRest(h, err),
           Head(handler[h].new) \in stored' \/ err
    PROVE  (Continues(h) \/ Finishes(h)) /\ UNCHANGED <<applied, holes>>
<1> DEFINE r == handler[h]
<1>1. r.pc # "idle" /\ r.todo # <<>> /\ r \in HandlerRecord /\ InHand(r)
  BY ZenonT(30) DEF HandlerTypes, InHand, Busy
<1>2. r.new \in Seq(Events) /\ r.new # <<>>
  BY ZenonT(30), OldestIs, <1>1
<1>3. r.new[Len(r.new)] = Event(h)
  BY ZenonT(30), <1>1 DEF InHand, Event
<1>4. CASE Len(r.new) > 1
  <2> DEFINE new == Tail(r.new)
             r2 == [r EXCEPT !.new = new, !.err = err]
  <2>1. new \in Seq(Events) /\ new # <<>> /\ new[Len(new)] = Event(h)
    BY ZenonT(30), <1>2, <1>3, <1>4, TailKeepsLast
  <2>2. handler' = [handler EXCEPT ![h] = r2] /\ handler'[h] = r2
    BY ZenonT(30), <1>4 DEF HandlerTypes, FinishRest
  <2> HIDE DEF new
  <2>3. r2 \in HandlerRecord /\ r2.pc = "rest" /\ r2.origin = r.origin /\ r2.txn = r.txn
        /\ r2.todo = r.todo /\ r2.new = new
    BY ZenonT(30), <1>1, <2>1 DEF HandlerRecord, Busy
  <2> HIDE DEF r2
  <2>4. InHand(r2) /\ KnowsState(r2, holes')
    BY <1>1, <2>1, <2>3 DEF InHand, KnowsState, Event
  <2>5. UNCHANGED <<accepted, failed, applied, holes>>
    BY ZenonT(30), <1>4 DEF FinishRest
  <2> QED BY ZenonT(30), <1>1, <2>2, <2>3, <2>4, <2>5 DEF Continues
<1>5. CASE ~(Len(r.new) > 1) /\ err
  <2>1. Skip(h)
    BY ZenonT(30), <1>5 DEF FinishRest
  <2> QED BY ZenonT(30), <1>1, <2>1, SkipFinishes
<1>6. CASE ~(Len(r.new) > 1) /\ ~err
  <2>1. Accept(h) /\ UNCHANGED <<failed, applied, holes>>
    BY ZenonT(30), <1>6 DEF FinishRest
  <2>2. Head(r.new) = Event(h)
    BY ZenonT(30), <1>2, <1>3, <1>6, TailKeepsLast
  <2>3. Event(h) \in stored'
    BY ZenonT(30), <1>6, <2>2
  <2>4. Finishes(h)
    BY <1>1, <2>1, <2>3 DEF Finishes, Accept
  <2> QED BY ZenonT(30), <2>1, <2>4
<1> QED BY ZenonT(30), <1>4, <1>5, <1>6

\* The events of the gap get the states that follow from the ones before.
LEMMA RestEffect ==
    ASSUME RoomTypes, HandlerTypes, faults \in 0..MaxFaults, NEW h \in Handlers, SendRest(h)
    PROVE  Effect(h)
<1> DEFINE r == handler[h]
           e == Head(r.new)
<1>1. r.pc = "rest" /\ r \in HandlerRecord /\ InHand(r) /\ UNCHANGED origin
  BY ZenonT(30) DEF SendRest, HandlerTypes, InHand, Busy
<1>2. e \in Events /\ r.err \in BOOLEAN
  <2>1. e \in Events
    BY ZenonT(30), <1>1, OldestIs
  <2>2. r.err \in BOOLEAN
    BY ZenonT(30), <1>1 DEF HandlerRecord
  <2> QED BY <2>1, <2>2
<1>3. CASE InputOld(e, {}, NoState) /\ FinishRest(h, r.err) /\ UNCHANGED faults
  <2>1. e \in stored'
    BY <1>3 DEF InputOld
  <2>2. (Continues(h) \/ Finishes(h)) /\ UNCHANGED <<applied, holes>>
    BY ZenonT(30), <1>1, <1>2, <1>3, <2>1, FinishRestEffect
  <2>3. Supplied(NoState) /\ Stores(e, NoState)
    BY <1>2, <1>3 DEF Supplied, Stores, RoomTypes, InputOld
  <2>4. RoomEffect
    BY <1>2, <2>2, <2>3 DEF RoomEffect
  <2> QED BY ZenonT(30), <1>1, <1>3, <2>2, <2>4 DEF Effect, origin
<1>4. CASE Fault /\ InputFails(e) /\ FinishRest(h, TRUE)
  <2>1. (Continues(h) \/ Finishes(h)) /\ UNCHANGED <<applied, holes>>
    BY ZenonT(30), <1>1, <1>4, FinishRestEffect
  <2>2. RoomEffect
    BY ZenonT(30), <1>2, <1>4, <2>1, InputFailsEffect
  <2>3. faults' \in 0..MaxFaults
    BY ZenonT(30), <1>4, FaultCounts
  <2> QED BY ZenonT(30), <1>1, <2>1, <2>2, <2>3 DEF Effect, origin
<1> QED BY ZenonT(30), <1>3, <1>4 DEF SendRest

-----------------------------------------------------------------------------
(* Origins and their transactions.                                           *)

\* What is left of a transaction, when the PDUs before it are done.
Remains(t, todo, done) ==
    \E n \in 0..Len(t) : /\ Len(todo) = Len(t) - n
                         /\ \A k \in 1..Len(todo) : todo[k] = t[n + k]
                         /\ \A k \in 1..n : t[k] \in done

\* At first all of it is left ...
LEMMA AllRemains ==
    ASSUME NEW t \in Seq(Events), NEW done
    PROVE  Remains(t, t, done)
<1>1. 0 \in 0..Len(t) /\ Len(t) = Len(t) - 0
  BY SMTT(30)
<1>2. \A k \in 1..Len(t) : t[k] = t[0 + k]
  BY SMTT(30)
<1>3. \A k \in 1..0 : t[k] \in done
  BY SMTT(30)
<1> QED BY ZenonT(30), <1>1, <1>2, <1>3 DEF Remains

\* ... then all but what is done ...
LEMMA TailRemains ==
    ASSUME NEW t \in Seq(Events), NEW todo \in Seq(Events), NEW done, NEW done2,
           Remains(t, todo, done), todo # <<>>, done \subseteq done2, Head(todo) \in done2
    PROVE  Remains(t, Tail(todo), done2)
<1>1. PICK n \in 0..Len(t) : /\ Len(todo) = Len(t) - n
                             /\ \A k \in 1..Len(todo) : todo[k] = t[n + k]
                             /\ \A k \in 1..n : t[k] \in done
  BY ZenonT(30) DEF Remains
<1>2. Len(t) \in Nat /\ Len(todo) \in Nat /\ Len(todo) # 0 /\ Head(todo) = todo[1]
  BY SMTT(30)
<1>3. Len(Tail(todo)) = Len(todo) - 1
  BY SMTT(30)
<1>4. \A k \in 1..(Len(todo) - 1) : Tail(todo)[k] = todo[k + 1]
  BY SMTT(30)
<1> DEFINE a == Len(t)
           b == Len(todo)
<1>5. n \in 0..a /\ b = a - n /\ a \in Nat /\ b \in Nat /\ b # 0
  BY ZenonT(30), <1>1, <1>2
<1>6. /\ n + 1 \in 0..a /\ b - 1 = a - (n + 1)
      /\ \A k \in 1..(b - 1) : k + 1 \in 1..b /\ n + (k + 1) = (n + 1) + k
      /\ \A k \in 1..(n + 1) : k = n + 1 \/ k \in 1..n
      /\ 1 \in 1..b
  <2> HIDE DEF a, b
  <2> QED BY SMTT(30), <1>5
<1>7. \A k \in 1..Len(Tail(todo)) : Tail(todo)[k] = t[(n + 1) + k]
  <2> SUFFICES ASSUME NEW k \in 1..(b - 1) PROVE Tail(todo)[k] = t[(n + 1) + k]
    BY ZenonT(30), <1>3
  <2>1. Tail(todo)[k] = todo[k + 1]
    BY ZenonT(30), <1>4
  <2>2. todo[k + 1] = t[n + (k + 1)]
    BY ZenonT(30), <1>1, <1>6
  <2> QED BY ZenonT(30), <2>1, <2>2, <1>6
<1>8. t[n + 1] \in done2
  BY ZenonT(30), <1>1, <1>2, <1>6
<1>9. \A k \in 1..(n + 1) : t[k] \in done2
  BY ZenonT(30), <1>1, <1>6, <1>8
<1> QED BY ZenonT(30), <1>3, <1>6, <1>7, <1>9 DEF Remains

\* ... and more is done as time goes by ...
LEMMA MoreIsDone ==
    ASSUME NEW t, NEW todo, NEW done, NEW done2, Remains(t, todo, done), done \subseteq done2
    PROVE  Remains(t, todo, done2)
BY ZenonT(30) DEF Remains

\* ... until nothing is left.
LEMMA NothingRemains ==
    ASSUME NEW t \in Seq(Events), NEW done, Remains(t, <<>>, done)
    PROVE  \A k \in DOMAIN t : t[k] \in done
<1>1. PICK n \in 0..Len(t) : Len(<<>>) = Len(t) - n /\ \A k \in 1..n : t[k] \in done
  BY ZenonT(30) DEF Remains
<1>2. Len(<<>>) = 0 /\ Len(t) \in Nat /\ DOMAIN t = 1..Len(t)
  BY SMTT(30)
<1> DEFINE a == Len(t)
<1>3. n \in 0..a /\ 0 = a - n /\ a \in Nat
  BY ZenonT(30), <1>1, <1>2
<1>4. n = a
  <2> HIDE DEF a
  <2> QED BY SMTT(30), <1>3
<1> QED BY ZenonT(30), <1>1, <1>2, <1>4

\* A request is for a transaction of its origin, and the PDUs that it has gone
\* through have a result.
InProgress(r, done) ==
    r.pc # "idle" =>
       /\ r.origin \in Origins /\ r.txn \in 1..Len(Transactions[r.origin])
       /\ Remains(Transactions[r.origin][r.txn], r.todo, done)

OriginTypes ==
    /\ next \in [Origins -> Nat] /\ waiting \in [Origins -> Handlers \cup {None}]
    /\ \A o \in Origins : next[o] \in 1..(Len(Transactions[o]) + 1)

\* An origin waits for the request with its current transaction.
WaitsForCurrent ==
    \A o \in Origins : waiting[o] # None =>
       LET r == handler[waiting[o]] IN r.pc # "idle" /\ r.origin = o /\ r.txn = next[o]

RoomInv ==
    /\ RoomTypes /\ StateIsRight
    /\ HandlerTypes /\ \A h \in Handlers : KnowsState(handler[h], holes)
    /\ faults \in 0..MaxFaults

TransactionInv ==
    /\ OriginTypes /\ WaitsForCurrent /\ AnsweredIsDone
    /\ \A h \in Handlers : InProgress(handler[h], accepted \cup failed)

-----------------------------------------------------------------------------
(* What each step keeps.                                                     *)

\* A handler without a request.
LEMMA IdleIs == InHand(IdleHandler) /\ IdleHandler.pc = "idle" /\ \A missing : KnowsState(IdleHandler, missing)
<1>1. {} \in States /\ {} \in SUBSET Events /\ <<>> \in Seq(Events) /\ 0 \in Nat
  BY SMTT(30) DEF States
<1>2. IdleHandler \in HandlerRecord
  BY SMTT(30), <1>1 DEF HandlerRecord, IdleHandler
<1>3. IdleHandler.pc = "idle"
  BY SMTT(30) DEF IdleHandler
<1> QED BY SMTT(30), <1>2, <1>3 DEF InHand, KnowsState, Busy

\* The record of a handler that takes up an event.
Taken(o, i, todo) == [IdleHandler EXCEPT !.pc = "event", !.origin = o, !.txn = i, !.todo = todo]

\* It has an event in hand and nothing else yet.
LEMMA TakenIs ==
    ASSUME NEW o \in Origins \cup {None}, NEW i \in Nat, NEW todo \in Seq(Events),
           NEW r, r = Taken(o, i, todo)
    PROVE  /\ InHand(r) /\ r.pc = "event" /\ r.origin = o /\ r.txn = i /\ r.todo = todo
           /\ \A missing : KnowsState(r, missing)
<1>2. IdleHandler \in HandlerRecord
  BY ZenonT(30), IdleIs DEF InHand
<1>3. r \in HandlerRecord /\ r.pc = "event" /\ r.origin = o /\ r.txn = i /\ r.todo = todo
  BY ZenonT(30), <1>2 DEF HandlerRecord, Taken
<1>5. InHand(r)
  BY SMTT(30), <1>3 DEF InHand, Busy
<1>6. \A missing : KnowsState(r, missing)
  BY SMTT(30), <1>3 DEF KnowsState
<1> QED BY ZenonT(30), <1>3, <1>5, <1>6

\* A handler that is done with its event.
LEMMA NextEventIs ==
    ASSUME HandlerTypes, NEW h \in Handlers, NextEvent(h), handler[h].todo # <<>>
    PROVE  /\ handler' = [handler EXCEPT ![h] = handler'[h]]
           /\ InHand(handler'[h]) /\ handler'[h].pc = "event"
           /\ handler'[h].origin = handler[h].origin /\ handler'[h].txn = handler[h].txn
           /\ handler'[h].todo = Tail(handler[h].todo)
           /\ \A missing : KnowsState(handler'[h], missing)
<1> DEFINE r == handler[h]
<1>1. r.origin \in Origins \cup {None} /\ r.txn \in Nat /\ r.todo \in Seq(Events)
  BY ZenonT(30) DEF HandlerTypes, InHand, HandlerRecord
<1>2. Tail(r.todo) \in Seq(Events)
  BY SMTT(30), <1>1
<1>3. handler' = [handler EXCEPT ![h] = Taken(r.origin, r.txn, Tail(r.todo))]
  BY ZenonT(30) DEF NextEvent, Taken
<1>4. handler'[h] = Taken(r.origin, r.txn, Tail(r.todo))
  BY ZenonT(30), <1>3 DEF HandlerTypes
<1> DEFINE r2 == handler'[h]
           o == r.origin
           i == r.txn
           todo == Tail(r.todo)
<1>5. o \in Origins \cup {None} /\ i \in Nat /\ todo \in Seq(Events) /\ r2 = Taken(o, i, todo)
  BY ZenonT(30), <1>1, <1>2, <1>4
<1>6. /\ InHand(r2) /\ r2.pc = "event" /\ r2.origin = o /\ r2.txn = i /\ r2.todo = todo
      /\ \A missing : KnowsState(r2, missing)
  <2> HIDE DEF r2, o, i, todo
  <2> QED BY SMTT(30), <1>5, TakenIs
<1>7. handler' = [handler EXCEPT ![h] = handler'[h]]
  BY ZenonT(30), <1>3, <1>4
<1> QED BY ZenonT(30), <1>6, <1>7

\* A step changes one handler.
LEMMA OneHandlerKeeps ==
    ASSUME RoomInv, NEW h \in Handlers, handler' = [handler EXCEPT ![h] = handler'[h]],
           InHand(handler'[h]), KnowsState(handler'[h], holes'), holes \subseteq holes'
    PROVE  HandlerTypes' /\ \A x \in Handlers : KnowsState(handler'[x], holes')
<1>1. \A x \in Handlers : x # h => handler'[x] = handler[x]
  BY ZenonT(30) DEF RoomInv, HandlerTypes
<1>2. DOMAIN handler' = Handlers
  BY ZenonT(30) DEF RoomInv, HandlerTypes
<1>3. \A x \in Handlers : InHand(handler[x])
  BY ZenonT(30) DEF RoomInv, HandlerTypes
<1>4. \A x \in Handlers : InHand(handler'[x])
  BY ZenonT(30), <1>1, <1>3
<1>5. \A x \in Handlers : KnowsState(handler[x], holes')
  BY DEF RoomInv, KnowsState
<1>6. \A x \in Handlers : KnowsState(handler'[x], holes')
  BY ZenonT(30), <1>1, <1>5
<1> QED BY ZenonT(30), <1>2, <1>4, <1>6 DEF HandlerTypes

\* What is kept whatever a handler does with its event.
LEMMA EffectKeepsRoom ==
    ASSUME RoomInv, NEW h \in Handlers, Effect(h)
    PROVE  RoomInv'
<1>1. holes \subseteq holes'
  BY ZenonT(30) DEF Effect, RoomEffect
<1>2. PICK e \in Events : \E supplied \in States \cup {NoState} :
         /\ Supplied(supplied) /\ Stores(e, supplied)
         /\ supplied # NoState /\ ~HasState(e) /\ Ancestors[e] \cap holes' = {} =>
               supplied = TrueBefore[e]
  BY ZenonT(30) DEF Effect, RoomEffect
<1>3. PICK supplied \in States \cup {NoState} :
         /\ Supplied(supplied) /\ Stores(e, supplied)
         /\ supplied # NoState /\ ~HasState(e) /\ Ancestors[e] \cap holes' = {} =>
               supplied = TrueBefore[e]
  BY ZenonT(30), <1>2
<1>4. RoomTypes'
  BY ZenonT(30), <1>3, RoomKeeps DEF RoomInv
<1>5. StateIsRight'
  BY ZenonT(30), <1>1, <1>3, RightKeeps DEF RoomInv
<1>6. /\ handler' = [handler EXCEPT ![h] = handler'[h]]
      /\ InHand(handler'[h]) /\ KnowsState(handler'[h], holes')
  <2>1. CASE Continues(h)
    BY ZenonT(30), <2>1 DEF Continues
  <2>2. CASE Finishes(h)
    BY ZenonT(30), <2>2, NextEventIs DEF Finishes, RoomInv
  <2> QED BY ZenonT(30), <2>1, <2>2 DEF Effect
<1>7. HandlerTypes' /\ \A x \in Handlers : KnowsState(handler'[x], holes')
  BY ZenonT(30), <1>1, <1>6, OneHandlerKeeps
<1> QED BY ZenonT(30), <1>4, <1>5, <1>7 DEF RoomInv, Effect

\* Any transaction is a sequence of events.
LEMMA TransactionIs ==
    ASSUME NEW o \in Origins, NEW i \in 1..Len(Transactions[o])
    PROVE  Transactions[o][i] \in Seq(Events)
<1>1. Transactions[o] \in Seq(Seq(Events))
  BY ZenonT(30), InboundAssumption
<1> QED BY SMTT(30), <1>1

\* Origins and results, whatever a handler does with its event.
LEMMA EffectKeepsTransactions ==
    ASSUME RoomInv, TransactionInv, NEW h \in Handlers, Effect(h)
    PROVE  TransactionInv'
<1> DEFINE done == accepted \cup failed
           r == handler[h]
           r2 == handler'[h]
<1>1. UNCHANGED <<next, waiting, applied>> /\ stored \subseteq stored'
  BY ZenonT(30) DEF Effect, RoomEffect, Stores
<1>2. /\ handler' = [handler EXCEPT ![h] = r2]
      /\ r.pc # "idle" /\ r2.pc # "idle" /\ r2.origin = r.origin /\ r2.txn = r.txn
      /\ accepted \subseteq accepted' /\ failed \subseteq failed'
      /\ accepted' \subseteq accepted \cup stored'
      /\ \/ r2.todo = r.todo
         \/ r.todo # <<>> /\ r2.todo = Tail(r.todo) /\ Head(r.todo) \in done'
  <2>1. CASE Continues(h)
    BY SMTT(30), <2>1 DEF Continues
  <2>2. CASE Finishes(h)
    <3>1. /\ handler' = [handler EXCEPT ![h] = r2] /\ r2.pc = "event"
          /\ r2.origin = r.origin /\ r2.txn = r.txn /\ r2.todo = Tail(r.todo)
      BY ZenonT(30), <2>2, NextEventIs DEF Finishes, RoomInv
    <3> HIDE DEF r2
    <3> QED BY SMTT(30), <2>2, <3>1 DEF Finishes, Event
  <2> QED BY ZenonT(30), <2>1, <2>2 DEF Effect
<1>3. done \subseteq done' /\ \A x \in Handlers : x # h => handler'[x] = handler[x]
  BY <1>2 DEF RoomInv, HandlerTypes
<1>4. ASSUME NEW x \in Handlers PROVE InProgress(handler'[x], done')
  <2>1. InProgress(handler[x], done)
    BY ZenonT(30) DEF TransactionInv
  <2>2. CASE x # h
    <3>1. handler'[x] = handler[x]
      BY ZenonT(30), <1>3, <2>2
    <3> HIDE DEF done
    <3> QED BY ZenonT(30), <1>3, <2>1, <3>1, MoreIsDone DEF InProgress
  <2>3. CASE x = h
    <3> DEFINE t == Transactions[r.origin][r.txn]
    <3>1. r.origin \in Origins /\ r.txn \in 1..Len(Transactions[r.origin]) /\ Remains(t, r.todo, done)
      BY ZenonT(30), <1>2, <2>1, <2>3 DEF InProgress
    <3>2. t \in Seq(Events) /\ r.todo \in Seq(Events)
      <4>1. t \in Seq(Events)
        BY ZenonT(30), <3>1, TransactionIs
      <4>2. r.todo \in Seq(Events)
        BY ZenonT(30) DEF RoomInv, HandlerTypes, InHand, HandlerRecord
      <4> QED BY ZenonT(30), <4>1, <4>2
    <3>3. Remains(t, r2.todo, done')
      <4> HIDE DEF t, r, r2, done
      <4>1. CASE r2.todo = r.todo
        BY ZenonT(30), <1>3, <3>1, <4>1, MoreIsDone
      <4>2. CASE r.todo # <<>> /\ r2.todo = Tail(r.todo) /\ Head(r.todo) \in done'
        BY ZenonT(30), <1>3, <3>1, <3>2, <4>2, TailRemains
      <4> QED BY ZenonT(30), <1>2, <4>1, <4>2
    <3> QED BY ZenonT(30), <1>2, <2>3, <3>1, <3>3 DEF InProgress
  <2> QED BY ZenonT(30), <2>2, <2>3
<1>5. WaitsForCurrent'
  <2> SUFFICES ASSUME NEW o \in Origins, waiting[o] # None
               PROVE  LET y == handler'[waiting[o]] IN y.pc # "idle" /\ y.origin = o /\ y.txn = next[o]
    BY ZenonT(30), <1>1 DEF WaitsForCurrent
  <2>1. LET y == handler[waiting[o]] IN y.pc # "idle" /\ y.origin = o /\ y.txn = next[o]
    BY ZenonT(30) DEF TransactionInv, WaitsForCurrent
  <2>2. waiting[o] \in Handlers
    BY ZenonT(30) DEF TransactionInv, OriginTypes
  <2>3. CASE waiting[o] = h
    BY ZenonT(30), <1>2, <2>1, <2>3
  <2>4. CASE waiting[o] # h
    BY ZenonT(30), <1>3, <2>1, <2>2, <2>4
  <2> QED BY ZenonT(30), <2>3, <2>4
<1>6. AnsweredIsDone'
  <2>1. accepted' \subseteq stored'
    BY <1>1, <1>2 DEF TransactionInv, AnsweredIsDone
  <2>2. ASSUME NEW o \in Origins, NEW i \in 1..(next'[o] - 1)
        PROVE  /\ \A k \in DOMAIN Transactions[o][i] : Transactions[o][i][k] \in done'
               /\ <<o, i>> \in applied'
    <3>1. next' = next /\ applied' = applied
      BY ZenonT(30), <1>1
    <3>2. /\ \A k \in DOMAIN Transactions[o][i] : Transactions[o][i][k] \in done
          /\ <<o, i>> \in applied
      BY ZenonT(30), <2>2, <3>1 DEF TransactionInv, AnsweredIsDone
    <3> QED BY ZenonT(30), <1>3, <3>1, <3>2
  <2> QED BY ZenonT(30), <2>1, <2>2 DEF AnsweredIsDone
<1>7. OriginTypes'
  BY ZenonT(30), <1>1 DEF TransactionInv, OriginTypes
<1> QED BY ZenonT(30), <1>4, <1>5, <1>6, <1>7 DEF TransactionInv

\* A step that leaves the roomserver and the results alone keeps what was said
\* about every other handler.
LEMMA RoomStaysInv ==
    ASSUME RoomInv, NEW h \in Handlers, UNCHANGED room, holes' = holes, faults' \in 0..MaxFaults,
           handler' = [handler EXCEPT ![h] = handler'[h]], InHand(handler'[h]),
           KnowsState(handler'[h], holes)
    PROVE  RoomInv'
<1>1. RoomTypes'
  BY SMTT(30) DEF RoomInv, RoomTypes, HasState, room, Snapshot
<1>2. StateIsRight'
  BY ZenonT(30) DEF RoomInv, StateIsRight, HasState, room
<1>3. HandlerTypes' /\ \A x \in Handlers : KnowsState(handler'[x], holes')
  BY ZenonT(30), OneHandlerKeeps
<1> QED BY ZenonT(30), <1>1, <1>2, <1>3 DEF RoomInv

\* The next transaction of an origin, if there is one.
LEMMA NextIs ==
    ASSUME OriginTypes, NEW o \in Origins, next[o] <= Len(Transactions[o])
    PROVE  next[o] \in Nat /\ next[o] \in 1..Len(Transactions[o])
<1>1. Len(Transactions[o]) \in Nat
  <2>1. Transactions[o] \in Seq(Seq(Events))
    BY ZenonT(30), InboundAssumption
  <2> QED BY SMTT(30), <2>1
<1>2. next[o] \in Nat /\ next[o] \in 1..(Len(Transactions[o]) + 1)
  BY ZenonT(30) DEF OriginTypes
<1> DEFINE a == Len(Transactions[o])
           n == next[o]
<1>3. n <= a /\ a \in Nat /\ n \in Nat /\ n \in 1..(a + 1)
  BY ZenonT(30), <1>1, <1>2
<1>4. n \in 1..a
  <2> HIDE DEF a, n
  <2> QED BY SMTT(30), <1>3
<1> QED BY ZenonT(30), <1>2, <1>4

\* A new request has all of its transaction to do.
LEMMA SendKeeps ==
    ASSUME RoomInv, TransactionInv, NEW o \in Origins, NEW h \in Handlers, Send(o, h)
    PROVE  RoomInv' /\ TransactionInv'
<1> DEFINE i == next[o]
           t == Transactions[o][i]
           done == accepted \cup failed
           r2 == handler'[h]
<1>1. i \in Nat /\ i \in 1..Len(Transactions[o])
  BY ZenonT(30), NextIs DEF Send, TransactionInv
<1>2. t \in Seq(Events)
  BY ZenonT(30), <1>1, TransactionIs
<1>3. handler' = [handler EXCEPT ![h] = Taken(o, i, t)] /\ r2 = Taken(o, i, t)
  BY ZenonT(30) DEF Send, Taken, RoomInv, HandlerTypes
<1>4. /\ InHand(r2) /\ r2.pc = "event" /\ r2.origin = o /\ r2.txn = i /\ r2.todo = t
      /\ \A missing : KnowsState(r2, missing)
  <2>1. r2 = Taken(o, i, t)
    BY ZenonT(30), <1>3
  <2> HIDE DEF r2, t, i
  <2> QED BY SMTT(30), <1>1, <1>2, <2>1, TakenIs
<1>5. handler' = [handler EXCEPT ![h] = r2] /\ handler[h].pc = "idle"
  <2>1. IdleHandler.pc = "idle"
    BY ZenonT(30), IdleIs
  <2>2. handler[h] = IdleHandler
    BY ZenonT(30) DEF Send
  <2> QED BY ZenonT(30), <1>3, <2>1, <2>2
<1>6. UNCHANGED room /\ next' = next /\ UNCHANGED <<accepted, failed, applied, holes, faults>>
      /\ waiting' = [waiting EXCEPT ![o] = h]
  BY ZenonT(30) DEF Send, history
<1> HIDE DEF r2
<1>7. RoomInv'
  BY ZenonT(30), <1>4, <1>5, <1>6, RoomStaysInv DEF RoomInv, r2
<1>8. \A x \in Handlers : x # h => handler'[x] = handler[x]
  BY ZenonT(30), <1>5 DEF RoomInv, HandlerTypes
<1>9. \A x \in Handlers : InProgress(handler'[x], done')
  <2>1. \A x \in Handlers : x # h => InProgress(handler'[x], done')
    BY ZenonT(30), <1>6, <1>8 DEF TransactionInv
  <2>2. Remains(t, t, done')
    BY ZenonT(30), <1>2, AllRemains
  <2>3. InProgress(r2, done')
    BY ZenonT(30), <1>1, <1>4, <2>2 DEF InProgress
  <2> QED BY ZenonT(30), <2>1, <2>3 DEF r2
<1>10. OriginTypes'
  BY ZenonT(30), <1>6 DEF TransactionInv, OriginTypes
<1>11. WaitsForCurrent'
  <2> SUFFICES ASSUME NEW p \in Origins, waiting'[p] # None
               PROVE  LET y == handler'[waiting'[p]] IN y.pc # "idle" /\ y.origin = p /\ y.txn = next[p]
    BY ZenonT(30), <1>6 DEF WaitsForCurrent
  <2>1. CASE p = o
    <3>1. waiting'[p] = h
      BY ZenonT(30), <1>6, <2>1 DEF TransactionInv, OriginTypes
    <3> QED BY ZenonT(30), <1>4, <2>1, <3>1 DEF r2
  <2>2. CASE p # o
    <3>1. waiting'[p] = waiting[p] /\ waiting[p] \in Handlers
      BY ZenonT(30), <1>6, <2>2 DEF TransactionInv, OriginTypes
    <3>2. LET y == handler[waiting[p]] IN y.pc # "idle" /\ y.origin = p /\ y.txn = next[p]
      BY ZenonT(30), <3>1 DEF TransactionInv, WaitsForCurrent
    <3>3. waiting[p] # h
      BY ZenonT(30), <1>5, <3>2
    <3> QED BY ZenonT(30), <1>8, <3>1, <3>2, <3>3
  <2> QED BY ZenonT(30), <2>1, <2>2
<1>12. AnsweredIsDone'
  BY ZenonT(30), <1>6 DEF TransactionInv, AnsweredIsDone, room
<1> QED BY ZenonT(30), <1>7, <1>9, <1>10, <1>11, <1>12 DEF TransactionInv

\* An origin that stops waiting changes nothing but that.
LEMMA GiveUpKeeps ==
    ASSUME RoomInv, TransactionInv, NEW o \in Origins, GiveUp(o)
    PROVE  RoomInv' /\ TransactionInv'
<1>1. /\ UNCHANGED <<stored, before, latest, sent, next, handler, accepted, failed, applied, holes>>
      /\ waiting' = [waiting EXCEPT ![o] = None]
  BY ZenonT(30) DEF GiveUp, room, history
<1>2. faults' \in 0..MaxFaults
  BY ZenonT(30), FaultCounts DEF GiveUp, RoomInv
<1>3. RoomTypes' /\ StateIsRight' /\ HandlerTypes'
  BY SMTT(30), <1>1 DEF RoomInv, RoomTypes, StateIsRight, HandlerTypes, HasState
<1>4. RoomInv'
  BY ZenonT(30), <1>1, <1>2, <1>3 DEF RoomInv
<1>5. OriginTypes'
  BY ZenonT(30), <1>1 DEF TransactionInv, OriginTypes
<1>6. \A p \in Origins : waiting'[p] # None => waiting'[p] = waiting[p]
  BY ZenonT(30), <1>1 DEF TransactionInv, OriginTypes
<1>7. WaitsForCurrent'
  BY ZenonT(30), <1>1, <1>6 DEF TransactionInv, WaitsForCurrent
<1>8. AnsweredIsDone'
  BY ZenonT(30), <1>1 DEF TransactionInv, AnsweredIsDone
<1> QED BY ZenonT(30), <1>1, <1>4, <1>5, <1>7, <1>8 DEF TransactionInv

\* A request that is answered has nothing left to do, and only its origin goes on.
LEMMA AnswerKeeps ==
    ASSUME RoomInv, TransactionInv, NEW h \in Handlers, ProcessEDUs(h)
    PROVE  RoomInv' /\ TransactionInv'
<1> DEFINE r == handler[h]
           o == r.origin
           i == r.txn
           t == Transactions[o][i]
           done == accepted \cup failed
<1>1. /\ r.pc = "event" /\ r.pc # "idle" /\ r.todo = <<>>
      /\ applied' = applied \cup {<<o, i>>}
      /\ handler' = [handler EXCEPT ![h] = IdleHandler]
      /\ UNCHANGED room /\ UNCHANGED <<accepted, failed, holes, faults>>
  BY ZenonT(30) DEF ProcessEDUs
<1>2. o \in Origins /\ i \in 1..Len(Transactions[o]) /\ Remains(t, <<>>, done)
  BY ZenonT(30), <1>1 DEF TransactionInv, InProgress
<1>3. \A k \in DOMAIN t : t[k] \in done
  <2>1. t \in Seq(Events)
    BY ZenonT(30), <1>2, TransactionIs
  <2> HIDE DEF t, done
  <2> QED BY ZenonT(30), <1>2, <2>1, NothingRemains
<1>4. handler'[h] = IdleHandler /\ handler' = [handler EXCEPT ![h] = handler'[h]]
  BY ZenonT(30), <1>1 DEF RoomInv, HandlerTypes
<1>5. RoomInv'
  BY ZenonT(30), <1>1, <1>4, IdleIs, RoomStaysInv DEF RoomInv
<1>6. \A x \in Handlers : x # h => handler'[x] = handler[x]
  BY ZenonT(30), <1>1 DEF RoomInv, HandlerTypes
<1>7. \A x \in Handlers : InProgress(handler'[x], done')
  <2>1. \A x \in Handlers : x # h => InProgress(handler'[x], done')
    BY ZenonT(30), <1>1, <1>6 DEF TransactionInv
  <2>2. InProgress(handler'[h], done')
    BY ZenonT(30), <1>4, IdleIs DEF InProgress
  <2> QED BY ZenonT(30), <2>1, <2>2
<1>8. \A p \in Origins : waiting[p] # None =>
         LET y == handler[waiting[p]] IN y.pc # "idle" /\ y.origin = p /\ y.txn = next[p]
  BY ZenonT(30) DEF TransactionInv, WaitsForCurrent
<1>9. \A p \in Origins : waiting[p] = h => p = o
  <2>1. h # None
    BY ZenonT(30), InboundAssumption
  <2> QED BY ZenonT(30), <1>8, <2>1
<1>10. \A p \in Origins : waiting[p] # None => waiting[p] \in Handlers
  BY ZenonT(30) DEF TransactionInv, OriginTypes
<1>11. \A p \in Origins : waiting'[p] # None =>
          waiting[p] # h /\ waiting'[p] = waiting[p] /\ next'[p] = next[p]
  <2>1. CASE waiting[o] = h
    <3>1. next' = [next EXCEPT ![o] = @ + 1] /\ waiting' = [waiting EXCEPT ![o] = None]
      BY ZenonT(30), <2>1 DEF ProcessEDUs
    <3> QED BY ZenonT(30), <1>9, <3>1 DEF TransactionInv, OriginTypes
  <2>2. CASE waiting[o] # h
    <3>1. next' = next /\ waiting' = waiting
      BY ZenonT(30), <2>2 DEF ProcessEDUs, origin
    <3> QED BY ZenonT(30), <1>9, <2>2, <3>1
  <2> QED BY ZenonT(30), <2>1, <2>2
<1>12. WaitsForCurrent'
  <2> SUFFICES ASSUME NEW p \in Origins, waiting'[p] # None
               PROVE  LET y == handler'[waiting'[p]] IN y.pc # "idle" /\ y.origin = p /\ y.txn = next'[p]
    BY ZenonT(30) DEF WaitsForCurrent
  <2>1. waiting'[p] = waiting[p] /\ next'[p] = next[p] /\ waiting[p] # h /\ waiting[p] # None
    BY ZenonT(30), <1>11
  <2>2. handler'[waiting[p]] = handler[waiting[p]]
    BY ZenonT(30), <1>6, <1>10, <2>1
  <2> QED BY ZenonT(30), <1>8, <2>1, <2>2
<1>13. OriginTypes' /\ \A p \in Origins : next'[p] = next[p] \/ (p = o /\ i = next[o] /\ next'[o] = next[o] + 1)
  <2>1. CASE waiting[o] = h
    <3>1. next' = [next EXCEPT ![o] = @ + 1] /\ waiting' = [waiting EXCEPT ![o] = None]
      BY ZenonT(30), <2>1 DEF ProcessEDUs
    <3>2. i = next[o]
      <4>1. h # None
        BY ZenonT(30), InboundAssumption
      <4> QED BY ZenonT(30), <1>2, <1>8, <2>1, <4>1
    <3>3. next[o] \in Nat /\ next[o] \in 1..Len(Transactions[o])
      BY ZenonT(30), <1>2, <3>2 DEF TransactionInv, OriginTypes
    <3>4. next[o] + 1 \in Nat /\ next[o] + 1 \in 1..(Len(Transactions[o]) + 1)
      <4> DEFINE n == next[o]
                 a == Len(Transactions[o])
      <4>1. n \in Nat /\ n \in 1..a
        BY ZenonT(30), <3>3
      <4>2. a \in Nat
        <5>1. Transactions[o] \in Seq(Seq(Events))
          BY ZenonT(30), <1>2, InboundAssumption
        <5> QED BY SMTT(30), <5>1
      <4> HIDE DEF n, a
      <4>3. n + 1 \in Nat /\ n + 1 \in 1..(a + 1)
        BY SMTT(30), <4>1, <4>2
      <4> QED BY ZenonT(30), <4>3 DEF n, a
    <3>5. next \in [Origins -> Nat] /\ waiting \in [Origins -> Handlers \cup {None}]
      BY ZenonT(30) DEF TransactionInv, OriginTypes
    <3>6. next' \in [Origins -> Nat] /\ waiting' \in [Origins -> Handlers \cup {None}]
      BY ZenonT(30), <1>2, <3>1, <3>4, <3>5
    <3>7. \A p \in Origins : next'[p] = IF p = o THEN next[o] + 1 ELSE next[p]
      BY ZenonT(30), <1>2, <3>1, <3>5
    <3>8. \A p \in Origins : next'[p] \in 1..(Len(Transactions[p]) + 1)
      BY ZenonT(30), <3>4, <3>7 DEF TransactionInv, OriginTypes
    <3> QED BY ZenonT(30), <3>2, <3>6, <3>7, <3>8 DEF OriginTypes
  <2>2. CASE waiting[o] # h
    <3>1. next' = next /\ waiting' = waiting
      BY ZenonT(30), <2>2 DEF ProcessEDUs, origin
    <3> QED BY ZenonT(30), <3>1 DEF TransactionInv, OriginTypes
  <2> QED BY ZenonT(30), <2>1, <2>2
<1>14. AnsweredIsDone'
  <2>1. accepted' \subseteq stored' /\ done' = done
    BY ZenonT(30), <1>1 DEF TransactionInv, AnsweredIsDone, room
  <2>2. ASSUME NEW p \in Origins, NEW j \in 1..(next'[p] - 1)
        PROVE  /\ \A k \in DOMAIN Transactions[p][j] : Transactions[p][j][k] \in done
               /\ <<p, j>> \in applied'
    <3>1. \/ j \in 1..(next[p] - 1)
          \/ p = o /\ j = i
      <4> DEFINE n == next[p]
                 n2 == next'[p]
      <4>1. n \in Nat /\ n2 \in Nat
        BY ZenonT(30), <1>13 DEF TransactionInv, OriginTypes
      <4>2. n2 = n \/ (p = o /\ i = n /\ n2 = n + 1)
        BY ZenonT(30), <1>13
      <4>3. j \in 1..(n2 - 1)
        BY ZenonT(30)
      <4> HIDE DEF n, n2, o, i
      <4>4. j \in 1..(n - 1) \/ (p = o /\ j = i)
        BY SMTT(30), <4>1, <4>2, <4>3
      <4> QED BY ZenonT(30), <4>4 DEF n
    <3>2. CASE j \in 1..(next[p] - 1)
      BY ZenonT(30), <1>1, <3>2 DEF TransactionInv, AnsweredIsDone
    <3>3. CASE p = o /\ j = i
      BY ZenonT(30), <1>1, <1>3, <3>3
    <3> QED BY ZenonT(30), <3>1, <3>2, <3>3
  <2> QED BY ZenonT(30), <2>1, <2>2 DEF AnsweredIsDone
<1> QED BY ZenonT(30), <1>5, <1>7, <1>12, <1>13, <1>14 DEF TransactionInv

-----------------------------------------------------------------------------
(* The theorems.                                                             *)

\* A room with its first event and no requests.
LEMMA InitInbound == Init => RoomInv /\ TransactionInv
<1> SUFFICES ASSUME Init PROVE RoomInv /\ TransactionInv
  OBVIOUS
<1>1. Root \in Events /\ {} \in States
  BY InboundAssumption DEF States
<1>2. {} # NoState
  BY SMTT(30) DEF NoState
<1>3. \A e \in Events : before[e] = IF e = Root THEN {} ELSE NoState
  BY ZenonT(30) DEF Init
<1>4. RoomTypes
  <2>1. before \in [Events -> States \cup {NoState}]
    BY SMTT(30), <1>1 DEF Init
  <2>2. Snapshot({})
    BY <1>1 DEF Snapshot
  <2>3. \A e \in Events : HasState(e) => e \in stored /\ Snapshot(before[e]) /\ before[e] \subseteq stored
    BY SMTT(30), <1>3, <2>2 DEF HasState, Init
  <2>4. stored \subseteq Events /\ latest \subseteq stored /\ sent \subseteq stored
    BY SMTT(30), <1>1 DEF Init
  <2> QED BY ZenonT(30), <2>1, <2>3, <2>4 DEF RoomTypes
<1>5. StateIsRight
  <2> SUFFICES ASSUME NEW e \in Events, HasState(e) PROVE before[e] = TrueBefore[e]
    BY ZenonT(30) DEF StateIsRight
  <2>1. e = Root /\ before[e] = {}
    BY ZenonT(30), <1>3 DEF HasState
  <2>2. TrueBefore[Root] = ResolveConflicts({StateAfter(TrueBefore[p], p) : p \in {}})
    BY ZenonT(30), <1>1, StateAssumption, AcyclicAssumption
  <2>3. ResolveConflicts({StateAfter(TrueBefore[p], p) : p \in {}}) = {}
    BY SMTT(30) DEF ResolveConflicts
  <2> QED BY ZenonT(30), <2>1, <2>2, <2>3
<1>6. \A h \in Handlers : handler[h] = IdleHandler
  BY ZenonT(30) DEF Init
<1>7. HandlerTypes /\ \A h \in Handlers : KnowsState(handler[h], holes)
  BY ZenonT(30), <1>6, IdleIs DEF HandlerTypes, Init
<1>8. faults \in 0..MaxFaults
  BY SMTT(30), InboundAssumption DEF Init
<1>9. \A h \in Handlers : InProgress(handler[h], accepted \cup failed)
  BY ZenonT(30), <1>6, IdleIs DEF InProgress
<1>10. OriginTypes
  <2>1. \A o \in Origins : 1 \in 1..(Len(Transactions[o]) + 1)
    <3> SUFFICES ASSUME NEW o \in Origins PROVE 1 \in 1..(Len(Transactions[o]) + 1)
      BY ZenonT(30)
    <3>1. Transactions[o] \in Seq(Seq(Events))
      BY ZenonT(30), InboundAssumption
    <3> QED BY SMTT(30), <3>1
  <2>2. next \in [Origins -> Nat] /\ waiting \in [Origins -> Handlers \cup {None}]
    BY SMTT(30) DEF Init
  <2>3. \A o \in Origins : next[o] = 1
    BY ZenonT(30) DEF Init
  <2> QED BY ZenonT(30), <2>1, <2>2, <2>3 DEF OriginTypes
<1>11. WaitsForCurrent
  BY ZenonT(30) DEF WaitsForCurrent, Init
<1>12. AnsweredIsDone
  <2>1. \A o \in Origins : next[o] - 1 = 0
    BY SMTT(30) DEF Init
  <2>2. 1..0 = {}
    BY SMTT(30)
  <2>3. accepted \subseteq stored
    BY SMTT(30) DEF Init
  <2> QED BY ZenonT(30), <2>1, <2>2, <2>3 DEF AnsweredIsDone
<1>13. RoomInv
  BY ZenonT(30), <1>4, <1>5, <1>7, <1>8 DEF RoomInv
<1> QED BY ZenonT(30), <1>9, <1>10, <1>11, <1>12, <1>13 DEF TransactionInv

\* Each step of a request but the last.
LEMMA HandlerStepEffect ==
    ASSUME RoomInv, NEW h \in Handlers, HandlerStep(h), ~ProcessEDUs(h)
    PROVE  Effect(h)
<1>1. RoomTypes /\ StateIsRight /\ HandlerTypes /\ faults \in 0..MaxFaults /\ KnowsState(handler[h], holes)
  BY ZenonT(30) DEF RoomInv
<1>2. CASE ProcessEvent(h)
  BY ZenonT(30), <1>1, <1>2, ProcessEventEffect
<1>3. CASE RetrieveMissingAuthEvents(h)
  BY ZenonT(30), <1>1, <1>3, RetrieveEffect
<1>4. CASE SendNewEvent(h)
  BY ZenonT(30), <1>1, <1>4, SendNewEffect
<1>5. CASE GetMissingEvents(h)
  BY ZenonT(30), <1>1, <1>5, GetMissingEffect
<1>6. CASE LookupStates(h)
  BY ZenonT(30), <1>1, <1>6, LookupEffect
<1>7. CASE SendExtremity(h)
  BY ZenonT(30), <1>1, <1>7, ExtremityEffect
<1>8. CASE SendRest(h)
  BY ZenonT(30), <1>1, <1>8, RestEffect
<1> QED BY ZenonT(30), <1>2, <1>3, <1>4, <1>5, <1>6, <1>7, <1>8 DEF HandlerStep

\* Every step keeps the invariant.
LEMMA NextInbound == RoomInv /\ TransactionInv /\ [Next]_vars => (RoomInv /\ TransactionInv)'
<1> SUFFICES ASSUME RoomInv, TransactionInv, [Next]_vars PROVE (RoomInv /\ TransactionInv)'
  OBVIOUS
<1>1. CASE UNCHANGED vars
  <2>1. UNCHANGED <<stored, before, latest, sent, next, waiting, handler, accepted, failed, applied, holes, faults>>
    BY ZenonT(30), <1>1 DEF vars, room, origin, history
  <2>2. RoomInv'
    <3>1. \A e \in Events : HasState(e)' <=> HasState(e)
      BY ZenonT(30), <2>1 DEF HasState
    <3>2. RoomTypes'
      BY ZenonT(30), <2>1, <3>1 DEF RoomInv, RoomTypes
    <3>3. StateIsRight'
      BY ZenonT(30), <2>1, <3>1 DEF RoomInv, StateIsRight
    <3>4. HandlerTypes'
      BY ZenonT(30), <2>1 DEF RoomInv, HandlerTypes
    <3> QED BY ZenonT(30), <2>1, <3>2, <3>3, <3>4 DEF RoomInv
  <2>3. TransactionInv'
    BY ZenonT(30), <2>1 DEF TransactionInv, OriginTypes, WaitsForCurrent, AnsweredIsDone
  <2> QED BY ZenonT(30), <2>2, <2>3
<1>2. ASSUME NEW o \in Origins, GiveUp(o) PROVE (RoomInv /\ TransactionInv)'
  BY ZenonT(30), <1>2, GiveUpKeeps
<1>3. ASSUME NEW o \in Origins, NEW h \in Handlers, Send(o, h) PROVE (RoomInv /\ TransactionInv)'
  BY ZenonT(30), <1>3, SendKeeps
<1>4. ASSUME NEW h \in Handlers, ProcessEDUs(h) PROVE (RoomInv /\ TransactionInv)'
  BY ZenonT(30), <1>4, AnswerKeeps
<1>5. ASSUME NEW h \in Handlers, HandlerStep(h), ~ProcessEDUs(h) PROVE (RoomInv /\ TransactionInv)'
  BY ZenonT(30), <1>5, HandlerStepEffect, EffectKeepsRoom, EffectKeepsTransactions
<1> QED BY ZenonT(30), <1>1, <1>2, <1>3, <1>4, <1>5 DEF Next

\* So it always holds.
LEMMA InboundInvariant == Spec => [](RoomInv /\ TransactionInv)
BY InitInbound, NextInbound, PTL DEF Spec

\* For every event graph without cycles, every set of origins and every list of
\* transactions, the variables keep their types: a snapshot has one event for a
\* state key and only stored events, whatever a fetched state was missing.
THEOREM InboundTypes == Spec => []TypeOK
<1>1. RoomInv /\ TransactionInv => TypeOK
  <2> SUFFICES ASSUME RoomInv, TransactionInv PROVE TypeOK
    OBVIOUS
  <2>1. stored \subseteq Events /\ latest \subseteq stored /\ sent \subseteq stored
    BY ZenonT(30) DEF RoomInv, RoomTypes
  <2>2. \A e \in Events : HasState(e) =>
         /\ e \in stored /\ before[e] \in States /\ before[e] \subseteq stored
         /\ \A x, y \in before[e] : KeyOf[x] = KeyOf[y] => x = y
    BY ZenonT(30) DEF RoomInv, RoomTypes, Snapshot
  <2>3. \A o \in Origins : next[o] \in 1..(Len(Transactions[o]) + 1) /\ waiting[o] \in Handlers \cup {None}
    BY ZenonT(30) DEF TransactionInv, OriginTypes
  <2>4. \A h \in Handlers : handler[h].origin \in Origins \cup {None} /\ handler[h].state \in States
    BY ZenonT(30) DEF RoomInv, HandlerTypes, InHand, HandlerRecord
  <2> QED BY ZenonT(30), <2>1, <2>2, <2>3, <2>4 DEF TypeOK, RoomInv
<1> QED BY <1>1, InboundInvariant, PTL

\* However transactions are interleaved, repeated and cut by gaps, the state
\* that the roomserver keeps for an event is the one that the whole graph gives
\* it, unless an event before it was stored with a state that had a hole.
THEOREM KeptStateIsRight == Spec => []StateIsRight
<1>1. RoomInv /\ TransactionInv => StateIsRight
  BY ZenonT(30) DEF RoomInv
<1> QED BY <1>1, InboundInvariant, PTL

\* An origin that has its answer has a result for every PDU, the accepted ones
\* are stored, and the EDUs were applied.
THEOREM AnswersAreTrue == Spec => []AnsweredIsDone
<1>1. RoomInv /\ TransactionInv => AnsweredIsDone
  BY ZenonT(30) DEF TransactionInv
<1> QED BY <1>1, InboundInvariant, PTL

\* No event is taken away, and a state that is kept stays what it is.
Settled == stored \subseteq stored' /\ \A e \in Events : HasState(e) => before'[e] = before[e]

\* The state of an event is settled once: no later transaction, no retry and no
\* gap that is filled afterwards changes it (calculateAndSetState).
THEOREM StateIsSettled == Spec => [][Settled]_vars
<1>1. RoomInv /\ [Next]_vars => [Settled]_vars
  <2> SUFFICES ASSUME RoomInv, Next, ~UNCHANGED vars PROVE Settled
    BY ZenonT(30)
  <2>1. CASE UNCHANGED room
    BY SMTT(30), <2>1 DEF Settled, room
  <2>2. ASSUME NEW h \in Handlers, HandlerStep(h), ~ProcessEDUs(h) PROVE Settled
    <3>1. PICK e \in Events : \E supplied \in States \cup {NoState} : Stores(e, supplied)
      BY ZenonT(30), <2>2, HandlerStepEffect DEF Effect, RoomEffect
    <3>2. PICK supplied \in States \cup {NoState} : Stores(e, supplied)
      BY ZenonT(30), <3>1
    <3>3. HasState(e) => StateBefore(e, supplied) = before[e]
      BY ZenonT(30) DEF StateBefore
    <3> QED BY SMTT(30), <3>2, <3>3 DEF Settled, Stores, RoomInv, RoomTypes
  <2>3. ASSUME NEW o \in Origins, GiveUp(o) PROVE UNCHANGED room
    BY ZenonT(30), <2>3 DEF GiveUp
  <2>4. ASSUME NEW o \in Origins, NEW h \in Handlers, Send(o, h) PROVE UNCHANGED room
    BY ZenonT(30), <2>4 DEF Send
  <2>5. ASSUME NEW h \in Handlers, ProcessEDUs(h) PROVE UNCHANGED room
    BY ZenonT(30), <2>5 DEF ProcessEDUs
  <2> QED BY ZenonT(30), <2>1, <2>2, <2>3, <2>4, <2>5 DEF Next
<1> QED BY <1>1, InboundInvariant, PTL DEF Spec
=============================================================================
