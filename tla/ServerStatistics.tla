-------------------------- MODULE ServerStatistics --------------------------
(***************************************************************************)
(* What the federation sender remembers about ONE remote server            *)
(* (federationsender/statistics): a failure counter, the end of the        *)
(* current backoff interval and the blacklist bit, all of them separate    *)
(* atomics that any number of goroutines update with no common lock.       *)
(* Every atomic access of Success and Failure is one action, so the        *)
(* interleavings of concurrent callers are those of the program.           *)
(*                                                                         *)
(* Time is relative: backoffUntil holds how many seconds are left until    *)
(* the instant the program stores, -1 once that instant has passed (the    *)
(* zero time.Time{} is long past), and NotStored while the atomic.Value is *)
(* still empty.                                                            *)
(***************************************************************************)
EXTENDS Integers

CONSTANTS
  Callers,                \* goroutines that report successes and failures
  Timers,                 \* identities of the goroutines that Failure starts
  FailuresUntilBlacklist, \* statistics.go:25, send_max_retries in the config
  MaxSuccesses,           \* bound: how many successes are reported
  NotStored               \* the atomic.Value that was never stored to

ASSUME ThresholdAssumption == FailuresUntilBlacklist \in Nat
ASSUME SuccessesAssumption == MaxSuccesses \in Nat
ASSUME NotStoredAssumption == NotStored \notin Int

VARIABLES
  blacklisted,     \* atomic.Bool: is the server blacklisted (in memory)
  dbBlacklisted,   \* the row of federationsender_blacklist
  backoffStarted,  \* atomic.Bool: has a backoff been started
  backoffUntil,    \* atomic.Value: end of the interval, see above
  backoffCount,    \* atomic.Uint32
  successCounter,  \* atomic.Uint32
  pc,              \* where each caller is in Success or Failure
  count,           \* the caller's local copy of backoffCount
  timer,           \* the backoff goroutines: "none", "begin" or "wait"
  left             \* seconds left of a waiting goroutine's time.After

statistics == <<blacklisted, dbBlacklisted, backoffStarted, backoffUntil,
                backoffCount, successCounter, pc, count, timer, left>>

\* The count at which the server is blacklisted: Inc() >= threshold, so a
\* threshold of 0 acts at the first failure just as a threshold of 1 does.
BlacklistCount == IF FailuresUntilBlacklist = 0 THEN 1 ELSE FailuresUntilBlacklist

\* duration: 2^count seconds.
duration(c) == 2 ^ c

\* It is a number of seconds.
ASSUME DurationAssumption == \A c \in 0..BlacklistCount : duration(c) \in Nat

Past == -1
Times == {Past} \cup Nat
Steps == {"idle", "inc", "blacklist", "dbadd", "checkbl", "checkuntil",
          "loadcount", "storeuntil", "cancel", "cancel2", "interrupt",
          "succ", "reset", "dbremove"}

StatisticsInit ==
  /\ blacklisted = FALSE
  /\ dbBlacklisted = FALSE
  /\ backoffStarted = FALSE
  /\ backoffUntil = NotStored
  /\ backoffCount = 0
  /\ successCounter = 0
  /\ pc = [c \in Callers |-> "idle"]
  /\ count = [c \in Callers |-> 0]
  /\ timer = [g \in Timers |-> "none"]
  /\ left = [g \in Timers |-> Past]

Goto(c, step) == pc' = [pc EXCEPT ![c] = step]

-----------------------------------------------------------------------------
(* Failure *)

\* Mutant: without the CAS every caller starts a backoff period.
FailureBegin_NoCAS(c) ==
  /\ pc[c] = "idle"
  /\ Goto(c, "inc")
  /\ backoffStarted' = TRUE
  /\ UNCHANGED <<blacklisted, dbBlacklisted, backoffUntil, backoffCount,
                 successCounter, count, timer, left>>

\* backoffStarted.CAS(false, true): the winner starts a backoff period.
FailureBegin(c) ==
  /\ pc[c] = "idle"
  /\ Goto(c, IF backoffStarted THEN "checkbl" ELSE "inc")
  /\ backoffStarted' = TRUE
  /\ UNCHANGED <<blacklisted, dbBlacklisted, backoffUntil, backoffCount,
                 successCounter, count, timer, left>>

\* backoffCount.Inc() reaches the threshold: this call will blacklist.
FailureIncLast(c) ==
  /\ pc[c] = "inc"
  /\ backoffCount' = backoffCount + 1
  /\ backoffCount' >= FailuresUntilBlacklist
  /\ Goto(c, "blacklist")
  /\ UNCHANGED <<blacklisted, dbBlacklisted, backoffStarted, backoffUntil,
                 successCounter, count, timer, left>>

\* ... or it does not, and a goroutine is started that unsets backoffStarted.
FailureInc(c) ==
  /\ pc[c] = "inc"
  /\ backoffCount' = backoffCount + 1
  /\ backoffCount' < FailuresUntilBlacklist
  /\ \E g \in Timers : timer[g] = "none" /\ timer' = [timer EXCEPT ![g] = "begin"]
  /\ Goto(c, "checkbl")
  /\ UNCHANGED <<blacklisted, dbBlacklisted, backoffStarted, backoffUntil,
                 successCounter, count, left>>

FailureBlacklist(c) ==
  /\ pc[c] = "blacklist"
  /\ blacklisted' = TRUE
  /\ Goto(c, "dbadd")
  /\ UNCHANGED <<dbBlacklisted, backoffStarted, backoffUntil, backoffCount,
                 successCounter, count, timer, left>>

\* AddServerToBlacklist; its error is only logged.
FailureDbAdd(c) ==
  /\ pc[c] = "dbadd"
  /\ dbBlacklisted' \in {TRUE, dbBlacklisted}
  /\ Goto(c, "idle")
  /\ UNCHANGED <<blacklisted, backoffStarted, backoffUntil, backoffCount,
                 successCounter, count, timer, left>>

FailureCheckBlacklisted(c) ==
  /\ pc[c] = "checkbl"
  /\ Goto(c, IF blacklisted THEN "idle" ELSE "checkuntil")
  /\ UNCHANGED <<blacklisted, dbBlacklisted, backoffStarted, backoffUntil,
                 backoffCount, successCounter, count, timer, left>>

\* until was stored and time.Now() is not after it.
InInterval == backoffUntil # NotStored /\ backoffUntil >= 0

FailureCheckUntil(c) ==
  /\ pc[c] = "checkuntil"
  /\ Goto(c, IF InInterval THEN "idle" ELSE "loadcount")
  /\ UNCHANGED <<blacklisted, dbBlacklisted, backoffStarted, backoffUntil,
                 backoffCount, successCounter, count, timer, left>>

FailureLoadCount(c) ==
  /\ pc[c] = "loadcount"
  /\ count' = [count EXCEPT ![c] = backoffCount]
  /\ Goto(c, "storeuntil")
  /\ UNCHANGED <<blacklisted, dbBlacklisted, backoffStarted, backoffUntil,
                 backoffCount, successCounter, timer, left>>

FailureStoreUntil(c) ==
  /\ pc[c] = "storeuntil"
  /\ backoffUntil' = duration(count[c])
  /\ Goto(c, "idle")
  /\ UNCHANGED <<blacklisted, dbBlacklisted, backoffStarted, backoffCount,
                 successCounter, count, timer, left>>

-----------------------------------------------------------------------------
(* The goroutine that Failure starts *)

\* It loads backoffUntil when it first runs; with nothing stored it ends.
TimerBegin(g) ==
  /\ timer[g] = "begin"
  /\ IF backoffUntil = NotStored
       THEN /\ timer' = [timer EXCEPT ![g] = "none"]
            /\ backoffStarted' = FALSE
            /\ UNCHANGED left
       ELSE /\ timer' = [timer EXCEPT ![g] = "wait"]
            /\ left' = [left EXCEPT ![g] = backoffUntil]
            /\ UNCHANGED backoffStarted
  /\ UNCHANGED <<blacklisted, dbBlacklisted, backoffUntil, backoffCount,
                 successCounter, pc, count>>

Waiting(g) == timer[g] = "wait"

\* Mutant: the goroutine waits for the interrupt only.
TimerFires_OnlyInterrupt(g) ==
  /\ Waiting(g)
  /\ left[g] = Past /\ backoffUntil = Past
  /\ timer' = [timer EXCEPT ![g] = "none"]
  /\ backoffStarted' = FALSE
  /\ UNCHANGED <<blacklisted, dbBlacklisted, backoffUntil, backoffCount,
                 successCounter, pc, count, left>>

\* time.After fires, then backoffStarted.Store(false).
TimerFires(g) ==
  /\ Waiting(g)
  /\ left[g] <= 0
  /\ timer' = [timer EXCEPT ![g] = "none"]
  /\ backoffStarted' = FALSE
  /\ UNCHANGED <<blacklisted, dbBlacklisted, backoffUntil, backoffCount,
                 successCounter, pc, count, left>>

-----------------------------------------------------------------------------
(* Success *)

SuccessBegin(c) ==
  /\ pc[c] = "idle"
  /\ successCounter < MaxSuccesses
  /\ Goto(c, "cancel")
  /\ UNCHANGED <<blacklisted, dbBlacklisted, backoffStarted, backoffUntil,
                 backoffCount, successCounter, count, timer, left>>

CancelBlacklisted(c) ==
  /\ pc[c] = "cancel"
  /\ blacklisted' = FALSE
  /\ Goto(c, "cancel2")
  /\ UNCHANGED <<dbBlacklisted, backoffStarted, backoffUntil, backoffCount,
                 successCounter, count, timer, left>>

CancelUntil(c) ==
  /\ pc[c] = "cancel2"
  /\ backoffUntil' = Past
  /\ Goto(c, "interrupt")
  /\ UNCHANGED <<blacklisted, dbBlacklisted, backoffStarted, backoffCount,
                 successCounter, count, timer, left>>

\* The send on interrupt succeeds only when a goroutine is in its select;
\* that goroutine is then past its wait and unsets backoffStarted.
CancelInterrupt(c) ==
  /\ pc[c] = "interrupt"
  /\ \/ \E g \in Timers : Waiting(g) /\ left' = [left EXCEPT ![g] = Past]
     \/ (\A g \in Timers : ~Waiting(g)) /\ UNCHANGED left
  /\ Goto(c, "succ")
  /\ UNCHANGED <<blacklisted, dbBlacklisted, backoffStarted, backoffUntil,
                 backoffCount, successCounter, count, timer>>

SuccessCount(c) ==
  /\ pc[c] = "succ"
  /\ successCounter' = successCounter + 1
  /\ Goto(c, "reset")
  /\ UNCHANGED <<blacklisted, dbBlacklisted, backoffStarted, backoffUntil,
                 backoffCount, count, timer, left>>

SuccessReset(c) ==
  /\ pc[c] = "reset"
  /\ backoffCount' = 0
  /\ Goto(c, "dbremove")
  /\ UNCHANGED <<blacklisted, dbBlacklisted, backoffStarted, backoffUntil,
                 successCounter, count, timer, left>>

\* RemoveServerFromBlacklist; its error is only logged.
SuccessDbRemove(c) ==
  /\ pc[c] = "dbremove"
  /\ dbBlacklisted' \in {FALSE, dbBlacklisted}
  /\ Goto(c, "idle")
  /\ UNCHANGED <<blacklisted, backoffStarted, backoffUntil, backoffCount,
                 successCounter, count, timer, left>>

-----------------------------------------------------------------------------
(* One second passes. *)
Elapse(t) == IF t = NotStored \/ t = Past THEN t ELSE t - 1

Tick ==
  /\ InInterval \/ \E g \in Timers : Waiting(g) /\ left[g] > 0
  /\ backoffUntil' = Elapse(backoffUntil)
  /\ left' = [g \in Timers |-> Elapse(left[g])]
  /\ UNCHANGED <<blacklisted, dbBlacklisted, backoffStarted, backoffCount,
                 successCounter, pc, count, timer>>

Failure(c) ==
  \/ FailureIncLast(c) \/ FailureInc(c) \/ FailureBlacklist(c) \/ FailureDbAdd(c)
  \/ FailureCheckBlacklisted(c) \/ FailureCheckUntil(c) \/ FailureLoadCount(c)
  \/ FailureStoreUntil(c)

Success(c) ==
  \/ CancelBlacklisted(c) \/ CancelUntil(c) \/ CancelInterrupt(c)
  \/ SuccessCount(c) \/ SuccessReset(c) \/ SuccessDbRemove(c)

TimerStep(g) == TimerBegin(g) \/ TimerFires(g)

StatisticsNext ==
  \/ \E c \in Callers : FailureBegin(c) \/ SuccessBegin(c) \/ Failure(c) \/ Success(c)
  \/ \E g \in Timers : TimerStep(g)
  \/ Tick

StatisticsSpec == StatisticsInit /\ [][StatisticsNext]_statistics

\* A started call and a started goroutine run to completion and the clock
\* advances; nothing forces anybody to make a call.
FairStatisticsSpec ==
  /\ StatisticsSpec
  /\ \A c \in Callers : WF_statistics(Failure(c) \/ Success(c))
  /\ \A g \in Timers : WF_statistics(TimerStep(g))
  /\ WF_statistics(Tick)

-----------------------------------------------------------------------------
(* Properties *)

\* Types, and the caller's copy of the failure counter never exceeds the
\* count that blacklists, whatever calls overlap.
StatisticsTypeOK ==
  /\ blacklisted \in BOOLEAN
  /\ dbBlacklisted \in BOOLEAN
  /\ backoffStarted \in BOOLEAN
  /\ backoffUntil \in Times \cup {NotStored}
  /\ backoffCount \in Nat
  /\ successCounter \in Nat
  /\ pc \in [Callers -> Steps]
  /\ count \in [Callers -> 0..BlacklistCount]
  /\ timer \in [Timers -> {"none", "begin", "wait"}]
  /\ left \in [Timers -> Times]

Live(g) == timer[g] # "none"

\* The CAS on backoffStarted admits one backoff goroutine at a time: a second
\* one would unset the flag in the middle of the other's interval.
OneBackoffTimer == \A g, h \in Timers : Live(g) /\ Live(h) => g = h

\* However calls to Failure and Success overlap, backoffCount never passes
\* the count that blacklists, so the exponent of the next interval is bounded.
CountBounded == backoffCount <= BlacklistCount

\* A goroutine started by Failure always ends: its timer fires or Success
\* interrupts it.
TimerEnds == \A g \in Timers : Live(g) ~> ~Live(g)

\* The started flag is unset when the backoff is done ("wait out the backoff
\* and unset the backoffStarted flag when done", statistics.go:114), unless
\* the server is blacklisted and there is no backoff to wait out.  The code
\* does not keep this: the failure that blacklists starts no goroutine, and a
\* success that follows leaves the flag set.
BackoffFlagUnset == backoffStarted ~> (~backoffStarted \/ blacklisted)
=============================================================================
