SPECIFICATION FairStatisticsSpec
CONSTANTS
  c1 = c1
  c2 = c2
  g1 = g1
  g2 = g2
  Callers <- MCCallers
  Timers <- MCTimers
  FailuresUntilBlacklist = 2
  MaxSuccesses = 2
  NotStored = NotStored
INVARIANTS StatisticsTypeOK OneBackoffTimer CountBounded
PROPERTY TimerEnds
