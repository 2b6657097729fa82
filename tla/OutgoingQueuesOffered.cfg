SPECIFICATION FairSpec
CONSTANTS
  p1 = p1
  p2 = p2
  e1 = e1
  q1 = q1
  q2 = q2
  PDUs <- NoItems
  EDUs <- OneEDU
  Queues <- TwoQueues
  MaxPerTransaction = 1
  MaxInMemory = 1
  FailuresUntilBlacklist = 2
  MaxRetries = 1
  MaxCrashes = 0
  PromptCallers = TRUE
  NoQueue = NoQueue
  Retry = Retry
  Hydrate = Hydrate
PROPERTY AppendedIsOffered
