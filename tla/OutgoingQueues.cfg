SPECIFICATION Spec
CONSTANTS
  p1 = p1
  p2 = p2
  e1 = e1
  q1 = q1
  q2 = q2
  PDUs <- TwoPDUs
  EDUs <- NoItems
  Queues <- TwoQueues
  MaxPerTransaction = 1
  MaxInMemory = 2
  FailuresUntilBlacklist = 1
  MaxRetries = 1
  MaxCrashes = 1
  PromptCallers = FALSE
  NoQueue = NoQueue
  Retry = Retry
  Hydrate = Hydrate
SYMMETRY QueueSymmetry
INVARIANTS   DropsWhatItSent NoDuplicatesPending
PROPERTY IsDurableOutbox
