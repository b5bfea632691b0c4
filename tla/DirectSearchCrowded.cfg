CONSTANTS
  w1 = w1 w2 = w2
  Workers = {w1, w2}
  QueueMultiplier = 1
  EventCapacity = 1
  SinkMayThrow = TRUE
  HoldsBack = FALSE
  EmptiedBytes = 1
  FileKinds <- CrowdedKinds
  NumFiles = 2
  ResultLimit = 2
  PerFileLimit = 2
  MemoryBudget = 2
SPECIFICATION FairSpec
PROPERTIES ImplementsSequentialSearch
