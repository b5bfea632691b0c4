CONSTANTS
  w1 = w1 w2 = w2
  Workers = {w1, w2}
  QueueMultiplier = 1
  EventCapacity = 1
  SinkMayThrow = TRUE
  HoldsBack = FALSE
  EmptiedBytes = 0
  FileKinds <- LongKinds
  NumFiles = 2
  ResultLimit = 3
  PerFileLimit = 2
  MemoryBudget = 0
SPECIFICATION FairSpec
PROPERTY ThrowReachesCaller
