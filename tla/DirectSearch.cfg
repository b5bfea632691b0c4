CONSTANTS
  w1 = w1 w2 = w2
  Workers = {w1, w2}
  QueueMultiplier = 1
  EventCapacity = 1
  SinkMayThrow = TRUE
  HoldsBack = TRUE
  EmptiedBytes = 1
  FileKinds <- Kinds
  NumFiles = 3
  ResultLimit = 3
  PerFileLimit = 2
  MemoryBudget = 4
SPECIFICATION FairSpec
INVARIANTS TypeOK SubmitNeverBlocks CancellationIsPrompt
PROPERTIES ImplementsSequentialSearch SearchReturns
