CONSTANTS
  p1 = p1 p2 = p2 a = a h1 = h1 h2 = h2
  Processes <- Processes2
  Paths = {a}
  Hashes = {h1, h2}
  Databases <- FreshDatabase
  ConcurrentFrom = 0
SPECIFICATION Spec
INVARIANT SettledMeansComplete
