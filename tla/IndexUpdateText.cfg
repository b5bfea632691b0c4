CONSTANTS
  u1 = u1 u2 = u2 x = x y = y
  NumPaths = 2
  Contents = {x, y}
  Updaters = {u1}
  Changes = {"write"}
  MaxChanges = 1
  MaxUpdates = 1
SPECIFICATION Spec
INVARIANT TextBelongsToHash
