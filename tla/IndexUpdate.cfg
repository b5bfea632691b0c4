CONSTANTS
  u1 = u1 u2 = u2 x = x y = y
  NumPaths = 2
  Contents = {x, y}
  Updaters = {u1, u2}
  Changes = {"write", "remove", "move", "commit"}
  MaxChanges = 2
  MaxUpdates = 2
SYMMETRY Symmetry
SPECIFICATION Spec
INVARIANTS QuietUpdateShowsWhatItHashed ReferencesResolve
PROPERTY SharedTextSurvives
