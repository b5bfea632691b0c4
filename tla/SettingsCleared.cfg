CONSTANTS
  p1 = p1 p2 = p2
  Processes = {p1}
  Repository = "repository"
  SizeOrder <- Order
  Maximum <- Limits
  defaultResultLimit = 1
  SavedGlobals <- Globals
  SavedOverrides <- Cleared
  EditedTexts <- Editable
  EditedDocuments <- Edited
  SearchNames = {"a"}
  Searches = {1}
  MaxOperations = 3
  MaxEdits = 0
SPECIFICATION UninterruptedSpec
INVARIANT UnsetOverrideInherits
CHECK_DEADLOCK FALSE
