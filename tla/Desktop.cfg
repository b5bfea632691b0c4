CONSTANTS
  p1 = p1 p2 = p2
  Processes = {p1, p2}
  Repository = "repository"
  SizeOrder <- Order
  Maximum <- Limits
  defaultResultLimit = 1
  SavedGlobals <- Globals
  SavedOverrides <- Overrides
  EditedTexts <- Editable
  EditedDocuments <- Edited
  SearchNames = {"a"}
  Searches = {1}
  MaxOperations = 3
  MaxEdits = 1
  Directories = {"r", "r/a", "r/a/b", "s"}
  Parent <- Tree
  maximumRecentDirectories = 2
  MaxScopeOperations = 4
  Files = {"f", "g"}
  MaxSearches = 2
  MaxPreviews = 2
  MaxIndexRuns = 1
  MaxTasks = 2
  MaxResults = 2
  MaxProgress = 1
  DirectAnswers <- Direct
  IndexContents <- Indexes
  BatchOptions <- Batchings
  Queries <- Asks
  Strategies = {"direct", "indexed", "hybrid"}
  Updaters = {p1, p2}
  Roots = {"r"}
  Heads = {"h1", "h2"}
  Logs = {"history"}
  Times = {1, 2}
  RetentionLimit = 2
  MaxLogOperations = 4
SPECIFICATION DesktopFairSpec
INVARIANTS QuietLoadIsLastSave LoadedIsSafe RowsAreTheLatestSearch PreviewIsTheLastRequest IndexingStatusIsFinal  NewestRowsAreKept FreshIndexIsOfThisHead
PROPERTIES RestartRestoresScope CancellationEnds
CHECK_DEADLOCK FALSE
