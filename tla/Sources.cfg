CONSTANTS
  Trees <- ManyTrees
  ScanOptions <- ManyOptions
  MaxTreeChanges = 2
  IgnoreLines <- ManyIgnoreLines
  BaseDirectories <- ManyIgnoreBases
  QueriedPaths <- ManyQueriedPaths
  GlobPatterns <- ManyGlobs
  GlobTexts <- ManyGlobTexts
  MaxIgnoreLines = 3
  WatchedPaths <- ManyWatchedPaths
  ParentOf <- WatchedParents
  WatchedDirectories = {"d", "d/e"}
  Backends = {"polling", "linux", "windows", "macos"}
  EventQueueSize = 2
  MaxDiskChanges = 3
  TextFiles <- ManyTextFiles
  TextChoices <- ManyTextChoices
  BlockSize = 2
  BinarySampleSize = 8
  BinarySampleMinimum = 3
  MaximumLineLength = 4
  LiteralTexts <- ManyLiteralTexts
  LiteralExpressions <- ManyLiteralExpressions
  RegexAnswers <- ManyRegexAnswers
  MatchChoices <- ManyMatchChoices
  FileKinds <- NoFiles
  NumFiles = 0
  ResultLimit = 4
  PerFileLimit = 3
  MemoryBudget = 7
  SearchedFiles <- ManySearchedFiles
  PackageDocuments <- MCPackageDocuments
  OtherArchives <- MCOtherArchives
  PackageNameOrder <- MCPackageNameOrder
  DefaultLimits <- MCDefaultLimits
  XmlSafetyMultiplier = 16
SPECIFICATION SourcesSpec
INVARIANTS ScanIsExact IgnoreAnswersAreSound QuietPollMeansUpToDate TextIsBlindToBlocks MatchesAreExact ExtractionIsFaithful PublishedInOrder ContextIsWhatSurrounds NothingHeldBackAtEnd
CHECK_DEADLOCK FALSE
