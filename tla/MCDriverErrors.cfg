CONSTANTS
  Files <- SourceFiles
  Names <- SourceNames
  Extract <- Extraction
  MaxArgs = 2
  ArenaFiles = 2
SPECIFICATION Spec
CHECK_DEADLOCK FALSE
INVARIANT SuccessMeansNoErrors
