CONSTANTS
  Files <- SourceFiles
  Names <- SourceNames
  Extract <- Extraction
  MaxArgs = 3
  ArenaFiles = 2
SPECIFICATION Spec
CHECK_DEADLOCK FALSE
INVARIANTS TypeOK NoCodeAfterErrors FirstFileHasTarget OutputIsFresh CrashOnlyWhenExpected
