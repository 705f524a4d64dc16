CONSTANTS
  Vocabularies <- AllVocabularies
  Labels = {"L"}
  MaxLines = 5
  MaxDepth = 3
SPECIFICATION CompileSpec
CHECK_DEADLOCK FALSE
INVARIANTS TypeOK LoopTargets CleanProgramsVerify RunsAsWritten
