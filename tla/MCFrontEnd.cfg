CONSTANTS
  Vocabularies <- AllVocabularies
  Labels = {"L"}
  MaxLines = 5
  MaxDepth = 3
SPECIFICATION FrontSpec
CHECK_DEADLOCK FALSE
INVARIANTS AcceptedVerifies NamesHaveAllocas
