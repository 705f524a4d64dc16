CONSTANTS
  Vocabularies <- AllVocabularies
  MaxLines = 4
  MaxDepth = 3
SPECIFICATION SemanticSpec
CHECK_DEADLOCK FALSE
INVARIANT TreeIsChecked
