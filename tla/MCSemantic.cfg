CONSTANTS
  Vocabularies <- AllVocabularies
  MaxLines = 5
  MaxDepth = 3
SPECIFICATION SemanticSpec
CHECK_DEADLOCK FALSE
INVARIANTS TablesOK NamesAsDeclared
