CONSTANTS
  Vocabularies <- AllVocabularies
  MaxLines = 4
SPECIFICATION Spec
CHECK_DEADLOCK FALSE
INVARIANTS
  CallsAgree
  OneBody
  AcceptedCallsVerify
