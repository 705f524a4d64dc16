\* Sources of about so many tokens.
SPECIFICATION Spec
CONSTANTS
  Vocabularies <- AllVocabularies
  MaxLong = 17
  MaxShort = 6
  MaxWrong = 7
  Capacities = {40, 660}
  Instr = 16
  Expr = 8
  Block = 8
INVARIANTS
  TypeOK
  DoneMeansClean
  AcceptedIsBalanced
  BadTokensAreReported
  TreeIsTheSource
  TreeFits
  ArenaUse
  CrashOnlyWhenExpected
PROPERTIES
  ParserStops
