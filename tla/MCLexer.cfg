\* Texts of up to five characters, or two lines for each of three files.
SPECIFICATION BothSpec
CONSTANTS
  Main = "m"
  Texts <- MCTexts
  Sources <- MCSources
  DirectiveOf <- Directive2
  Names = {"a", "n", "m", "f", "g"}
  MaxIncludes = 4
  MaxComment = 5
  MaxString = 4
  MaxTokens = 3
  MaxLines = 2
INVARIANTS
  TypeOK
  OneEnd
  LinesTrue
  NothingDropped
  CrashOnlyWhenExpected
  IncludeIsPaste
PROPERTIES
  OnlyAnEndIsRemoved
  ReadsToTheEnd
