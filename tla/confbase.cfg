SPECIFICATION Spec
CONSTANTS
  Base = 14
  ByteLimit = 800
  StringLimit = 5
  Spelling <- MCSpelling
  MaxChild = 4
  Fraction <- MCFraction
  Magic = 190
  Foreign = 77
  ReadMax = 380
  Answers <- MCAnswers
  Parts = {1, 3}
INVARIANTS
  WrittenIsRead
  ReportIsTheAnswer
CHECK_DEADLOCK FALSE
