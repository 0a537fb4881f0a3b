SPECIFICATION FairSpec
CONSTANTS
  Readers = {r1, r2}
  Urls = {u1, u2}
  Texts = {a, b}
  Tries = 2
  MaxCrashes = 1
  None = None
INVARIANTS
  TypeOK
  RepeatReadsStayInside
  AnswersAreKept
PROPERTIES
  TextsSettle
  ReadsEnd
