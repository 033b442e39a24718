SPECIFICATION FamilySpec
CONSTANTS
  word = word
  digits = digits
  None = None
  k1 = k1
  Keys = {k1, k2}
  Fields = {f1}
  EX = EX
  Torn = Torn
  Words = {word, digits, EX, Torn}
  StollOf <- StollOfAll
  IntMin <- MCIntMin
  IntMax = 1
  TimeMax = 100
  TicksPerSecond = 1
  Commands <- KnownCommands
  Inputs = {0, word}
  TTLs = {0, 1, 10}
  Deltas = {1}
  WritesFail = TRUE
  Spellings = {"upper"}
  RemoveOutcomes = {FALSE}
  ClockBound = 1
  LogBound = 2
  ListBound = 2
INVARIANT TypeOK
INVARIANT NothingIsLost
PROPERTY CrashIsAtomic
PROPERTY RewriteIsExact
