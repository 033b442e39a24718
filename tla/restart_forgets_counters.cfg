SPECIFICATION FamilySpec
CONSTANTS
  word = word
  digits = digits
  None = None
  Keys = {k1, k2}
  Fields = {f1}
  EX = EX
  Torn = Torn
  k1 = k1
  Words = {word, digits, EX, Torn}
  StollOf <- StollOfAll
  IntMin <- MCIntMin
  IntMax = 1
  TimeMax = 100
  TicksPerSecond = 1
  Commands = {"SET", "INCRBY"}
  Inputs = {0, word}
  TTLs = {0, 1}
  Deltas = {1}
  WritesFail = FALSE
  Spellings = {"upper"}
  RemoveOutcomes = {FALSE}
  ClockBound = 1
  LogBound = 2
  ListBound = 2
INVARIANT RestartRestores
