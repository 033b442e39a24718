SPECIFICATION FamilySpec
CONSTANTS
  word = word
  digits = digits
  None = None
  Keys = {k1}
  Fields = {f1, f2}
  Words = {word, digits}
  StollOf <- MCStollOf
  IntMin <- MCIntMin
  IntMax = 1
  TimeMax = 100
  TicksPerSecond = 1
  Threads = {t1, t2}
  NumShards = 1
  ShardOf <- OneShard
  Ops <- BothFamilies
  Inputs = {0, word}
  TTLs = {0, 1}
  Deltas = {1}
  Indices <- BothEnds
  Limits = {1}
  Counts = {1}
  SampleSize = 10
  ClockBound = 2
  ListBound = 2
SYMMETRY Symmetry
INVARIANT TypeOK
INVARIANT NoEmptyContainers
PROPERTY QueriesInvisible
PROPERTY Linearizable
