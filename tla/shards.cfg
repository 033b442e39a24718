SPECIFICATION FamilySpec
CONSTANTS
  word = word
  digits = digits
  None = None
  Keys = {k1, k2, k3}
  a = k1
  third = k3
  Fields = {f1}
  Words = {word, digits}
  StollOf <- MCStollOf
  IntMin <- MCIntMin
  IntMax = 1
  TimeMax = 100
  TicksPerSecond = 1
  Threads = {t1, t2}
  NumShards = 2
  ShardOf <- TwoShards
  Ops <- AllOps
  Inputs = {0}
  TTLs = {1}
  Deltas = {1}
  Indices = {0}
  Limits = {1}
  Counts = {1, 2}
  SampleSize = 1
  ClockBound = 1
  ListBound = 0
SYMMETRY Symmetry
INVARIANT SizeBetween
INVARIANT ClearSparesNothing
INVARIANT SnapshotIsPlausible
PROPERTY EvictsLeastRecentlyUsed
