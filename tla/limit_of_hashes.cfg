SPECIFICATION FamilySpec
CONSTANTS
  word = word
  digits = digits
  None = None
  Keys = {k1, k2, k3}
  a = k1
  b = k2
  Fields = {f1}
  Words = {word, digits}
  StollOf <- MCStollOf
  IntMin <- MCIntMin
  IntMax = 1
  TimeMax = 100
  TicksPerSecond = 1
  Threads = {reactor, janitor}
  JanitorThread = janitor
  PurgeLimit = 20
  MaxKeys = 1
  NumShards = 2
  ShardOf <- TwoShards
  Ops = {"hset"}
  Inputs = {0}
  TTLs = {}
  Deltas = {1}
  Indices = {0}
  Limits = {20}
  Counts = {1, 2}
  SampleSize = 10
  ClockBound = 0
  ListBound = 0
PROPERTY LimitIsRestored
CHECK_DEADLOCK FALSE
