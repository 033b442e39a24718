SPECIFICATION FairSpec
CONSTANTS
  Connections = {c1}
  MaxFd = 1
  Words <- AllWords
  Scripts <- TextScripts
  Passwords <- OpenOrLocked
  Chunk = 3
  SendBuffer = 3
  Interruptible <- Everywhere
  NL <- Eol
  None = None
  c1 = c1
  c2 = c2
CHECK_DEADLOCK FALSE
INVARIANT StopIsSafe
