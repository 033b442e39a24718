SPECIFICATION FairSpec
CONSTANTS
  Connections = {c1}
  MaxFd = 1
  Words <- AllWords
  Scripts <- RespScripts
  Passwords <- OpenOnly
  Chunk = 3
  SendBuffer = 3
  Interruptible <- NotInACommand
  NL <- Eol
  None = None
  c1 = c1
  c2 = c2
CHECK_DEADLOCK FALSE
INVARIANT OneAnswerEach
