SPECIFICATION FamilySpec
CONSTANTS
  Connections = {c1, c2}
  MaxFd = 2
  Words <- AllWords
  Scripts <- TextScripts
  Passwords <- OpenOrLocked
  Chunk = 3
  SendBuffer = 2
  Interruptible <- NotInACommand
  NL <- Eol
  None = None
  c1 = c1
  c2 = c2
CHECK_DEADLOCK FALSE
INVARIANT TypeOK
INVARIANT SessionsArePolled
INVARIANT RepliesAreAnswers
INVARIANT AuthIsRequired
PROPERTY LinesAreAnswered
PROPERTY DeparturesAreNoticed
PROPERTY SignalEndsLoop
