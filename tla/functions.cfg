SPECIFICATION Spec
CONSTANTS
  word = word
  digits = digits
  None = None
  Keys = {k1, k2}
  Fields = {f1, f2}
  EX = EX
  Words = {word, digits, EX}
  StollOf <- MCStollOfAll
  IntMin <- MCIntMin
  IntMax = 1
  TimeMax = 100
  TicksPerSecond = 1
  Star = Star
  Dollar = Dollar
  Plus = Plus
  Minus = Minus
  Colon = Colon
  CR = CR
  LF = LF
  Blank = Blank
  Quote = Quote
  Tick = Tick
  Nul = Nul
  Nothing = Nothing
  x = x
  y = y
  NumberSymbols <- MCNumberSymbols
  SizeMax = 9999
  Others = {x, y}
  Now = 1
  RangeInputs <- MCRangeInputs
  CommandInputs <- MCCommandInputs
  ArrayInputs <- MCArrayInputs
  TextInputs <- MCTextInputs
  QuotedInputs <- MCQuotedInputs
  ReplyInputs <- MCReplyInputs
  LogInputs <- MCLogInputs
INVARIANT LRangeIsSlice
INVARIANT ChangesAreLogged
INVARIANT RepliesAreTrue
INVARIANT RespRoundTrip
INVARIANT ReadsInside
INVARIANT QuotedTextRoundTrip
INVARIANT PipelinedRepliesAreFramed
INVARIANT CutDamagesLastToken
INVARIANT CutCostsOneMore
CHECK_DEADLOCK FALSE
