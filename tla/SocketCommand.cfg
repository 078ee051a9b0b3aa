SPECIFICATION SocketSpec
CONSTANTS
  Items = {i1, i2}
  MaxAnswers = 2
  None = None
  Failed = Failed
  MaxChunks = 2
  MaxWire = 2
  MaxAgain = 1
  WindowSizes = {1, 3}
  MaxWindow = 2
  Fallback = 2
INVARIANTS
  AnswersKept
  ConversationFate
  StreamLawful
  PullsFreed
PROPERTY
  AllCommandsEnd
CHECK_DEADLOCK FALSE
