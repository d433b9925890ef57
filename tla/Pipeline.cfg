SPECIFICATION FairSpec
CONSTANTS
  Base = 2
  Sent <- MCSent
  Answer <- MCAnswer
  MaxSize = 8
  Batch = 2
  SendBuffer = 3
INVARIANTS StreamIsWhole AnswersAreWhole SocketsAreBounded
PROPERTIES AllAnswered
