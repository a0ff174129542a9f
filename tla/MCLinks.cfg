SPECIFICATION BothSpec
CONSTANTS
  a = a
  b = b
  None = None
  Offerer = a
  Answerer = b
  MaxTroubles = 2
INVARIANTS
  EveryWaitHasItsTimer
  HandshakeEnds
  AudioAnswerIsComing
  LinksAreSound
  ViewsAreLinks
PROPERTIES
  GraceIsWhole
  ForgottenStayAway
CHECK_DEADLOCK FALSE
