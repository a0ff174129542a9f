SPECIFICATION Spec
CONSTANTS
  MaxLosses = 3
  MaxJoins = 4
  MaxRefreshes = 2
  Peers = {a, b}
  Links = {1, 2}
  MaxSeenMessages = 2
  MaxLogicalClock = 4
  MaxQueued = 1
  HighWater = 0
  MaxMessages = 3
  MaxLeaves = 1
  Sharers = {1, 2, 3}
  MaxStarts = 2
  MaxTroubles = 1
  MaxActs = 3
  MaxStreams = 2
  MaxFrames = 3
  MaxParts = 2
  MaxPlayback = 2
  MaxTurns = 2
  Friends = {f, g}
  NoValue = NoValue
  MaxAskIds = 2
  MaxOwnMeshes = 1
  MaxAskTroubles = 1
  Stations = {1, 2, 3, 4}
  Seeker = 1
  Sought = 4
  NodePairs = {{1, 2}, {1, 3}, {1, 4}, {2, 4}, {3, 4}}
  InitialPairs = {{1, 2}, {1, 3}, {2, 4}}
  Ttl = 4
  RequestLife = 2
  QuietAfter = 3
  LostAfter = 7
  MaxLinkChanges = 4
INVARIANTS
  ClientAndServerAgree
  ChatIsTrue
  OneScreenEach
  AsksAgree
  ReachIsKnown
PROPERTIES
  PicturesAreTrue
CHECK_DEADLOCK FALSE
