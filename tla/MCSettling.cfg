SPECIFICATION Spec
CONSTANTS
  Sharers = {1, 2, 3}
  MaxStarts = 2
  MaxActs = 2
  MaxCalls = 6
  Versions <- Prereleases
  Installed <- InstalledPrerelease
  Steps = 1
  Sessions = {s1, s2}
  Tokens = {t1}
  RoomIds = {r1}
  None = None
  Conversation = m
  Peers = {1, 2, 3}
  MaxPeers = 3
  RetryDelays = 1
  Founder = 1
  Inviters = {}
  Leavers = {}
  MaxLinks = 4
  MaxLeaves = 0
  MaxFaults = 1
  Prompt = FALSE
INVARIANTS
  UpdateIsAsShown
PROPERTIES
  SharingSettles
  NoTaskHangs
  WantedLinkOpens
  EveryAskEnds
  MeshCloses
CHECK_DEADLOCK FALSE
