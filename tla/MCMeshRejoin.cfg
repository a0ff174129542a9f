SPECIFICATION FormedFairSpec
CONSTANTS
  Peers = {1, 2, 3}
  MaxPeers = 3
  RetryDelays = 1
  Founder = 1
  Inviters = {1}
  Leavers = {3}
  MaxLinks = 4
  MaxLeaves = 1
  MaxFaults = 0
  Prompt = TRUE
PROPERTIES
  FullMesh
