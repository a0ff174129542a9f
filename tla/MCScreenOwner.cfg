SPECIFICATION ShareSpec
CONSTANTS
  Sharers = {1, 2, 3}
  MaxStarts = 2
  MaxTroubles = 0
  MaxActs = 2
PROPERTIES
  StartsConverge
CHECK_DEADLOCK FALSE
