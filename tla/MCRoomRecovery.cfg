SPECIFICATION FairSpec
CONSTANTS
  Members = {1, 2}
  Rooms = {1, 2, 3, 4, 5, 6}
  MaxLosses = 2
INVARIANTS
  OneViewOfRooms
PROPERTIES
  Converges
CHECK_DEADLOCK FALSE
