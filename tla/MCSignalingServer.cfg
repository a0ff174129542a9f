SPECIFICATION Spec
CONSTANTS
  Sessions = {s1, s2, s3, s4}
  RoomIds = {r1, r2}
  PeerIds = {p1, p2, p3, p4}
  Tokens = {t1, t2, t3}
  None = None
  RoomCapacity = 3
  MaxRooms = 2
  MaxInvitationsPerRoom = 1
  InvitationLifetime = 1
  MaxTime = 1
SYMMETRY Symmetry
INVARIANTS
  RoomsAreSound
  TokensAdmitOnce
  ClientsAreTold
PROPERTIES
  RoomsImplementAdmission
