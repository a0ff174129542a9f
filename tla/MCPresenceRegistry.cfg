SPECIFICATION Spec
CONSTANTS
  Sessions = {s1, s2, s3}
  RoomIds = {r1, r2}
  Tokens = {t1, t2}
  RoomCapacity = 2
  m = m
  Meshes = {m}
  None = None
  Publications <- FewPublications
  Lifetime = 2
  Pause = 1
  MaxAsks = 2
SYMMETRY Symmetry
INVARIANTS
  AsksAreSound
  ClientsAgree
  SnapshotsCurrent
