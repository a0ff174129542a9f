SPECIFICATION FairSpec
CONSTANTS
  s1 = s1
  s2 = s2
  s3 = s3
  i1 = i1
  i2 = i2
  t1 = t1
  t2 = t2
  None = None
  Sockets = {s1, s2, s3}
  Identities = {i1, i2}
  Tokens = {t1, t2}
  Granted = {i1}
  MaxSessions = 2
  PerSession = 1
  MaxAccessInvitations = 2
  Lifetime = 1
  AuthenticationTimeout = 1
  Heartbeat = 2
  CloseTimeout = 1
INVARIANTS
  SessionsAreSound
PROPERTIES
  IdentityStands
  InvitationsAdmitOnce
  SilentSocketsGo
