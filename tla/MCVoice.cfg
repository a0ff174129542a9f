SPECIFICATION FairSpec
CONSTANTS
  Links = {l1, l2}
  NoLink = NoLink
  Hangover = 1
  MaxOutgoing = 2
  MaxIncoming = 1
  MaxCommands = 3
  MaxChanges = 1
  MaxPosts = 1
CHECK_DEADLOCK FALSE
INVARIANTS
  HeardAsMeant
  ThreadsAgree
PROPERTIES
  GatesHold
  IndicatorFades
