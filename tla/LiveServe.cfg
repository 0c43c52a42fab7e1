SPECIFICATION FairSpec
CONSTANTS
  Clients = {c1, c2}
  Viewers = {}
  Subscribers = {c1}
  NoClient = none
  Panes = {p1}
  RootPane = p1
  Manual = {}
  MaxSize = 2
  ReliableCap = 9
  MaxAttaches = 2
  MaxFrames = 2
  MaxCommands = 0
  Environment = {}
INVARIANTS InventoryNeverMissed SmallestWins 
CHECK_DEADLOCK FALSE
PROPERTY EventuallyGone
