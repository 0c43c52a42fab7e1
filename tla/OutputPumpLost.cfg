SPECIFICATION FairSpec
CONSTANTS
  Panes = {p1}
  RootPane = p1
  NoPane = none
  Bytes = {"x"}
  Queries = {}
  PumpBytes = 1
  HandoffBytes = 1
  HandoffChunks = 2
  PipeCap = 1
  TtyCap = 1
  Coalesce = {FALSE}
  MaxOutput = 3
  MaxEvents = 2
PROPERTY AllShown
CHECK_DEADLOCK FALSE
