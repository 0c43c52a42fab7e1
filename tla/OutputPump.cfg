SPECIFICATION FairSpec
CONSTANTS
  Panes = {p1, p2}
  RootPane = p1
  NoPane = none
  Bytes = {"x", "?"}
  Queries = {"?"}
  PumpBytes = 1
  HandoffBytes = 1
  HandoffChunks = 2
  PipeCap = 1
  TtyCap = 1
  Coalesce = {TRUE, FALSE}
  MaxOutput = 2
  MaxEvents = 2
INVARIANTS TypeOK WakeUpPending
PROPERTIES InOrder ShownUnlessDiscarded CloseReturns
CHECK_DEADLOCK FALSE
