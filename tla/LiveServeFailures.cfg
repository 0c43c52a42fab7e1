SPECIFICATION Spec
CONSTANTS
  Clients = {c1, c2}
  Viewers = {c2}
  Subscribers = {c1, c2}
  NoClient = none
  Panes = {p1, p2}
  RootPane = p1
  Manual = {p1}
  MaxSize = 2
  ReliableCap = 2
  MaxAttaches = 2
  MaxFrames = 1
  MaxCommands = 2
  Environment = {"early_close", "exit", "close_tab", "new_tab", "user_resize", "unknown_pane"}
INVARIANTS TypeOK InventoryAgrees
CHECK_DEADLOCK FALSE
