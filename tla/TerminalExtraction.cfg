SPECIFICATION Spec
CONSTANTS
  Height = 2
  MaxHistory = 3
  Palette = {1, 2}
  Colors = {1, 2, 3}
  Controls = {"vertical_tab", "home", "erase", "enter", "leave", "recolor"}
  MaxOutput = 6
  MaxPanes = 2
INVARIANTS SurfaceIsScreen ScrollbackIsHistory
PROPERTY AlternateKeepsScrollback
CHECK_DEADLOCK FALSE
