SPECIFICATION Spec
CONSTANTS
  Height = 2
  MaxHistory = 9
  Palette = {1}
  Colors = {1}
  Controls = {}
  MaxOutput = 6
  MaxPanes = 1
PROPERTY HistoryMovesVersion
CHECK_DEADLOCK FALSE
