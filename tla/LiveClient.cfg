SPECIFICATION FairSpec
CONSTANTS
  p1 = p1
  p2 = p2
  p3 = p3
  Panes = {p1, p2, p3}
  Tabs <- MCTabs
  Chars = {"x"}
  Space = " "
  Height = 1
  Cols = 2
  NoGuess = NoGuess
  NoSurface = NoSurface
  NoText = NoText
  NoView = NoView
  NoFetch = NoFetch
  MaxMisses = 1
  RecoveryKeys = 1
  ViewRows = 1
  FirstLines = 2
  Scenarios <- MCScenarios
INVARIANTS TypeOK ScreenIsTrue GuessFits  PatchesFit OneFetch
PROPERTY ScrollReturns
CHECK_DEADLOCK FALSE
