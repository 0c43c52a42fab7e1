SPECIFICATION Spec
CONSTANTS
  InitialSize = 2
  NoName = NoName
  work = work
  SessionIds = {local, other}
  Default = local
  TabNames <- MCTabNames
  Modes = {"registry", "live"}
  Sizes = {1}
  MaxVersion = 7
  MaxMishaps = 1
INVARIANTS
  TypeOK
  HostMatchesTree
  TraceReplays
  NextPaneIsFree
  KillStopsDefault
PROPERTIES
  RefusalsChangeNothing
  VersionMovesWithTree
  OnlyTheNamedSession
CHECK_DEADLOCK FALSE
