SPECIFICATION FairSpec
CONSTANTS
  Sessions = {s1}
  Panes = {p1, p2}
  RootPane = p1
  SnapshotBytes = 2
  PatchBytes = 1
  SurfaceByteCap = 4
  WireCap = 2
  MaxVersion = 3
  MaxGeneration = 1
  MaxAttaches = 2
PROPERTIES EventuallyInSync CacheOnlyMovesForward
CHECK_DEADLOCK FALSE
