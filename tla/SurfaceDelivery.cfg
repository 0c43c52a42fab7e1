SPECIFICATION Spec
CONSTANTS
  Sessions = {s1}
  Panes = {p1, p2}
  RootPane = p1
  SnapshotBytes = 2
  PatchBytes = 1
  SurfaceByteCap = 3
  WireCap = 2
  MaxVersion = 3
  MaxGeneration = 2
  MaxAttaches = 2
INVARIANTS TypeOK NeverRejected QuiescentAgreement 
CHECK_DEADLOCK FALSE
