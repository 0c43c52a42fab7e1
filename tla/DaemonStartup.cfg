SPECIFICATION Spec
CONSTANTS
  Launchers = {a, b}
  Daemons = {d1, d2, d3}
  NoSocket = none
  Beginnings = {"none", "broken", "stale"}
  MaxMishaps = 1
INVARIANT Shared
PROPERTIES Recovered EventuallySettled
CHECK_DEADLOCK FALSE
