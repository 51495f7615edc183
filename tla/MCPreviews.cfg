SPECIFICATION PreviewSpec
CONSTANTS
  Run = {r1, r2}
  NoRun = NoRun
  Log = {l1}
  Visitor = {v1}
INVARIANTS PreviewsInv NoneOutlivesStop TargetIsCurrent NothingWaitsForItself NoStaleConnection
CHECK_DEADLOCK FALSE
SYMMETRY Requests
