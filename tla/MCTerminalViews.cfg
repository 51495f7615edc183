SPECIFICATION ViewsSpec
CONSTANTS
  Session = {s1}
  Pane = {p1, p2}
  Run = {r1, r2}
  NoRun = NoRun
  MaxShells = 1
  MaxOutput = 1
  MaxQueued = 1
INVARIANTS ViewsInv ScreenFaithful
PROPERTIES KeysReachTheirTerminal
CHECK_DEADLOCK FALSE
SYMMETRY Names
CONSTRAINTS UntilUnsafe ResizedWhileWatched
