SPECIFICATION PanesSpec
CONSTANTS
  Session = {root}
  NoOne = NoOne
  TurnId = {t1, t2}
  NoTurn = NoTurn
  Lease = 1
  Hold = 1
  MaxParticipants = 1
  PaneId = {a, b, c}
  Agent = Agent
  NoPane = NoPane
  Run = {r1}
  NoRun = NoRun
  Kinds = {"context", "review", "terminal"}
  MaxVisible = 2
  MaxSaved = 1
INVARIANTS PanesInv
PROPERTIES PassedMeansRan LogsFinal
CHECK_DEADLOCK FALSE
SYMMETRY AnyIds
CONSTRAINT SecondJobRuns
