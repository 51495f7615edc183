SPECIFICATION Spec
CONSTANTS
  Session = {alice, root}
  NoOne = NoOne
  TurnId = {t1, t2}
  NoTurn = NoTurn
  Lease = 1
  Hold = 1
  MaxParticipants = 2
  Token = {k1, k2}
  NoToken = NoToken
  Modes = {FALSE}
  Faults = {"stop", "launch", "exit", "disk"}
  MaxWrites = 2
  Departing = {}
  Admins = {root}
  MaxJournal = 2
  MaxClears = 1
INVARIANTS SessionInv EndOnItsWay
PROPERTIES OneContainer
CHECK_DEADLOCK FALSE
SYMMETRY RandomIds
CONSTRAINT EntersOnly
