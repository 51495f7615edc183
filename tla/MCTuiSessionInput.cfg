SPECIFICATION Spec
CONSTANTS
  Session = {alice, bob, root}
  NoOne = NoOne
  TurnId = {t1}
  NoTurn = NoTurn
  Lease = 1
  Hold = 1
  MaxParticipants = 3
  Token = {k1}
  NoToken = NoToken
  Modes = {FALSE, TRUE}
  Faults = {"stop", "exit"}
  MaxWrites = 2
  Departing = {root}
  Admins = {root}
  MaxJournal = 2
  MaxClears = 2
PROPERTIES OnlyDriverTypes ReturnedDraftErased
CHECK_DEADLOCK FALSE
SYMMETRY Alike
