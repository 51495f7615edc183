SPECIFICATION FairSpec
CONSTANTS
  Session = {alice}
  NoOne = NoOne
  TurnId = {t1}
  NoTurn = NoTurn
  Lease = 1
  Hold = 1
  MaxParticipants = 1
  Token = {k1}
  NoToken = NoToken
  Modes = {FALSE}
  Faults = {"stop", "launch", "exit", "disk", "unsafe"}
  MaxWrites = 1
  Departing = {}
  Admins = {}
  MaxJournal = 2
  MaxClears = 1
INVARIANTS ContainerAccounted
PROPERTIES WritersReturn
CHECK_DEADLOCK FALSE
