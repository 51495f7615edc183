SPECIFICATION FairFloorSpec
CONSTANTS
  Session = {alice, bob, carol}
  NoOne = NoOne
  TurnId = {t1, t2}
  NoTurn = NoTurn
  Lease = 3
  Hold = 2
  MaxParticipants = 2
INVARIANTS FloorInv
PROPERTIES LeaseKept ImplementsFloorControl LeaseEndsOnceEnterStops StageFreesItself
