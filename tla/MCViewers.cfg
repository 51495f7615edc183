SPECIFICATION FairViewersSpec
CONSTANTS
  Project = {base, other}
  Gone = Gone
  Own = Own
  NoText = NoText
  MaxInbox = 1
INVARIANTS ViewersInv
PROPERTIES ActsWhereShown SessionKept Follows
