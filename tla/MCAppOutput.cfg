SPECIFICATION OutputSpec
CONSTANTS
  a = a
  b = b
  MaxJobs = 2
  Letter = {a, b}
  Secret <- MCSecret
  MaxRaw = 4
  MaxRows = 4
  MaxLog = 3
  MaxChunks = 2
INVARIANTS WaitInv StreamRedacted LogIsTail
CHECK_DEADLOCK FALSE
