SPECIFICATION SubagentsSpec
CONSTANTS
  Child = {c1}
  c1 = c1
  Root = Root
  MaxPanes = 1
  MaxJobs = 2
  MaxHooks = 5
  MaxOutput = 1
INVARIANTS RootClaims Settled

PROPERTIES StoppedLeaves
CHECK_DEADLOCK FALSE
