SPECIFICATION AnswersSpec
CONSTANTS
  Pane = {p, s, t}
  SecretPane = {s, t}
  Request = {r1, r2, r3}
  None = None
  MaxJobs = 2
  MaxPublished = 2
INVARIANTS AcknowledgedIsRead NoSecretLost JobHasWorker
CHECK_DEADLOCK FALSE
SYMMETRY AnyIds
