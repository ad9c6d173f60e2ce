\* One row, in a database file this source creates.
SPECIFICATION Spec
CONSTANTS
  Items = {i1}
  Queries = {q1}
  Answers = {a1}
  Blank = Blank
  None = None
  Runs = {r1}
  Configs <- SourceConfigs
  MaxCache = 1
  MaxApprovals = 1
  MaxCrashes = 0
INVARIANT FailureIsRecorded
CHECK_DEADLOCK FALSE
