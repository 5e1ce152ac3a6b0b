SPECIFICATION Spec
CONSTANTS
  MaxRuns = 3
  Histories <- MCHistories
  Enough <- MCEnough
INVARIANTS
  KeysAreKept
  KeysStayPrivate
  RerunRepairs
CHECK_DEADLOCK FALSE
