SPECIFICATION LiveSpec
CONSTANTS
  Procs = {p1, p2}
  r1 = r1
  r2 = r2
  Runs <- MCRuns
  Teams <- MCTeams
  MaxRevision = 3
  MaxFaults = 3
  None = None
CHECK_DEADLOCK FALSE
INVARIANTS
  ThreadIsBacked
PROPERTIES
  ImplementsThreadLog
  WritersAreServed
