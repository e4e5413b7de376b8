SPECIFICATION LiveSpec
CONSTANTS
  Invocations = {p1, p2}
  MaxFaults = 4
  None = None
INVARIANTS
  RunsOnce
  LedgerIsBacked
PROPERTIES
  JournalMovesForward
  RunsEnd
