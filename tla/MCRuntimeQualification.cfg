SPECIFICATION LiveSpec
CONSTANTS
  o1 = o1
  o2 = o2
  Operators <- MCOperators
  Nobody = Nobody
  Settings <- MCSettings
CHECK_DEADLOCK FALSE
INVARIANTS
  AttemptIsSound
PROPERTIES
  OutcomeIsFinal
  StartedAttemptStops
