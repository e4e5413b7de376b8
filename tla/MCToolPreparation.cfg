SPECIFICATION Live
CONSTANTS
  ACQUIRE_MAX_ATTEMPTS = 3
  Settings <- MCSettings
INVARIANTS
  ReadyIsProven
PROPERTIES
  EndedSmokeStays
  InvocationsSucceed
