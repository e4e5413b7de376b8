SPECIFICATION RuntimeLive
CONSTANTS
  Chats = {"c1", "c2"}
  Ops = {"o1"}
  RuntimeSettings <- MCSettings
CHECK_DEADLOCK FALSE
INVARIANTS
  ProviderIsExact
PROPERTIES
  IdleProviderStops
