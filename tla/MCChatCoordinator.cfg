SPECIFICATION LiveSpec
CONSTANTS
  Settings <- MCSettings
CHECK_DEADLOCK FALSE
INVARIANTS
  AgentKnows
  ConversationIsSound
PROPERTIES
  TurnsComeToRest
