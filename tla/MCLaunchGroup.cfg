SPECIFICATION Spec
CONSTANTS
  Materials = {m1, m2}
  s1 = s1
  s2 = s2
  a1 = a1
  Sessions <- MCSessions
  Attempts <- MCAttempts
  Admin = admin
  Settings <- MCSettings
SYMMETRY Alike
CHECK_DEADLOCK FALSE
INVARIANTS
  UsersKeepTheGroup
  JournalIsTrue
PROPERTIES
  MutationsAreSafe
