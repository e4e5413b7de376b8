SPECIFICATION ArchiveSpec
CONSTANTS
  Conversations = {a, b}
  Calls = {k1, k2, k3}
  Digests = {x, y}
  ArchiveSettings <- MCSettings
SYMMETRY Alike
CHECK_DEADLOCK FALSE
INVARIANTS
  ArchiveIsSound
