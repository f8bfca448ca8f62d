SPECIFICATION Spec
CONSTANTS
  Id = {a, b}
  MaxTime = 2
  MaxLines = 4
  MaxPending = 1
  CompactMin = 3
  Faults = {"write", "reopen", "noeol"}
SYMMETRY Symmetry
INVARIANTS
  TypeOK
PROPERTIES
  CompactionMends
