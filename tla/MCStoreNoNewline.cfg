SPECIFICATION Spec
CONSTANTS
  Id = {a, b}
  MaxTime = 2
  MaxLines = 4
  MaxPending = 1
  CompactMin = 2
  Faults = {"noeol"}
SYMMETRY Symmetry
INVARIANTS
  LogStaysReadable
