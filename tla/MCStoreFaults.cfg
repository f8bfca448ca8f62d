SPECIFICATION Spec
CONSTANTS
  Id = {a, b}
  MaxTime = 2
  MaxLines = 4
  MaxPending = 1
  CompactMin = 3
  Faults = {"oversize", "write", "sync", "rewrite", "syncdir", "kill"}
SYMMETRY Symmetry
INVARIANTS
  IndexMatchesLog
  LogStaysReadable
  EachRecordChanges
PROPERTIES
  ImplementsDurableMap
