SPECIFICATION Spec
CONSTANTS
  Url = {u1, u2}
  Client = {c1, c2}
  Loop = loop
  Nobody = nobody
  Periodic = TRUE
  MaxVersion = 2
  MaxRounds = 3
SYMMETRY Symmetry
INVARIANTS
  TypeOK
  MetricsAddUp
  ErrorMeansAllDegraded
PROPERTIES
  ReadersNeverGoBack
