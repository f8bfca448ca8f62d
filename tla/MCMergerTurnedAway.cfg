SPECIFICATION Spec
CONSTANTS
  Url = {u1, u2}
  Client = {c1}
  Loop = loop
  Nobody = nobody
  Periodic = TRUE
  MaxVersion = 1
  MaxRounds = 3
INVARIANTS
  GoodSnapshotIsServed
