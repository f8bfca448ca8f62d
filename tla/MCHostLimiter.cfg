SPECIFICATION FairSpec
CONSTANTS
  Caller = {c1, c2, c3}
  Host = {h1, h2}
  Interval = 2
INVARIANTS
  TypeOK
  GateHasOneOwner
PROPERTIES
  ImplementsRateLimit
  AcquireReturns
