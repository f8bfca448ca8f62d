SPECIFICATION FairServe
CONSTANTS
  Url = {u1}
  Client = {c1, c2}
  Loop = loop
  Nobody = nobody
  Periodic = TRUE
  MaxVersion = 2
  MaxRounds = 3
INVARIANTS
  ServeTypeOK
  CleanExit
PROPERTIES
  ProcessEnds
  FeedRequestsEnd
CHECK_DEADLOCK FALSE
