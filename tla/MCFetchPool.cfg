SPECIFICATION FairSpec
CONSTANTS
  Sources <- ThreeSources
  HostOf <- TwoHosts
  h1 = h1
  h2 = h2
  Host = {h1, h2}
  Workers = 2
  Worker = {w1, w2}
  Interval = 1
  Timeout = 1
  Cached <- Caches
INVARIANTS
  TypeOK
  ResultsMatchCache
PROPERTIES
  RequestsArePolite
  ImplementsFetchAll
  FetchAllReturns
