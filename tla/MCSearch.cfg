SPECIFICATION Spec
CONSTANTS
  Letters = {"x", "y"}
  StopWords <- Stops
  Collections <- DocLists
  MaxTyped = 6
  MaxBody = 5
INVARIANTS
  EchoMeansTheSame
  IndexReadsProse
  FindsWhatIsAskedFor
PROPERTIES
  HalfTypedIsWhole
CHECK_DEADLOCK FALSE
