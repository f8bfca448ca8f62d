SPECIFICATION Spec
CONSTANTS
  Lines <- HandLines
  MaxLines = 5
  Labels <- ListLabels
  Urls <- ListUrls
  MaxOutlines = 3
  Letters = {"n", "x", "i"}
  MaxTitle = 4
INVARIANTS
  NothingIsLost
  ImportLoads
  GroupingSurvives
  ExportKeepsFeeds
  RuleSurvives
CHECK_DEADLOCK FALSE
