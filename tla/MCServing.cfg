SPECIFICATION Spec
CONSTANTS
  Id = {1, 2, 4, 5, 13}
  Link = {2, 4, 5}
  NoLink = 0
  NoId = 0
  Hash <- HashOf
  Word = {1, 2, 3}
  MaxDate = 3
  TitleMin = 60
  TitleWindow = 1
  ContentMin = 60
  Inputs <- Upto3
  Rules <- FilterSet
  MaxItems = 2
  Searches <- SavedSearches
  Asked <- SearchAsked
  MaxRounds = 2
INVARIANTS
  TypeOK
  IdsUnique
  FirstCopyStands
  NotModifiedShowsTheSame
  PublishedPassFilters
  NewestArePublished
  RelayKeepsEntries
PROPERTIES
  KeptIsNew
