SPECIFICATION FairSpec
CONSTANTS
  Labels <- MCLabels
  Zones <- MCZones
  Queries <- MCPlainQueries
  NoQuery = NoQuery
  MaxInbox = 1
  MaxCopies = 0
PROPERTY
  OwnQueriesAnswered
CHECK_DEADLOCK FALSE
