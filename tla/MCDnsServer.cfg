SPECIFICATION FairSpec
CONSTANTS
  Labels <- MCLabels
  Zones <- MCZones
  Queries <- MCQueries
  NoQuery = NoQuery
  MaxInbox = 2
  MaxCopies = 1
INVARIANTS
  TypeOK
  OwnRepliesMatchFiles
  RelaysMatchUnlessCopied
PROPERTY
  QueriesServed
CHECK_DEADLOCK FALSE
