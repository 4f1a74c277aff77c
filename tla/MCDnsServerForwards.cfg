SPECIFICATION Spec
CONSTANTS
  Labels <- MCLabels
  Zones <- MCZones
  Queries <- MCQueries
  NoQuery = NoQuery
  MaxInbox = 1
  MaxCopies = 0
INVARIANT
  ForwardsForeignOnly
CHECK_DEADLOCK FALSE
