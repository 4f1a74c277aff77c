SPECIFICATION Spec
CONSTANTS
  Listen = 3
  Clients = {4, 5, 6}
  MaxBacklog = 2
  MaxInput = 2
INVARIANTS
  TypeOK NeverBlocks
PROPERTIES
  LeavesAtMostTheHighest InputIsRead
