SPECIFICATION Spec
CONSTANTS
  N = 4
  B = 2
  Puzzles <- MCPuzzles
INVARIANTS
  TypeOK
  SearchExact
  CheckNeverFails
PROPERTY SolvesWhatCanBeSolved
CHECK_DEADLOCK FALSE
