SPECIFICATION Spec
CONSTANTS
  Last = 1
  Stride = 2
  Window = 2
INVARIANTS
  FilesReadyWhenClientEnds
CHECK_DEADLOCK FALSE
