SPECIFICATION Spec
CONSTANTS
  Last = 2
  MaxCopies = 2
INVARIANTS
  TypeOK HolesAreCopies FilesReadyWhenClientEnds
PROPERTIES
  ImplementsTransfer TransferEnds
\* The processes end.
CHECK_DEADLOCK FALSE
