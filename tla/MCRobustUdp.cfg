SPECIFICATION Spec
CONSTANTS
  Last = 2
  Stride = 2
  Window = 2
INVARIANTS
  TypeOK ForgottenIsStored FileInOrder
PROPERTIES
  ImplementsTransfer ServerFinishes
\* the client or the server may end, and the link be empty
CHECK_DEADLOCK FALSE
