SPECIFICATION Spec
CONSTANTS
  Clients = {c1, c2, c3}
  None = None
  MaxSlots = 2
  MaxGhosts = 1
  MaxWaiting = 1
  Junk = {TRUE}
INVARIANTS
  TypeOK
  ReadsWhatIsThere
  CountsAgree
PROPERTIES
  NamesFollowed
  EveryoneRead
\* A dead server, and clients that nobody looks at, do nothing.
CHECK_DEADLOCK FALSE
