SPECIFICATION Spec
CONSTANTS
  Cmd = 3
  Sink = 4
  Clients = {5, 6, 7}
  Modulus = 8
  MaxSent = 2
  MaxLines = 1
  MaxRequests = 3
INVARIANTS
  TypeOK
  ClientsCounted
  BytesAccounted
  NeverBlocks
PROPERTY
  ClientsServed
