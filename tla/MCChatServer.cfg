SPECIFICATION Spec
CONSTANTS
  Fds = {f1, f2, f3}
  NickArgs = {alice, bob}
  ChanArgs = {room}
  Texts = {hello}
  NoName = NoName
  NoTopic = NoTopic
  None = None
  MaxChannels = 2
SYMMETRY ClientNickSymmetry
INVARIANTS
  TypeOK MembershipSymmetric NamesSound SlotsMatchUsers DiesOfLeftoverLineOnly
  ChannelsStayNamed
PROPERTIES
  OnlyOwnCommandMovesMember ImplementsMembership
\* a dead process takes no step
CHECK_DEADLOCK FALSE
