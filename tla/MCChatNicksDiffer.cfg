SPECIFICATION Spec
CONSTANTS
  Fds = {f1, f2}
  NickArgs = {alice}
  ChanArgs = {room}
  Texts = {hello}
  NoName = NoName
  NoTopic = NoTopic
  None = None
  MaxChannels = 1
INVARIANT NicksDiffer
\* a dead process takes no step
CHECK_DEADLOCK FALSE
