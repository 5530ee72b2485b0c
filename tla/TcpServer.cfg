\* Two descriptors besides the listener's for four connections: every one is
\* reused, and accept fails at the limit.
SPECIFICATION FairSpec
CONSTANTS
  Conn = {c1, c2, c3, c4}
  FdLimit = 3
  FdSetSize = 3
  None = None
  Listening = Listening
INVARIANTS
  TypeOK
  MasterTracksConnections
  SocketsOwnDescriptors
  NeverAborts
PROPERTIES
  ImplementsConnectionPool
  DescriptorsComeBack
