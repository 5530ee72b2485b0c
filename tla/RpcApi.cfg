\* A server of two functions, one of which may call the other, and two clients.
SPECIFICATION FairSpec
CONSTANTS
  Server = {s1}
  Client = {p1, p2}
  Function = {f1, f2}
  Nested = {f2}
  Call = {c1, c2}
  MaxFaults = 1
  None = None
INVARIANTS
  TypeOK
  RefusedMeansBinderLost
PROPERTIES
  ImplementsRemoteCall
  EveryCallEnds
  ServersEnd
\* The system stops when no process is left to call, and when messages cross.
CHECK_DEADLOCK FALSE
