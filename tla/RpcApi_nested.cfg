\* As RpcApi.cfg: a server of two functions, one of which may call the other, and two clients.
SPECIFICATION FairSpec
CONSTANTS
  Server = {s1}
  Client = {p1, p2}
  Function = {f1, f2}
  Nested = {f2}
  Call = {c1, c2}
  MaxFaults = 1
  None = None
PROPERTY
  TerminatedServersEnd
CHECK_DEADLOCK FALSE
