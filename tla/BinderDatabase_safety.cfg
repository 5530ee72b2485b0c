\* Addresses are unique among open connections, time_ does not wrap.
SPECIFICATION Spec
CONSTANTS
  Addr = {a1, a2, a3}
  Socket = {k1, k2, k3}
  Signature = {g1, g2}
  None = None
  TimeMod = 16
  MaxTime = 5
  AddrReuse = FALSE
INVARIANTS
  TypeOK
  StructuresAgree
  RegisteredIsQueued
  NoDanglingSocket
  JustLocatedIsLast
PROPERTY
  ImplementsRoundRobin
