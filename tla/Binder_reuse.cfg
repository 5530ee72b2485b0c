\* A server is started at the address of one that has crashed, before the
\* binder has seen the old connection closed.
SPECIFICATION Spec
CONSTANTS
  Addr = {a1, a2}
  Signature = {g1, g2}
  None = None
  TimeMod = 16
  MaxTime = 4
  AddrReuse = TRUE
  ServerSocket = {s1, s2}
  ClientSocket = {c1}
  MaxCrashes = 2
INVARIANT
  ServerIsLocatable
SYMMETRY
  Symmetry
