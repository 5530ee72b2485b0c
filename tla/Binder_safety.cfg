\* Two servers, two functions and one client, two of which may crash; addresses
\* are unique among open connections.
SPECIFICATION Spec
CONSTANTS
  Addr = {a1, a2}
  Signature = {g1, g2}
  None = None
  TimeMod = 16
  MaxTime = 4
  AddrReuse = FALSE
  ServerSocket = {s1, s2}
  ClientSocket = {c1}
  MaxCrashes = 2
INVARIANTS
  TypeOK
  ServerIsLocatable
  TerminationReported
  AnswersMatchRequests
PROPERTY
  ImplementsDatabase
SYMMETRY
  Symmetry
