\* Two servers and one client, fairness as in FairSpec.
SPECIFICATION FairSpec
CONSTANTS
  Addr = {a1, a2}
  Signature = {g1}
  None = None
  TimeMod = 16
  MaxTime = 3
  AddrReuse = FALSE
  ServerSocket = {s1, s2}
  ClientSocket = {c1}
  MaxCrashes = 1
PROPERTIES
  DeadServersForgotten
  EveryRequestEnds
  TerminateStopsAll
