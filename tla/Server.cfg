\* Two calls, and threads for both; fairness as in FairSpec.
SPECIFICATION FairSpec
CONSTANTS
  Call = {c1, c2}
  ThreadLimit = 2
  None = None
INVARIANTS
  TypeOK
  ThreadsCounted
PROPERTIES
  LeavesLoopIdle
  NoWorkerAfterJoin
  ImplementsRemoteCall
  ServerTerminates
  EveryCallEnds
