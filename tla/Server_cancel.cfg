\* A thread is started for a call after serve has left its loop.
SPECIFICATION Spec
CONSTANTS
  Call = {c1, c2}
  ThreadLimit = 2
  None = None
INVARIANT
  OnlyListenerRuns
