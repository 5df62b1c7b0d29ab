SPECIFICATION LockFairSpec
CONSTANTS
  Procs = {p1, p2}
  Execs = {1, 2}
  None = None
INVARIANT LockCoversRuns
INVARIANT FencedIsQuiet
INVARIANT LockIsReturned
PROPERTY LossDrains
