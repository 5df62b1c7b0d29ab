SPECIFICATION FairSpec
CONSTANTS
  Callers = {c1, c2}
  Others = {o1}
  Capacity = 1
  MaxWaiters = 1
  Attempts = 2
  Dims = {1, 2}
  MaxBatches = 2
  MaxTargets = 1
  MaxFaults = 1
INVARIANT EndedIsClosed
INVARIANT OpenWithinCapacity
INVARIANT VectorsFit
PROPERTY EveryCallEnds
CHECK_DEADLOCK FALSE
