SPECIFICATION FairSpec
CONSTANTS
  alice = alice
  Projects = {p1}
  Owner <- SameOwner
  Capacity = 1
  MaxWaiters = 1
  OwnerQuota = 2
  Pausers = {}
  Deletable = {p1}
  MayStop = TRUE
  MaxTasks = 2
  MaxExecs = 1
  MaxFaults = 1
INVARIANT ActiveRowsOwned
PROPERTY TerminalCheckpointsStay
PROPERTY RowsSettle
CHECK_DEADLOCK FALSE
