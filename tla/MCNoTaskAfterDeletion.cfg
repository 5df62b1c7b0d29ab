SPECIFICATION Spec
CONSTANTS
  alice = alice
  Projects = {p1}
  Owner <- SameOwner
  Capacity = 1
  MaxWaiters = 1
  OwnerQuota = 2
  Pausers = {}
  Deletable = {p1}
  MayStop = FALSE
  MaxTasks = 2
  MaxExecs = 2
  MaxFaults = 0
PROPERTY NoTaskAfterDeletion
CHECK_DEADLOCK FALSE
