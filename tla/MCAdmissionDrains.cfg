SPECIFICATION Spec
CONSTANTS
  alice = alice
  Projects = {p1}
  Owner <- SameOwner
  Capacity = 1
  MaxWaiters = 1
  OwnerQuota = 2
  Pausers = {a1}
  Deletable = {}
  MayStop = FALSE
  MaxTasks = 2
  MaxExecs = 2
  MaxFaults = 0
INVARIANT AdmissionDrains
CHECK_DEADLOCK FALSE
