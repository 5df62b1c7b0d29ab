SPECIFICATION FairSpec
CONSTANTS
  Tasks = {t1, t2, t3, t4, t5}
  Capacity = 2
  MaxWaiters = 2
INVARIANT SlotsConserved
PROPERTY ImplementsPool
PROPERTY WaiterServed
