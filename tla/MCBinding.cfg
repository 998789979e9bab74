SPECIFICATION Spec
CONSTANTS
  Threads = {t1, t2}
  Objects = {o1, o2}
  MaxStarts = 2
  MaxHandle = 2
  Free = Free
INVARIANTS RunningIsServing RegisteredOwned NoOrphan AccessUncontended
PROPERTY CallsReturn
