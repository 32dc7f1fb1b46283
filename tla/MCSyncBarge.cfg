\* A lock, asked for between a release and the turn of its waiter.
SPECIFICATION Spec
CONSTANTS
  t1 = t1
  t2 = t2
  t3 = t3
  t4 = t4
  Unused = Unused
INVARIANT MutualExclusion
