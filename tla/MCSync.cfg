\* One object, met by three or four tasks, or one combinator of futures.
SPECIFICATION Spec
CONSTANTS
  t1 = t1
  t2 = t2
  t3 = t3
  t4 = t4
  Unused = Unused
INVARIANTS
  SlotsConserved
  NotifyReaches
  BarrierCounts
  QueueServes
  ChannelExact
  CombinesRight
PROPERTY WaitsEnd
