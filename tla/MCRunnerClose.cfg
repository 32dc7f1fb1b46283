\* A hosted scheduler whose task raises KeyboardInterrupt, and aclose().
SPECIFICATION LiveSpec
CONSTANTS
  t1 = t1
  t2 = t2
  t3 = t3
  Tasks = {t1, t2}
  Main = Main
  None = None
  AtEnd = AtEnd
  Ops = {}
  CbOps = {}
  Mode = "forever"
  Target = t1
  YieldEvery = 0
  Positions = {}
  MaxTime = 0
  MaxReady = 0
  MaxPosts = 0
INVARIANT ShutdownDrains
CHECK_DEADLOCK FALSE
