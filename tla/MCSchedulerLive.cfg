\* Two tasks, a thread that posts, and stop() from everywhere; or a hosted scheduler.
SPECIFICATION LiveSpec
CONSTANTS
  t1 = t1
  t2 = t2
  t3 = t3
  Tasks = {t1, t2}
  Main = Main
  None = None
  AtEnd = AtEnd
  Ops = {"yield", "sleep", "wait", "set", "stop", "thread_stop"}
  CbOps = {"set", "stop"}
  Mode = "forever"
  Target = t1
  YieldEvery = 0
  Positions = {}
  MaxTime = 2
  MaxReady = 1
  MaxPosts = 2
INVARIANTS
  HostedWakes
PROPERTIES
  WorkRuns
  
CHECK_DEADLOCK FALSE
