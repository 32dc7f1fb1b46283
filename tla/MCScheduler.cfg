\* Three tasks, five workloads.
SPECIFICATION MCSpec
CONSTANTS
  t1 = t1
  t2 = t2
  t3 = t3
  Tasks = {t1, t2, t3}
  Main = Main
  None = None
  AtEnd = AtEnd
  Ops = {}
  CbOps = {"cancel", "set", "run", "eager", "spawn", "stop"}
  Mode = "forever"
  Target = t1
  YieldEvery = 1
  Positions = {}
  MaxTime = 2
  MaxReady = 2
  MaxPosts = 2
INVARIANTS
  TypeOK
  LinksAgree
  MainReachable
  NoTaskLost
  NoLostWakeup
  BatchesBounded
PROPERTIES
  ParksEndForCause
SYMMETRY Symmetry
