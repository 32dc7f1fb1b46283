\* Three queued children, two eager ones, three tasks with priorities, or two
\* runners.
SPECIFICATION MCSpec
CONSTANTS
  c1 = c1
  c2 = c2
  c3 = c3
  Parent = Parent
  Driver = Driver
  None = None
  Children = {c1, c2, c3}
  Cancels = TRUE
  Eager = {c1, c2, c3, Parent}
  ChildCancels = TRUE
  MaxCancels = 2
INVARIANTS
  QueuedJoinsAll
  ParentParked
  RightException
  PriorityKept
SYMMETRY Symmetry
CHECK_DEADLOCK FALSE
