\* A child that is started eagerly cancels the parent.
SPECIFICATION MCSpec
CONSTANTS
  c1 = c1
  c2 = c2
  c3 = c3
  Parent = Parent
  Driver = Driver
  None = None
  Children = {c1, c2, c3}
  Cancels = TRUE
  Eager = {c1, c2, c3, Parent}
  ChildCancels = TRUE
  MaxCancels = 2
INVARIANT JoinsAll
SYMMETRY Symmetry
CHECK_DEADLOCK FALSE
