\* Two workers and main; three throws, or two of what is thrown or queued; or greenlets.
SPECIFICATION MCSpec
CONSTANTS
  Main = Main
  None = None
  w1 = w1
  w2 = w2
  Workers = {w1, w2}
  MaxTokens = 3
  Queueing = FALSE
INVARIANTS
  RegistryKept
  ThrowsDelivered
  BooksKept
PROPERTIES
  DeathsRedirect
SYMMETRY Symmetry
CHECK_DEADLOCK FALSE
