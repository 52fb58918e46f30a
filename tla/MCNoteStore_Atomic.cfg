SPECIFICATION Spec
CONSTANTS
  h1 = h1
  h2 = h2
  h3 = h3
  Handlers <- MCHandlers
  Inodes = {1, 2, 3, 4}
  MaxVersion = 3
  MaxCrashes = 1
  MaxErrors = 1
  Tags = {t1, t2}
  MaxNotes = 2
  Limit = 2
SYMMETRY HandlerSymmetry
CHECK_DEADLOCK FALSE
INVARIANT FileIsNeverTorn
