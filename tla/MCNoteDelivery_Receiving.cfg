SPECIFICATION Spec
CONSTANTS
  f1 = f1
  f2 = f2
  u1 = u1
  u2 = u2
  Tags = {me}
  Me = me
  MaxNotes = 2
  Limit = 2
  Fetches <- MCFetches
  Unreadable = {1}
  MaxUploads = 3
  MaxFailures = 1
  Uploaders <- MCUploaders
  MaxTime = 2
  MaxLogins = 2
SYMMETRY Interchangeable
CHECK_DEADLOCK FALSE
INVARIANT NoNoteIsLost
