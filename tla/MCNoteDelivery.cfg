SPECIFICATION FairSpec
CONSTANTS
  f1 = f1
  f2 = f2
  u1 = u1
  u2 = u2
  Tags = {me}
  Me = me
  MaxNotes = 2
  Limit = 2
  Fetches <- MCFetches
  Unreadable = {1}
  MaxUploads = 3
  MaxFailures = 1
  Uploaders = {u1}
  MaxTime = 2
  MaxLogins = 2
CHECK_DEADLOCK FALSE
INVARIANTS
  TypeOK
  
  AddedOnce
 
