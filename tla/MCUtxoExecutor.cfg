SPECIFICATION Spec
CONSTANTS
  Note = {n1, n2}
  Zero = Zero
  PaddingNullifier = PaddingNullifier
  MaxRoots = 2
  Blobs <- MCBlobs
  MaxAccepted = 3
INVARIANTS
  TypeOK
  NullifiedOnce
  CreatedOnce
  WindowIsRecentHistory
  WindowRootsAreGrowing
  LogIsRecorded
PROPERTIES
  ReplayIsHarmless
  ImplementsLedger
