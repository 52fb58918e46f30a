SPECIFICATION Spec
CONSTANTS
  n1 = n1
  n2 = n2
  Note <- MCNote
  Zero = Zero
  PaddingNullifier = PaddingNullifier
  MaxRoots = 2
  Calldatas <- MCCalldatas
  MaxTxs = 3
  MaxBatch = 3
INVARIANT AppliedToOwnWitness
CHECK_DEADLOCK FALSE
