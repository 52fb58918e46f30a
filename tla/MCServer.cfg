CONSTANTS
  m1 = m1
  d1 = d1
  c1 = c1
  Zero = Zero
  PaddingNullifier = PaddingNullifier
  None = None
  LocalId = local
  Contested = {"utxo"}
  ProgramId = {local, foreign}
  Note <- MCTx
  Tx <- MCTx
  Kind <- MCKind
  Spends <- MCSpends
  MaxRoots = 1
  MaxAttempts = 2
  MaxFaults = 1
SPECIFICATION FairSpec
INVARIANTS
  TypeOK
  MismatchWasNotCompared

  
  
CHECK_DEADLOCK FALSE
