SPECIFICATION Spec
CONSTANTS
  tab1 = tab1
  tab2 = tab2
  Tabs <- MCTabs
  Coins = {10}
  MaxRoots = 1
  PendingTimeout = 1
  MaxTime = 1
  MaxTxs = 2
  MaxFaults = 1
  MaxOthers = 1
SYMMETRY TabSymmetry
CHECK_DEADLOCK FALSE
INVARIANTS
  TypeOK
  
  
  StoredChangeIsSubmitted
