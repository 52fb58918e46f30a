SPECIFICATION Spec
CONSTANTS
  tab1 = tab1
  tab2 = tab2
  Tabs <- MCTabs
  Coins = {10, 11}
  MaxRoots = 1
  PendingTimeout = 1
  MaxTime = 1
  MaxTxs = 2
  MaxFaults = 0
  MaxOthers = 0
SYMMETRY TabSymmetry
CHECK_DEADLOCK FALSE
INVARIANT PendingPreventsDoubleSpend
