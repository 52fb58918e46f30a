------------------------------ MODULE MCServer ------------------------------
EXTENDS Server, TLC

CONSTANTS m1, d1, c1

MCTx == {m1, d1, c1}
MCKind == (m1 :> "mint") @@ (d1 :> "deposit") @@ (c1 :> "client")
MCSpends == [t \in MCTx |-> IF t = c1 THEN m1 ELSE None]
============================================================================
