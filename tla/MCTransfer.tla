----------------------------- MODULE MCTransfer -----------------------------
(***************************************************************************)
(* Model of Transfer with two tabs and two transfers, the second of which  *)
(* may spend the change of the first.  MCTransfer.cfg has one note, one    *)
(* fault and one settlement of somebody else, which pushes the root of a   *)
(* transfer under way out of a window of one; MCTransfer_Pending.cfg lets  *)
(* the tabs compete for two notes without faults.                          *)
(***************************************************************************)
EXTENDS Transfer, TLC

CONSTANTS tab1, tab2

MCTabs == {tab1, tab2}

(* Tabs are interchangeable. *)
TabSymmetry == Permutations(MCTabs)
============================================================================
