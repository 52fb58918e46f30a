--------------------------- MODULE MCProvingBatch ---------------------------
(***************************************************************************)
(* Model of ProvingBatch: two notes, a window of two roots, three          *)
(* transactions in batches of up to three.  Transactions mint, transfer    *)
(* and burn with any claimed root; some have a faulty inclusion blob or a  *)
(* faulty set of callees.                                                  *)
(***************************************************************************)
EXTENDS ProvingBatch

CONSTANTS n1, n2

MCNote == {n1, n2}

Pad == PaddingNullifier

MCBlobs == [created   : {<<Zero, Zero>>, <<n1, Zero>>, <<Zero, n2>>, <<n1, n2>>},
            nullified : {<<Pad, Pad>>, <<n1, Pad>>, <<n1, n2>>}]

WellFormed(blob, root, callees) ==
  [blob |-> blob, smt_nullifiers |-> blob.nullified, notes_root |-> root,
   callees |-> callees]

Mint == [created |-> <<n1, Zero>>, nullified |-> <<Pad, Pad>>]

MCCalldatas ==
  {WellFormed(b, r, <<"smt_incl">>) : b \in MCBlobs, r \in SUBSET MCNote}
  \cup {WellFormed(Mint, {}, cs) :
          cs \in {<<"token", "smt_incl">>, <<"token">>, <<"smt_incl", "token", "token">>,
                  <<"smt_incl", "smt_incl">>, <<"smt_incl", "other">>}}
  \cup {[WellFormed(Mint, {}, <<"smt_incl">>) EXCEPT !.smt_nullifiers = <<Pad, n1>>]}
============================================================================
