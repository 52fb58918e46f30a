--------------------------- MODULE MCUtxoExecutor ---------------------------
(***************************************************************************)
(* Model of UtxoExecutor: two notes, a window of two roots and up to three *)
(* applied deliveries, so that the window overflows.  Slots are used in    *)
(* order: one real key comes first, padding after it; zero stands for an   *)
(* absent output everywhere, and once for an absent nullifier.  A blob may *)
(* list the same key twice.                                                *)
(***************************************************************************)
EXTENDS UtxoExecutor

CreatedPairs == (Note \X CreatedKey) \cup {<<Zero, Zero>>}

NullifiedPairs == (Note \X (Note \cup {PaddingNullifier}))
                    \cup {<<PaddingNullifier, PaddingNullifier>>}
                    \cup ({Zero} \X Note)

MCBlobs == [created : CreatedPairs, nullified : NullifiedPairs]

============================================================================
