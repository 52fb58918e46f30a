--------------------------- MODULE MCNoteDelivery ---------------------------
(***************************************************************************)
(* Model of NoteDelivery: one recipient with a queue of two notes and      *)
(* pages of two, three uploads, the first of them unreadable, two fetches  *)
(* at a time and one failed request.                                       *)
(***************************************************************************)
EXTENDS NoteDelivery, TLC

CONSTANTS f1, f2, u1, u2

MCFetches == {f1, f2}
MCUploaders == {u1, u2}

(* Fetches, and upload handlers, are interchangeable; not used with the    *)
(* liveness property, for which TLC's symmetry reduction is not sound.     *)
Interchangeable == Permutations(MCFetches) \cup Permutations(MCUploaders)
============================================================================
