---------------------------- MODULE MCNoteStore ----------------------------
(***************************************************************************)
(* Model of NoteStore.  Three handlers: one may rename the file that       *)
(* another has just created, after a third has renamed its own.  Three     *)
(* changes fill a queue of two notes and evict or delete from it.          *)
(***************************************************************************)
EXTENDS NoteStore, TLC

CONSTANTS h1, h2, h3

MCHandlers == {h1, h2, h3}

(* Handlers are interchangeable. *)
HandlerSymmetry == Permutations(MCHandlers)
============================================================================
