------------------------------- MODULE Ledger -------------------------------
(***************************************************************************)
(* What the contract hyli-utxo-state promises, without its trees: a book   *)
(* of settled transactions in which every note is created at most once and *)
(* spent at most once, and nothing is ever crossed out.                    *)
(***************************************************************************)
EXTENDS Integers, Sequences

CONSTANT Note

VARIABLE book   \* the settled transactions, the oldest first

Transaction == [created : SUBSET Note, spent : SUBSET Note]

Created(b) == UNION {b[i].created : i \in DOMAIN b}
Spent(b)   == UNION {b[i].spent : i \in DOMAIN b}

Init == book = <<>>

Settle(t) ==
  /\ t.created \cap Created(book) = {}
  /\ t.spent \cap Spent(book) = {}
  /\ book' = Append(book, t)

Next == \E t \in Transaction : Settle(t)

Spec == Init /\ [][Next]_book
=============================================================================
