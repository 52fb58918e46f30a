---------------------------- MODULE WalletChecks ----------------------------
(***************************************************************************)
(* NoteSelection over small wallets: what is selected against what would   *)
(* do, and what the wallet proves against what the circuit accepts.  TLC   *)
(* evaluates the assumptions at the start of a run.                        *)
(***************************************************************************)
EXTENDS NoteSelection, FiniteSets

(* The wallet of key 1: notes of the values vs, of one token. *)
Own == get_address(1)
NoteOf(v, contract, psi) == [note |-> createOutputNote(Own, v, contract, psi), secret_key |-> 1]
WalletOf(vs) == [i \in DOMAIN vs |-> NoteOf(vs[i], Usdc, i)]

ValuesUpTo(len, top) == UNION {[1..n -> 0..top] : n \in 0..len}
ValueOf(i)    == i.note.value
SumOver(S, w) == LET f[k \in 0..Len(w)] == IF k = 0 THEN 0
                                           ELSE f[k - 1] + (IF k \in S THEN ValueOf(w[k]) ELSE 0)
                 IN  f[Len(w)]
AllOf(w) == SumOver(DOMAIN w, w)

(* The fewest notes that are enough for an amount; 0 when all are not.     *)
FewestFor(w, amount) ==
  LET enough == {Cardinality(S) : S \in {T \in SUBSET DOMAIN w : T # {} /\ SumOver(T, w) >= amount}}
  IN  IF enough = {} THEN 0 ELSE CHOOSE n \in enough : \A m \in enough : n <= m

(* There is a selection when two notes of some value are enough.  It adds  *)
(* up, and it is a single note when one is enough, then the least such     *)
(* (selectNotesForTransfer).                                               *)
ASSUME SelectionCoversTheAmount ==
  \A vs \in ValuesUpTo(4, 3), amount \in 0..8 :
    LET w      == WalletOf(vs)
        chosen == selectNotesForTransfer(w, amount)
        worthy == {k \in DOMAIN w : vs[k] > 0}
        fewest == FewestFor(valued(w), amount)
    IN  /\ chosen # <<>> <=> fewest \in {1, 2}
        /\ chosen # <<>> =>
             LET in == chosen[1].selectedInputs IN
               /\ ValueOf(in[1]) + ValueOf(in[2]) = amount + chosen[1].changeAmount
               /\ in[1] # in[2]
               /\ fewest = 1 <=> in[2] = createPaddingInputNote
               /\ fewest = 1 => \A k \in worthy : vs[k] >= amount => ValueOf(in[1]) <= vs[k]

(* Of one token and of exact values, every selected transfer and           *)
(* withdrawal proves, to oneself and to another, the amount 0 included     *)
(* (executeTransfer, executeWithdraw, hyli_utxo_main).                     *)
ASSUME SelectedTransfersProve ==
  \A vs \in ValuesUpTo(3, 3), amount \in 0..6, recipient \in {Own, 77} :
    LET chosen == selectNotesForTransfer(WalletOf(vs), amount) IN
      chosen # <<>> =>
        /\ proves(executeTransfer(chosen[1], recipient, amount, Own, <<20, 21>>))
        /\ proves(executeWithdraw(chosen[1], 78, amount, Own, 21))

(* The selection does not look at the token: two notes of different tokens *)
(* may be selected together, and then nothing proves.                      *)
ASSUME MixedTokensDoNotProve ==
  LET w      == <<NoteOf(2, Usdc, 1), NoteOf(2, Usdc + 1, 2)>>
      chosen == selectNotesForTransfer(w, 3)
  IN  /\ chosen # <<>>
      /\ ~proves(executeTransfer(chosen[1], 77, 3, Own, <<20, 21>>))
      /\ ~proves(executeWithdraw(chosen[1], 78, 3, Own, 21))

(* Values of more than Precision bits are rounded (parseNoteValue): up to  *)
(* there every amount of a note can be sent, right beyond it is a note of  *)
(* which no amount can.                                                    *)
Sendable(v) == {a \in {number(n) : n \in 0..v} :
  LET chosen == selectNotesForTransfer(WalletOf(<<v>>), a)
  IN  chosen # <<>> /\ proves(executeTransfer(chosen[1], 77, a, Own, <<20, 21>>))}
ASSUME LargeValuesAreRounded ==
  /\ \A v \in 1..Bit(Precision) : Sendable(v) = 0..v
  /\ Sendable(Bit(Precision) + 1) = {}

(* A note that is in the storage twice (an import does not look for it) is *)
(* selected with itself.  The circuit accepts that; both nullifiers are    *)
(* the same, so the contract does not (check_blob).                        *)
ASSUME NoteStoredTwiceSpendsItselfTwice ==
  LET w      == <<NoteOf(2, Usdc, 1), NoteOf(2, Usdc, 1)>>
      chosen == selectNotesForTransfer(w, 3)
      p      == executeTransfer(chosen[1], 77, 3, Own, <<20, 21>>)
  IN  proves(p) /\ p.frame.blob[3] = p.frame.blob[4]

(* What is spendable is what the wallet owns, is not pending and is worth  *)
(* something (getSpendableNotes).                                          *)
ASSUME OnlyOwnNotesAreSpendable ==
  LET stored == [i \in 1..4 |-> [optimistic |-> i = 4, note |-> NoteOf(i % 3, Usdc, i).note]]
  IN  \A pending \in SUBSET (1..4) :
        LET notes == getSpendableNotes(stored, 1, Own, pending)
        IN  /\ {notes[i].note.psi : i \in DOMAIN notes} = {1, 2} \ pending
            /\ getSpendableNotes(stored, 1, 77, pending) = <<>>

(* Every round of a consolidation proves, keeps the total and ends with a  *)
(* note less.  The number of rounds is that of the notes beyond two which  *)
(* the amount takes at the least; a wallet that has not enough is left as  *)
(* it is (executeTransferWithConsolidation).                               *)
RoundsOf(f) == Cardinality({k \in DOMAIN f : k > 0 /\ f[k] # f[k - 1]})
ASSUME ConsolidationIsEnough ==
  \A vs \in ValuesUpTo(4, 2), amount \in 0..8 :
    LET w == WalletOf(vs)
        f == executeTransferWithConsolidation(w, amount, Own, 20)
        last   == f[Len(w)]
        fewest == FewestFor(valued(w), amount)
    IN  /\ \A k \in DOMAIN f : AllOf(f[k]) = AllOf(w)
        /\ RoundsOf(f) = IF fewest > 2 THEN fewest - 2 ELSE 0
        /\ selectNotesForTransfer(last, amount) # <<>> <=> fewest > 0
        /\ \A k \in 1..Len(w) : f[k] # f[k - 1] =>
             proves(consolidation_transfer(notesForConsolidation(f[k - 1]), Own, 20 + k))

(* Consolidating all of them leaves the empty ones and a single other      *)
(* (consolidateAll).                                                       *)
ASSUME AllBecomeOne ==
  \A vs \in ValuesUpTo(4, 3) :
    LET w == WalletOf(vs)
        f == consolidateAll(w, Own, 20)
        n == Len(valued(w))
    IN  /\ Len(valued(f[Len(w)])) = IF n = 0 THEN 0 ELSE 1
        /\ RoundsOf(f) = IF n = 0 THEN 0 ELSE n - 1
        /\ AllOf(f[Len(w)]) = AllOf(w)
============================================================================
