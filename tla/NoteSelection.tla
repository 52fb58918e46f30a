--------------------------- MODULE NoteSelection ---------------------------
(***************************************************************************)
(* What the wallet computes for a transfer and for a withdrawal            *)
(* (TransferService.ts): which of its notes it spends, which it creates,   *)
(* when it merges notes beforehand, and the inputs it gives the prover.    *)
(* Operators only; Transfer has the storage, the tabs and the server.      *)
(*                                                                         *)
(* An amount is a JavaScript number: an integer of Precision bits, times a *)
(* power of two.                                                           *)
(***************************************************************************)
EXTENDS Circuits
LOCAL INSTANCE SequencesExt

CONSTANT Precision  \* 53: the bits of a number's integer part

ASSUME PrecisionAssumption == Precision \in Nat \ {0}

(* The number nearest to an integer; of two, the even one. *)
number(n) ==
  LET fits(e)  == n < Bit(Precision + e)
      exponent == CHOOSE e \in 0..n : fits(e) /\ \A d \in 0..(e - 1) : ~fits(d)
      unit == Bit(exponent)
      low  == n \div unit
      rest == n % unit
  IN  unit * (IF 2 * rest > unit \/ (2 * rest = unit /\ low % 2 = 1) THEN low + 1 ELSE low)

parseNoteValue(note) == number(note.value)

----------------------------------------------------------------------------
(* Notes of the wallet: the kind is the contract, and so is what the       *)
(* prover is given for it.                                                 *)
createPaddingNote      == [padding_note EXCEPT !.kind = 0]
createPaddingInputNote == [note |-> createPaddingNote, secret_key |-> 0]

(* The psi is a fresh one. *)
createOutputNote(recipient, amount, contract, psi) ==
  [kind |-> contract, contract |-> contract, address |-> recipient, psi |-> psi, value |-> amount]

computeCommitment(n) ==
  IF n.contract = 0 THEN 0 ELSE Hash(<<2, n.contract, n.value, n.address, n.psi, 0, 0>>)

computeNullifier(psi, secretKey) == Hash(<<psi, secretKey>>)

prover_note(n)  == [kind |-> n.contract, value |-> n.value, address |-> n.address, psi |-> n.psi]
prover_input(i) == [note |-> prover_note(i.note), secret_key |-> i.secret_key]

(* The stored notes that may be spent: not one that stands for a transfer  *)
(* under way, not one that is pending, not another identity's, not empty.  *)
getSpendableNotes(stored, secretKey, owner, pendingPsis) ==
  LET spendable(s) == /\ ~s.optimistic
                      /\ s.note.psi \notin pendingPsis
                      /\ s.note.address = owner
                      /\ parseNoteValue(s.note) > 0
      kept == SelectSeq(stored, spendable)
  IN  [i \in DOMAIN kept |-> [note |-> kept[i].note, secret_key |-> secretKey]]

----------------------------------------------------------------------------
(* Selection.  Sorting keeps the order of equals: input j comes before k   *)
(* when its value is smaller, or the same and j is first already.          *)
valued(inputs) == SelectSeq(inputs, LAMBDA i : parseNoteValue(i.note) > 0)

value_at(inputs, k) == parseNoteValue(inputs[k].note)

ascending(inputs, j, k) ==
  \/ value_at(inputs, j) < value_at(inputs, k)
  \/ value_at(inputs, j) = value_at(inputs, k) /\ j < k

descending(inputs) ==
  LET v(k)  == value_at(inputs, k)
      order == SetToSortSeq(DOMAIN inputs, LAMBDA j, k : v(j) > v(k) \/ (v(j) = v(k) /\ j < k))
  IN  [k \in DOMAIN inputs |-> inputs[order[k]]]

number_total(inputs) ==
  FoldLeft(LAMBDA total, i : number(total + parseNoteValue(i.note)), 0, inputs)

selection_of(a, b, amount) ==
  LET total == number(parseNoteValue(a.note) + parseNoteValue(b.note))
  IN  [selectedInputs |-> <<a, b>>, changeAmount |-> number(total - amount), totalInput |-> total]

(* The smallest note that is enough, or the first pair that is; none when  *)
(* it takes more than two.                                                 *)
selectNotesForTransfer(inputs, amount) ==
  LET worthy  == {k \in DOMAIN inputs : value_at(inputs, k) > 0}
      singles == {k \in worthy : value_at(inputs, k) >= amount}
      pairs   == {p \in worthy \X worthy :
                    /\ ascending(inputs, p[1], p[2])
                    /\ number(value_at(inputs, p[1]) + value_at(inputs, p[2])) >= amount}
      before(q, p) == \/ ascending(inputs, q[1], p[1])
                      \/ q[1] = p[1] /\ ascending(inputs, q[2], p[2])
  IN  IF number_total(valued(inputs)) < amount THEN <<>>
      ELSE IF singles # {}
        THEN LET k == CHOOSE k \in singles : \A l \in singles : ~ascending(inputs, l, k)
             IN  <<selection_of(inputs[k], createPaddingInputNote, amount)>>
      ELSE IF pairs # {}
        THEN LET p == CHOOSE p \in pairs : \A q \in pairs : ~before(q, p)
             IN  <<selection_of(inputs[p[1]], inputs[p[2]], amount)>>
      ELSE <<>>

----------------------------------------------------------------------------
(* What the wallet has proved.                                             *)
buildRawBlobData(outputs, inputs) ==
  <<computeCommitment(outputs[1]), computeCommitment(outputs[2]),
    computeNullifier(inputs[1].note.psi, inputs[1].secret_key),
    computeNullifier(inputs[2].note.psi, inputs[2].secret_key)>>

change_note(selection, own, psi) ==
  IF selection.changeAmount > 0
  THEN createOutputNote(own, selection.changeAmount, selection.selectedInputs[1].note.contract, psi)
  ELSE createPaddingNote

proof_inputs(inputs, outputs, blobCount, pmessage4, messages) ==
  [frame |-> [name_len |-> 9, tx_blob_count |-> blobCount, blob |-> buildRawBlobData(outputs, inputs)],
   ins |-> [i \in 1..2 |-> prover_input(inputs[i])],
   outs |-> [i \in 1..2 |-> prover_note(outputs[i])],
   pmessage4 |-> pmessage4, messages |-> messages,
   commitments |-> [i \in 1..2 |-> computeCommitment(inputs[i].note)]
                     \o [i \in 1..2 |-> computeCommitment(outputs[i])]]

proves(p) == hyli_utxo_main(p.frame, p.ins, p.outs, p.pmessage4, p.commitments, p.messages)

(* psis: those of the recipient's note and of the change.                  *)
executeTransfer(selection, recipient, amount, own, psis) ==
  LET contract == selection.selectedInputs[1].note.contract
      outputs  == <<createOutputNote(recipient, amount, contract, psis[1]),
                    change_note(selection, own, psis[2])>>
  IN  proof_inputs(selection.selectedInputs, outputs, 3, 0, <<1, 0, 0, 0, 0>>)

(* A withdrawal has a blob more, the token transfer on Hyli. *)
executeWithdraw(selection, burnAddress, amount, own, psi) ==
  LET first   == selection.selectedInputs[1].note
      outputs == <<createPaddingNote, change_note(selection, own, psi)>>
  IN  proof_inputs(selection.selectedInputs, outputs, 4, burnAddress,
                   <<3, first.contract, amount, computeCommitment(first), burnAddress>>)

----------------------------------------------------------------------------
(* Consolidation: when no two notes are enough and all of them together    *)
(* are, the two largest become one, which comes first in the storage.      *)
needsConsolidation(inputs, amount) ==
  /\ number_total(valued(inputs)) >= amount
  /\ selectNotesForTransfer(inputs, amount) = <<>>

notesForConsolidation(inputs) ==
  LET s == descending(valued(inputs)) IN IF Len(s) < 2 THEN <<>> ELSE SubSeq(s, 1, 2)

merged_amount(pair) == number(parseNoteValue(pair[1].note) + parseNoteValue(pair[2].note))

(* The transfer of a round, to oneself.  It spends the pair it is given.   *)
consolidation_transfer(pair, own, psi) ==
  executeTransfer(selectNotesForTransfer(pair, merged_amount(pair))[1], own, merged_amount(pair),
                  own, <<psi, psi>>)

(* The notes after a round whose transfer succeeded. *)
executeConsolidation(inputs, own, psi) ==
  LET pair == notesForConsolidation(inputs)
      note == createOutputNote(own, merged_amount(pair), pair[1].note.contract, psi)
  IN  <<[note |-> note, secret_key |-> pair[1].secret_key]>>
        \o SelectSeq(inputs, LAMBDA i : i.note.psi \notin {pair[1].note.psi, pair[2].note.psi})

(* A loop of rounds, until an amount can be sent (goal is <<amount>>) or   *)
(* a single note is left (<<>>).  The function gives the notes after k     *)
(* rounds, of which there is at most one per note; psi + k is the psi of   *)
(* the note that round k makes.                                            *)
after_rounds(inputs, own, psi, goal) ==
  LET again(now) == /\ IF goal = <<>> THEN Len(now) >= 2 ELSE needsConsolidation(now, goal[1])
                    /\ notesForConsolidation(now) # <<>>
      f[k \in 0..Len(inputs)] ==
        IF k = 0 THEN inputs
        ELSE IF again(f[k - 1]) THEN executeConsolidation(f[k - 1], own, psi + k)
        ELSE f[k - 1]
  IN  f

executeTransferWithConsolidation(inputs, amount, own, psi) ==
  after_rounds(inputs, own, psi, <<amount>>)

consolidateAll(inputs, own, psi) == after_rounds(inputs, own, psi, <<>>)
============================================================================
