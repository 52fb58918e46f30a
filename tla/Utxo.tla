-------------------------------- MODULE Utxo --------------------------------
(***************************************************************************)
(* What a client computes about a private transaction (crate               *)
(* zk-primitives): notes, their commitments, and the public inputs of a    *)
(* Utxo of two input and two output notes.  Operators only; the numbers    *)
(* are Elements, so that sums and differences are those of the words.      *)
(***************************************************************************)
EXTENDS Element

CONSTANTS
  Hash(_),   \* Poseidon, of a sequence of field values
  Digest(_), \* SHA3-256 of an Element, read back as an Element
  Usdc       \* the note kind of bridged USDC on Polygon

(* The digests are field values (Poseidon) and Elements (SHA3). *)
HashIsField == /\ \A s \in Seq(Base) : Hash(s) \in Base
               /\ \A e \in U256 : Digest(e) \in U256

to_bases(s)   == [i \in DOMAIN s |-> to_base(s[i])]
from_bases(s) == [i \in DOMAIN s |-> from_base(s[i])]
hash_merge(s) == from_base(Hash(to_bases(s)))

(* A message is hashed from the left, block after block, starting from a   *)
(* constant (hash_bytes).                                                  *)
hash_blocks(iv, blocks) ==
  LET f[i \in 0..Len(blocks)] == IF i = 0 THEN iv ELSE hash_merge(<<f[i - 1], blocks[i]>>)
  IN  f[Len(blocks)]

----------------------------------------------------------------------------
(* Notes.  The field kind is the format of the commitment, 2; the kind of  *)
(* token is the contract.                                                  *)
Note == [kind : U256, contract : U256, address : U256, psi : U256, value : U256]

bridged_polygon_usdc_note_kind == Usdc

get_address_for_private_key(pk) == hash_merge(<<pk, 0>>)
hash_private_key_for_psi(pk)    == reduced(Digest(pk))

new_with_psi(address, value, psi) ==
  [kind |-> 2, contract |-> bridged_polygon_usdc_note_kind,
   address |-> address, psi |-> psi, value |-> value]

(* The same, with a fresh psi: a random field value. *)
new_note(address, value) == {new_with_psi(address, value, psi) : psi \in Base}

new_from_ephemeral_private_key(pk, value) ==
  new_with_psi(get_address_for_private_key(pk), value, hash_private_key_for_psi(pk))

padding_note == [kind |-> 2, contract |-> 0, address |-> 0, psi |-> 0, value |-> 0]

is_padding_note(n) == n.contract = 0 /\ n.value = 0

commitment(n) ==
  IF n.value = 0 THEN 0
  ELSE hash_merge(<<n.kind, n.contract, n.value, n.address, n.psi, 0, 0>>)

(* A note with the key that spends it. *)
InputNote == [note : Note, secret_key : U256]

padding_input_note == [note |-> padding_note, secret_key |-> 0]

ephemeral_input_note(pk, value) ==
  [note |-> new_from_ephemeral_private_key(pk, value), secret_key |-> pk]

----------------------------------------------------------------------------
(* Transactions.                                                           *)
UtxoKind == {"Null", "Send", "Mint", "Burn"}

kind_to_element(kind) ==
  CASE kind = "Send" -> 1 [] kind = "Mint" -> 2 [] kind = "Burn" -> 3 [] OTHER -> 0

(* Of a number, the lowest byte counts. *)
kind_from_element(e) ==
  LET byte == e % 256
  IN  CASE byte = 1 -> "Send" [] byte = 2 -> "Mint" [] byte = 3 -> "Burn" [] OTHER -> "Null"

(* Some(a) is <<a>>, None the empty sequence. *)
Option(S) == {<<>>} \union {<<a>> : a \in S}

IsUtxo(u) ==
  /\ u.kind \in UtxoKind
  /\ u.input_notes \in [1..2 -> InputNote]
  /\ u.output_notes \in [1..2 -> Note]
  /\ u.burn_address \in Option(U256)

new_utxo(kind, inputs, outputs, burn_address) ==
  [kind |-> kind, input_notes |-> inputs, output_notes |-> outputs, burn_address |-> burn_address]

new_send(inputs, outputs) == new_utxo("Send", inputs, outputs, <<>>)
new_burn(inputs, evm_address) ==
  new_utxo("Burn", inputs, <<padding_note, padding_note>>, <<evm_address>>)
new_mint(outputs) ==
  new_utxo("Mint", <<padding_input_note, padding_input_note>>, outputs, <<>>)
new_padding ==
  new_utxo("Null", <<padding_input_note, padding_input_note>>, <<padding_note, padding_note>>, <<>>)

is_padding_utxo(u) == u.kind = "Null"

leaf_elements(u) ==
  <<commitment(u.input_notes[1].note), commitment(u.input_notes[2].note),
    commitment(u.output_notes[1]), commitment(u.output_notes[2])>>

input_value(u)  == add(u.input_notes[1].note.value, u.input_notes[2].note.value)
output_value(u) == add(u.output_notes[1].value, u.output_notes[2].value)

mint_hash(u) == hash_merge(<<u.output_notes[1].psi, u.output_notes[2].psi>>)
burn_hash(u) == commitment(u.input_notes[1].note)

(* A burn without an address panics. *)
messages_panic(u) == u.kind = "Burn" /\ u.burn_address = <<>>

utxo_messages(u) ==
  CASE u.kind = "Send" -> <<1, 0, 0, 0, 0>>
    [] u.kind = "Mint" -> <<2, u.output_notes[1].contract, sub(output_value(u), input_value(u)),
                            mint_hash(u), 0>>
    [] u.kind = "Burn" -> <<3, u.input_notes[1].note.contract, sub(input_value(u), output_value(u)),
                            burn_hash(u), u.burn_address[1]>>
    [] u.kind = "Null" -> <<0, 0, 0, 0, 0>>

----------------------------------------------------------------------------
(* The public inputs of a Utxo proof: four commitments and five messages.  *)
public_inputs(u) ==
  [input_commitments |-> SubSeq(leaf_elements(u), 1, 2),
   output_commitments |-> SubSeq(leaf_elements(u), 3, 4),
   messages |-> utxo_messages(u)]

default_public_inputs ==
  [input_commitments |-> <<0, 0>>, output_commitments |-> <<0, 0>>, messages |-> <<0, 0, 0, 0, 0>>]

pi_commitments(p) == p.input_commitments \o p.output_commitments
pi_fields(p)      == pi_commitments(p) \o p.messages
pi_commit_hash(p) == hash_merge(pi_commitments(p))
pi_hash(p)        == hash_merge(pi_fields(p))
pi_kind(p)        == kind_from_element(p.messages[1])

(* What a mint and a burn say to the settlement layer. *)
kind_messages(p) ==
  CASE pi_kind(p) \in {"Null", "Send"} -> [kind |-> "None"]
    [] pi_kind(p) = "Mint" ->
         [kind |-> "Mint", note_kind |-> p.messages[2], value |-> p.messages[3],
          mint_hash |-> p.messages[4]]
    [] pi_kind(p) = "Burn" ->
         [kind |-> "Burn", note_kind |-> p.messages[2], value |-> p.messages[3],
          burn_hash |-> p.messages[4], burn_address |-> p.messages[5]]

mint_burn_hash(p) ==
  LET m == kind_messages(p)
  IN  CASE m.kind = "Mint" -> <<m.mint_hash>> [] m.kind = "Burn" -> <<m.burn_hash>> [] OTHER -> <<>>

(* A proof with its public inputs; two are equal when the inputs are. *)
proof_eq(p, q)      == p.public_inputs = q.public_inputs
is_padding_proof(p) == pi_kind(p.public_inputs) = "Null"

----------------------------------------------------------------------------
(* The blob of a transaction on Hyli (hyli_utxo.rs): the output            *)
(* commitments, then the nullifiers of the inputs.                         *)
nullifier_commitments(u) ==
  [i \in 1..2 |-> hash_merge(<<u.input_notes[i].note.psi, u.input_notes[i].secret_key>>)]

expected_blob(u) == SubSeq(leaf_elements(u), 3, 4) \o nullifier_commitments(u)

(* A text is padded to the width of its field; a longer one panics. *)
pad_fits(len, width) == len <= width
============================================================================
