------------------------------ MODULE MCBatch ------------------------------
(***************************************************************************)
(* Model of Batch: three calls, of which one may come while a batch of the *)
(* two others is under way, with and without a delay and an interval.      *)
(*                                                                         *)
(* The batcher is what the proofs of a transaction are requested through;  *)
(* the statements of ZkChecks, TreeChecks and WalletChecks about those     *)
(* proofs have no behaviour of their own and are evaluated with this       *)
(* model.  They take a field of 32771 elements, words of sixteen values,   *)
(* a wallet that counts in numbers of five bits, and hashes that do not    *)
(* collide on the inputs in question.                                      *)
(***************************************************************************)
EXTENDS Batch, ZkChecks, TreeChecks, WalletChecks

(* Poseidon: never 0, told apart by length and by every element.           *)
SmallHash(s) ==
  LET mix(h, x) == LET y == (h * 613 + x * 29 + 7) % 32749 IN (y * y + h) % 32749
      f[i \in 0..Len(s)] == IF i = 0 THEN 11 + Len(s) ELSE mix(f[i - 1], s[i])
  IN  1 + f[Len(s)]

(* The places of a small tree; the hash of the old addresses.              *)
SmallKeyOf(c) == c % 8
SmallOldHash(s) == 1 + ((s[1] * 211 + 5) % 32749)

(* SHA3-256: values of the whole word, some of them beyond the field.      *)
SmallDigest(e) == (e * 101 + 17) % 65536

(* A proof: as many fields as the circuit's, the first one of them bound   *)
(* to the public inputs.                                                   *)
LastOf(p) == SubSeq(p, IF Len(p) > 33 THEN Len(p) - 32 ELSE 1, Len(p))
SmallRest(c, p) ==
  [i \in 1..(IF c \in {"agg_utxo", "agg_agg"} THEN 508 ELSE 456) |->
     IF i = 1 THEN SmallHash(LastOf(p)) ELSE 0]
SmallUtxoProves(p, proof)    == proof = SmallRest("utxo", p)
SmallAggUtxoProves(p, proof) == proof = SmallRest("agg_utxo", p)

(* The public inputs of a frame, all but two of them fixed.                *)
SmallFrame(f) ==
  [i \in 1..704 |-> CASE i = 1 -> f.name_len [] i = 2 -> f.tx_blob_count [] OTHER -> 0]
============================================================================
