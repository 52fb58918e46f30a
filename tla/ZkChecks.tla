------------------------------ MODULE ZkChecks ------------------------------
(***************************************************************************)
(* Utxo, Circuits, Aggregation and Bindings over a sample of notes: what   *)
(* the clients compute against what the circuits accept.  TLC evaluates    *)
(* the assumptions at the start of a run.                                  *)
(***************************************************************************)
EXTENDS Bindings

(* The sample.  Key k owns the address Addr(k). *)
Keys    == {1, 2}
Addr(k) == get_address_for_private_key(k)

(* Notes a client makes: padding, and notes of the bridged token. *)
Inputs  == {padding_input_note} \union {ephemeral_input_note(k, v) : k \in Keys, v \in {1, 2, 3}}
Outputs == {padding_note} \union {new_with_psi(Addr(2), v, psi) : v \in {1, 2, 3}, psi \in {5, 6}}

(* The token total of a pair, over the integers. *)
Total(a, b) == a.value + b.value
InTotal(u)  == Total(u.input_notes[1].note, u.input_notes[2].note)
OutTotal(u) == Total(u.output_notes[1], u.output_notes[2])

Pairs(S) == {<<a, b>> : a, b \in S}

Sends == {new_send(i, o) : i \in Pairs(Inputs), o \in Pairs(Outputs)}
Mints == {new_mint(o) : o \in Pairs(Outputs)}
Burns == {new_burn(i, 7) : i \in Pairs(Inputs)}

(* A send proves exactly when it balances, a mint and a burn always, a     *)
(* padding transaction never.  The proof's public inputs are those the     *)
(* client computed (utxo.rs messages, utxo_lib).                           *)
ASSUME ClientsAndCircuitAgree ==
  /\ \A u \in Sends : utxo_accepts(u) <=> InTotal(u) = OutTotal(u)
  /\ \A u \in Mints \union Burns : utxo_accepts(u)
  /\ ~utxo_accepts(new_padding)
  /\ \A u \in Mints \union Burns \union {s \in Sends : utxo_accepts(s)} :
       /\ utxo_public(u) = to_bases(pi_fields(public_inputs(u)))
       /\ pi_kind(public_inputs(u)) = u.kind

(* The messages of a mint and a burn speak of the first note alone: when   *)
(* that one is padding they name no token, and a burn has the hash 0.      *)
ASSUME MessagesOfTheFirstNote ==
  \A n \in Outputs, i \in Inputs :
    /\ utxo_messages(new_mint(<<padding_note, n>>))[2] = 0
    /\ LET m == utxo_messages(new_burn(<<padding_input_note, i>>, 7))
       IN  m[2] = 0 /\ m[3] = i.note.value /\ m[4] = 0

(* A note of value 0 with a token, and a note with a value and no token,   *)
(* have a commitment in Rust that the circuit does not accept; every other *)
(* note of format 2 has the same on both sides (note.rs commitment, common *)
(* get_note_commitment).                                                   *)
Odd == {[kind |-> k, contract |-> c, address |-> a, psi |-> 5, value |-> v] :
          k \in {2, 3}, c \in {0, Usdc, Modulus}, a \in {Addr(1)}, v \in {0, 1, Modulus, Modulus + 1}}
ASSUME CommitmentsAgreeOnSoundNotes ==
  \A n \in Odd :
    check_commitment(circuit_note(n), to_base(commitment(n)))
      <=> \/ to_base(n.contract) = 0 /\ n.value = 0
          \/ to_base(n.contract) # 0 /\ n.value # 0 /\ n.kind = 2

(* Values at the ends of the ranges: the limit, the modulus, the words.    *)
Extreme == {0, 1, Limit - 1, Limit, Modulus - 1, Modulus, Top - 1}
Coins   == {new_with_psi(Addr(1), v, 5) : v \in Extreme} \union {padding_note}
Wide    == {new_utxo(kind, <<[note |-> a, secret_key |-> 1], [note |-> b, secret_key |-> 1]>>, <<c, d>>, <<7>>) :
              kind \in {"Send", "Mint", "Burn"}, a, b, c, d \in Coins}

(* What the circuit accepts moves no value but the message's, over the     *)
(* integers, when the inputs are below the limit; and it leaves outputs    *)
(* below the limit (assert_max_bit_size).                                  *)
ASSUME AcceptedTransactionsConserve ==
  \A u \in Wide :
    /\ utxo_accepts(u) => \A i \in 1..2 : to_base(u.output_notes[i].value) < Limit
    /\ utxo_accepts(u) /\ (\A i \in 1..2 : u.input_notes[i].note.value < Limit)
         => LET in == InTotal(u)
                out == to_base(u.output_notes[1].value) + to_base(u.output_notes[2].value)
                said == to_base(utxo_messages(u)[3])
            IN  CASE u.kind = "Send" -> out = in
                  [] u.kind = "Mint" -> out = in + said
                  [] u.kind = "Burn" -> in = out + said

(* Two sound notes of one key and one psi have one nullifier: the second   *)
(* can never be spent.  An ephemeral key gives its notes one psi.          *)
ASSUME OneNullifierPerKeyAndPsi ==
  \A k \in Keys, v, w \in {1, 2} :
    LET blob(x) == nullifier_commitments(new_burn(<<ephemeral_input_note(k, x), padding_input_note>>, 7))
    IN  blob(v) = blob(w)

(* The blob of a proof is the one the client posts; the frame decides the  *)
(* rest: a contract name of 9 characters, 3 or 4 blobs (hyli_utxo).        *)
ASSUME BlobsAgree ==
  \A u \in {s \in Sends : utxo_accepts(s)}, len \in {8, 9}, count \in 2..6 :
    LET frame == hyli_frame(len, count, expected_blob(u))
    IN  /\ ~hyli_input_panics(u, frame)
        /\ hyli_utxo_accepts(u, frame) <=> len = 9 /\ count \in {3, 4}

(* Ten notes and their sum, the keys in place; the sum of the words is     *)
(* that of the field only as long as it fits (points.rs).                  *)
Points(v) == [notes |-> [i \in 1..10 |-> IF i <= Len(v) THEN new_with_psi(Addr(1), v[i], i) ELSE padding_note],
              secret_keys |-> [i \in 1..10 |-> 1], address |-> Addr(1), timestamp |-> 9]
ASSUME PointsAreTheSum ==
  /\ \A v, w \in {1, 2, Limit} : points_accepts(Points(<<v, w>>))
  /\ \A v \in {Modulus - 1, Top - 1} :
       points_accepts(Points(<<v, v>>)) <=> ~Wraps(v + v)

(* Of the same keys: what the wrappers compute is what the circuits want.  *)
ASSUME SignaturesProve ==
  \A k \in Keys, m \in {0, 4, Modulus + 4} : signature_accepts([secret_key |-> k, message |-> m])

(* A migration proves with the two addresses of its key only.              *)
ASSUME MigrationsNeedBothAddresses ==
  \A k, j, i \in Keys :
    migrate_accepts([owner_pk |-> k, old_address |-> OldHash(<<j, 0>>), new_address |-> Addr(i)])
      <=> k = j /\ k = i

----------------------------------------------------------------------------
(* A tree of eight places, as a reference: a leaf sits where its lowest    *)
(* three bits say, an empty place is 0.                                    *)
Depth == 4   \* levels, the leaves included
Place(leaf) == leaf % 8
Empty == [k \in 0..7 |-> 0]
Nodes(t) ==
  LET f[l \in 0..3] == IF l = 0 THEN t
                       ELSE [k \in 0..(Bit(3 - l) - 1) |-> Hash(<<f[l - 1][2 * k], f[l - 1][2 * k + 1]>>)]
  IN  f
Root(t) == Nodes(t)[3][0]
PathOf(t, leaf) ==
  [l \in 1..3 |-> LET k == Place(leaf) \div Bit(l - 1)
                  IN  Nodes(t)[l - 1][IF k % 2 = 0 THEN k + 1 ELSE k - 1]]

(* Without and with a leaf; the leaf 0 is none. *)
Del(t, leaf) == IF leaf = 0 THEN t ELSE [t EXCEPT ![Place(leaf)] = 0]
Put(t, leaf) == IF leaf = 0 THEN t ELSE [t EXCEPT ![Place(leaf)] = leaf]

(* The trees a transaction goes through. *)
Through(t, u) ==
  LET c == leaf_elements(u) a == Del(t, c[1]) b == Del(a, c[2]) d == Put(b, c[3])
  IN  <<t, a, b, d, Put(d, c[4])>>

May(t, u) ==
  LET c == leaf_elements(u) ts == Through(t, u)
  IN  /\ \A k \in 1..2 : c[k] # 0 => ts[k][Place(c[k])] = c[k]
      /\ \A k \in 3..4 : c[k] # 0 => ts[k][Place(c[k])] = 0

BundleOf(t, u) ==
  LET proof == [proof |-> Rest("utxo", pi_fields(public_inputs(u))), public_inputs |-> public_inputs(u)]
  IN  IF is_padding_utxo(u) THEN default_bundle(Depth, Rest("utxo", <<>>))
      ELSE bundle(proof, [k \in 1..4 |-> PathOf(Through(t, u)[k], leaf_elements(u)[k])])

After(t, u) == Through(t, u)[5]
AggOf(t, us) ==
  LET t1 == After(t, us[1]) t2 == After(t1, us[2])
  IN  new_agg_utxo(<<BundleOf(t, us[1]), BundleOf(t1, us[2]), BundleOf(t2, us[3])>>,
                   Root(t), Root(After(t2, us[3])))
MayAll(t, us) ==
  LET t1 == After(t, us[1]) t2 == After(t1, us[2])
  IN  May(t, us[1]) /\ May(t1, us[2]) /\ May(t2, us[3])

(* A note is minted, sent on, and what arrives is burnt. *)
Minted == ephemeral_input_note(1, 3)
Sent   == ephemeral_input_note(2, 3)
mint1 == new_mint(<<Minted.note, padding_note>>)
send1 == new_send(<<Minted, padding_input_note>>, <<Sent.note, padding_note>>)
burn1 == new_burn(<<Sent, padding_input_note>>, 7)
Some3 == [1..3 -> {mint1, send1, burn1, new_padding}]

(* Three proofs aggregate exactly when the first one is real and each      *)
(* spends what is in the tree at its turn and puts its notes in free       *)
(* places; the messages of the mint and the burn come out in order         *)
(* (agg_utxo main, AggUtxo::messages).                                     *)
ASSUME AggregationFollowsTheTree ==
  /\ \A us \in Some3 :
       agg_utxo_accepts(AggOf(Empty, us)) <=> us[1] # new_padding /\ MayAll(Empty, us)
  /\ SubSeq(agg_utxo_messages(AggOf(Empty, <<mint1, send1, burn1>>)), 1, 10)
       = SubSeq(utxo_messages(mint1), 1, 4) \o utxo_messages(burn1) \o <<0>>

(* Rust and the circuits fold a path alike; a proof of absence is a proof  *)
(* of the empty leaf (path.rs, get_merkle_root).                           *)
ASSUME PathsAgree ==
  \A leaf \in {leaf_elements(mint1)[1], leaf_elements(burn1)[1], 8, 13} :
    LET s == PathOf(Put(Empty, leaf), leaf)
    IN  /\ compute_before_root(s, leaf) = get_merkle_root(leaf, leaf, s)
        /\ compute_before_root(s, leaf) = Root(Put(Empty, leaf))
        /\ compute_after_root(s, leaf) = get_null_root(leaf, s) /\ compute_after_root(s, leaf) = Root(Empty)
        /\ path_is_new(Depth, s) /\ path_from_bases(Depth, to_bases(s) \o <<0>>) = s

(* Three things of the paths that are not what their comments say: the     *)
(* root of an empty tree is not that of a tree of empty leaves (path.rs    *)
(* 118-120), the path with a leaf applied is one longer than a path, and a *)
(* path never fits the array it is converted to.                           *)
ASSUME PathsThatAreNone ==
  /\ empty_tree_root(Depth) # Root(Empty) /\ empty_tree_root(2) = Hash(<<0, 0>>)
  /\ \A s \in [1..3 -> {0, 5}] :
       ~path_is_new(Depth, apply_leaf(s, 9)) /\ path_to_bases_panics(Depth, s)

(* Two aggregations make one exactly when the second is padding or starts  *)
(* where the first ended (agg_agg main, AggAgg::new_root).                 *)
AggProof(a) ==
  LET p == [messages |-> agg_utxo_messages(a), old_root |-> a.old_root, new_root |-> a.new_root,
            commit_hash |-> agg_commit_hash(a)]
  IN  [proof |-> Rest("agg_utxo", agg_pi_fields(p)), public_inputs |-> p]
PaddingAgg == [proof |-> Rest("agg_utxo", <<>>),
               public_inputs |-> [messages |-> [k \in 1..15 |-> 0], old_root |-> 0, new_root |-> 0, commit_hash |-> 0]]
First  == AggProof(AggOf(Empty, <<mint1, new_padding, new_padding>>))
Second == AggProof(AggOf(After(Empty, mint1), <<send1, burn1, new_padding>>))
ASSUME AggregationsChain ==
  \A p \in {First, Second}, q \in {First, Second, PaddingAgg} :
    agg_agg_accepts(<<p, q>>) <=> q = PaddingAgg \/ q.public_inputs.old_root = p.public_inputs.new_root

----------------------------------------------------------------------------
(* Every proof, as its wrapper returns it, gives the backend's string back *)
(* and verifies with the library: the fields of the structures are in the  *)
(* order of the circuit's public inputs (prove and to_bytes of each).      *)
Send3 == send1
Frame3 == hyli_frame(9, 3, expected_blob(Send3))
Points3 == Points(<<1, 2, 3>>)
Migrate3 == [owner_pk |-> 1, old_address |-> OldHash(<<1, 0>>), new_address |-> Addr(1)]
Signature3 == [secret_key |-> 1, message |-> 4]
Agg3 == AggOf(Empty, <<mint1, send1, burn1>>)
Proved ==
  <<[c |-> "utxo", ps |-> utxo_prove(Send3), pi |-> pi_fields(public_inputs(Send3))],
    [c |-> "agg_utxo", ps |-> agg_utxo_prove(Agg3), pi |-> agg_pi_fields(AggProof(Agg3).public_inputs)],
    [c |-> "agg_agg", ps |-> agg_agg_prove(<<First, Second>>),
     pi |-> aggagg_pi_fields(aggagg_public_inputs(<<First, Second>>))],
    [c |-> "points", ps |-> points_prove(Points3), pi |-> points_public(Points3)],
    [c |-> "migrate", ps |-> migrate_prove(Migrate3), pi |-> migrate_public(Migrate3)],
    [c |-> "signature", ps |-> signature_prove(Signature3), pi |-> signature_public(Signature3)],
    [c |-> "hyli_utxo", ps |-> hyli_utxo_prove(Send3, Frame3), pi |-> hyli_utxo_public(Send3, Frame3)]>>

ASSUME ProofsVerify ==
  \A k \in DOMAIN Proved : LET r == Proved[k] IN
    /\ r.ps # {}
    /\ \A p \in r.ps : p.public_inputs = r.pi /\ rs_verify(r.c, to_bytes(p))

(* The command line verifies the proofs of utxo and no other: it looks for *)
(* nine public inputs whatever the circuit (bb_cli.rs verify).             *)
ASSUME OnlyUtxoVerifiesOnTheCommandLine ==
  \A k \in DOMAIN Proved : LET r == Proved[k] IN
    \A p \in r.ps : cli_verify(r.c, to_bytes(p)) <=> r.c = "utxo"

(* A proof of utxo has 456 fields, the aggregation circuit's array 508:    *)
(* aggregating panics, whatever the transactions (AggUtxoProofInput).      *)
ASSUME UtxoProofsDoNotAggregate ==
  /\ ~utxo_prove_panics(Send3)
  /\ \A us \in Some3 : agg_utxo_panics(AggOf(Empty, us))

(* The blob circuit calls the command line with its own count.             *)
ASSUME HyliUtxoVerifies ==
  \A p \in hyli_utxo_prove(Send3, Frame3) :
    verify_with_bb("hyli_utxo", HYLI_UTXO_PUBLIC_INPUTS_COUNT, to_bytes(p))
============================================================================
