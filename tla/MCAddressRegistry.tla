------------------------ MODULE MCAddressRegistry ------------------------
(***************************************************************************)
(* Model of AddressRegistry: two handlers, two spellings of one username,  *)
(* two addresses, three registrations and a crash.                         *)
(*                                                                         *)
(* The statements of FieldChecks about the field values an address is made *)
(* of have no behaviour of their own and are evaluated with this model, in *)
(* words of eight bits (four limbs of two) and the field of 193 elements.  *)
(***************************************************************************)
EXTENDS AddressRegistry, FieldChecks

MCUsernames == {"alice", "Alice"}
MCLower(u) == IF u = "Alice" THEN "alice" ELSE u
============================================================================
