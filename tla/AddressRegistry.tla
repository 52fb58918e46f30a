-------------------------- MODULE AddressRegistry --------------------------
(***************************************************************************)
(* The username registry (AddressRegistry of server/src/note_store.rs with *)
(* the handlers register_address and resolve_address of server/src/api.rs),*)
(* saved through PersistentStore.  register_address inserts under the      *)
(* write lock, saves, and then looks the username up again to build its    *)
(* answer: another request may have come in between.  unregister is not    *)
(* reachable from the API.                                                 *)
(***************************************************************************)
EXTENDS PersistentStore

CONSTANTS
  Usernames,   \* usernames as requests spell them
  Lower(_),    \* to_lowercase, the spelling the registry uses
  Addresses    \* utxo addresses (with their encryption keys)

ASSUME LowerAssumption ==
  \A u \in Usernames : Lower(u) \in Usernames /\ Lower(Lower(u)) = Lower(u)

VARIABLES
  request,    \* the registration each handler is working on, <<>> for none
  responses   \* history: the answers given

registryVars == <<store, request, responses>>

Empty == [u \in {} |-> <<>>]

(* A registration; registered_at is the version that wrote it. *)
Registration == [utxo_address : Addresses, registered_at : 1..MaxVersion]

Request == [username : Usernames, utxo_address : Addresses, was_update : BOOLEAN]

RegistryTypeOK ==
  /\ StoreTypeOK
  /\ DOMAIN data \subseteq {Lower(u) : u \in Usernames}
  /\ \A u \in DOMAIN data : data[u] \in Registration
  /\ \A h \in Handlers : request[h] = <<>> \/ request[h] \in Request

RegistryInit ==
  /\ StoreInit(Empty)
  /\ request = [h \in Handlers |-> <<>>]
  /\ responses = {}

(* Mutant: the username is used as it is spelled. *)
Key_slip(username) == username

(* The key of a username in the registry. *)
Key(username) == Lower(username)

(* register_address up to the end of the write-locked section. *)
Register(h, username, address) ==
  LET key == Key(username)
      reg == [utxo_address |-> address, registered_at |-> version + 1]
  IN /\ request[h] = <<>>
     /\ Change(h, [u \in DOMAIN data \cup {key} |-> IF u = key THEN reg ELSE data[u]])
     /\ request' = [request EXCEPT ![h] =
                      [username |-> username, utxo_address |-> address,
                       was_update |-> key \in DOMAIN data]]
     /\ UNCHANGED responses

RegistrySave(h) ==
  /\ PersistStep(h)
  /\ UNCHANGED <<request, responses>>

(* resolve: a reader beside the handlers that save. *)
resolve(username) == data[Lower(username)]

(* The second half of register_address, after maybe_persist has returned,  *)
(* whether it succeeded or not.                                            *)
Respond(h) ==
  /\ process = "running" /\ request[h] # <<>> /\ persist[h] = "idle"
  /\ responses' = responses \cup
       {[request |-> request[h], registered |-> mine[h], saved |-> mine[h] <= acked,
         answer |-> IF Lower(request[h].username) \in DOMAIN data
                    THEN {resolve(request[h].username)} ELSE {}]}
  /\ request' = [request EXCEPT ![h] = <<>>]
  /\ UNCHANGED store

RegistryRestart ==
  /\ Crash \/ Restart(Empty)
  /\ request' = [h \in Handlers |-> <<>>]
  /\ UNCHANGED responses

RegistryNext ==
  \/ \E h \in Handlers, username \in Usernames, address \in Addresses :
       Register(h, username, address)
  \/ \E h \in Handlers : RegistrySave(h) \/ Respond(h)
  \/ RegistryRestart

RegistrySpec == RegistryInit /\ [][RegistryNext]_registryVars

----------------------------------------------------------------------------
(* An answer is about a registration of the requested username that is at  *)
(* least as new as the requested one; "Failed to retrieve registration     *)
(* after insert" is never returned.                                        *)
AnswerIsOwnOrNewer ==
  \A r \in responses :
    \E reg \in r.answer :
      /\ reg.registered_at >= r.registered
      /\ reg.registered_at = r.registered => reg.utxo_address = r.request.utxo_address

(* A restart loses no registration that was answered after its save had    *)
(* succeeded: the username resolves, to this registration or a newer one.  *)
SavedRegistrationSurvives ==
  [][process = "down" /\ process' = "running" =>
       \A r \in responses : r.saved =>
         /\ Lower(r.request.username) \in DOMAIN data'
         /\ data'[Lower(r.request.username)].registered_at >= r.registered]_registryVars

----------------------------------------------------------------------------
(* What makes them true: the registry has every registration that it was   *)
(* asked for since it was started, or a newer one of the same name, and so *)
(* has every snapshot in the file that is new enough.                      *)
IsRegistry(d) ==
  /\ d = [u \in DOMAIN d |-> d[u]]
  /\ DOMAIN d \subseteq {Lower(u) : u \in Usernames}
  /\ \A u \in DOMAIN d : d[u] \in Registration

DataIsRegistry ==
  /\ IsRegistry(data)
  /\ \A i \in Inodes, k \in 1..2 : inodes[i][k] # Hole => IsRegistry(inodes[i][k].data)

Has(d, req, v) ==
  /\ Lower(req.username) \in DOMAIN d
  /\ d[Lower(req.username)].registered_at >= v
  /\ d[Lower(req.username)].registered_at = v => d[Lower(req.username)].utxo_address = req.utxo_address

FileHas(req, v) ==
  path # 0 => \A k \in 1..2 :
    inodes[path][k] # Hole /\ inodes[path][k].version >= v => Has(inodes[path][k].data, req, v)

RequestsAreKept ==
  /\ request \in [Handlers -> {<<>>} \cup Request]
  /\ \A h \in Handlers : request[h] # <<>> =>
       /\ process = "running" /\ mine[h] \in 1..MaxVersion
       /\ Has(data, request[h], mine[h]) /\ FileHas(request[h], mine[h])

ResponsesAreKept ==
  \A r \in responses : r.saved =>
    /\ r.registered \in 1..MaxVersion /\ r.registered <= acked
    /\ process = "running" => Has(data, r.request, r.registered)
    /\ FileHas(r.request, r.registered)

RegistryInv ==
  /\ StoreInv
  /\ DataIsRegistry
  /\ RequestsAreKept
  /\ ResponsesAreKept
  /\ AnswerIsOwnOrNewer
============================================================================
