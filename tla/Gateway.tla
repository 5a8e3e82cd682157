--------------------------------- MODULE Gateway --------------------------------
(***************************************************************************)
(* The core module as its clients see it (src/modules/core/core.c): it     *)
(* starts from an identity document and a policy, lets the policy write    *)
(* into its binding map, answers requests, and decides about the messages  *)
(* the binding map asks about.  It may be stopped and started again on the *)
(* same files.  What the binding map does with a message is in BindingMap, *)
(* the life of the objects and the sync thread in CoreServices.            *)
(***************************************************************************)
EXTENDS Identity, Dispatch

CONSTANTS
  Launches,   \* the files: [identity : ..., policy : ...]
  BmRows,     \* the binding map's rows, in order: [addr : ..., at : ...]
  Addrs,      \* its addressing table, in order: [di : ..., mt : ..., mi : ...]
  Rosters,    \* the module lists the manifest service may answer with
  Requests,   \* messages to local objects and devices
  Commands,   \* messages the binding map asks about
  MaxMaps     \* ID_MAX_BINDING_MAPS

(* A document's fingerprint, where it has one, is one HKDF is known for,   *)
(* and its sections are arrays; a request carries what the handlers read;  *)
(* the ghost `made` of a proof says for which message its signature was    *)
(* made.                                                                   *)
IsArray(rows) == rows \in Seq(Range(rows))
ASSUME LaunchAssumption ==
  \A l \in Launches :
    /\ Provisioned(l.identity) => l.identity.fp \in Fp
    /\ l.policy \notin {NoFile, Unreadable} =>
         \A part \in {"classes", "credentials", "groups", "permissions", "proofs"} : IsArray(l.policy[part])
ASSUME RosterAssumption == MaxMaps \in Nat /\ \A l \in Rosters : IsArray(l)
ASSUME RequestAssumption ==
  \A m \in Requests : m.path \in Seq(STRING) /\ {"path", "da", "ei", "payload"} \subseteq DOMAIN m
ASSUME SignatureAssumption ==
  \A m \in Commands :
    \/ m.ci.proof = NoProof \/ m.ci.proof.sig = Missing
    \/ LET made == m.ci.proof.made
       IN  made = <<made[1], made[2]>> /\ m.ci.proof.sig.msg = crypto_proof_message(made[1], made[2])

VARIABLES
  gpc,        \* where core_main() is
  files,      \* the files it was started with
  bus,        \* the hub's sockets: closed, open, or deaf (nothing subscribed)
  policy,     \* the A&A service's tables
  idKey,      \* the identification service's copy of the key
  cryptoKey,  \* the cryptographic service's
  pubId,      \* 'pi'
  at,         \* the authorType field of each row
  todo,       \* policy writes still to make
  roster,     \* inventory.modules, Missing until a list has arrived
  last,       \* the last message and what became of it
  published,  \* every 'pi' this gateway has ever had
  psaFault    \* PSA once refused a candidate it should have taken

keyvars == <<idKey, cryptoKey, pubId, published, psaFault>>
mapvars == <<policy, at, todo>>
gwvars == <<gpc, files, bus, mapvars, keyvars, roster, last>>

MapRow == 1 .. Len(BmRows)
Nothing == [kind |-> "none"]
Defaults == [r \in MapRow |-> BmRows[r].at]

Powered(l) ==
  /\ gpc = "identity" /\ files = l /\ bus = "closed"
  /\ policy = EmptyPolicy /\ at = Defaults /\ todo = <<>>
  /\ idKey = Missing /\ cryptoKey = Missing /\ pubId = Missing
  /\ published = {} /\ psaFault = FALSE
  /\ roster = Missing /\ last = Nothing

-----------------------------------------------------------------------------
(* Start-up *)

(* id_service_create(), load_identity(), derive_identity_key(): the first  *)
(* counter PSA accepts.  A counter that ought to do may be passed over     *)
(* when PSA fails for a reason of its own.                                 *)
LoadIdentity(k) ==
  LET file == files.identity
      key  == DerivedKey(file.fp, k)
      pi   == Point(key).x
  IN  /\ gpc = "identity" /\ Provisioned(file) /\ k \in Counters(file.fp)
      /\ document_pi_matches(file.pi, pi)
      /\ idKey' = key /\ pubId' = pi /\ published' = published \cup {pi}
      /\ psaFault' = (psaFault \/ \E j \in Counters(file.fp) : j < k)
      /\ gpc' = "bus"
      /\ UNCHANGED <<files, bus, mapvars, cryptoKey, roster, last>>

(* No usable document, a 'pi' that disagrees, or PSA cannot do it: the     *)
(* gateway does not start.                                                 *)
RefuseIdentity ==
  /\ gpc = "identity"
  /\ gpc' = "exited"
  /\ UNCHANGED <<files, bus, mapvars, keyvars, roster, last>>

(* hes_bus_hub_open(): a socket or a listener that fails is fatal, a       *)
(* subscription that fails is only logged.                                 *)
hes_bus_hub_open ==
  /\ gpc = "bus"
  /\ \/ gpc' = "services" /\ bus' \in {"open", "deaf"} /\ UNCHANGED idKey
     \/ gpc' = "exited" /\ idKey' = Missing /\ UNCHANGED bus
  /\ UNCHANGED <<files, mapvars, cryptoKey, pubId, published, psaFault, roster, last>>

(* auth_service_create(); the key moves to the crypto service.             *)
StartServices ==
  /\ gpc = "services"
  /\ policy' = load_policy(files.policy)
  /\ cryptoKey' = idKey /\ idKey' = Missing
  /\ todo' = Writes(policy')
  /\ gpc' = "propagate"
  /\ UNCHANGED <<files, bus, at, pubId, published, psaFault, roster, last>>

(* core_write_at(), bm_set_at(): the first row with the address, if any. *)
FirstAt(addr) ==
  {r \in MapRow : BmRows[r].addr = addr /\ \A q \in 1 .. r - 1 : BmRows[q].addr # addr}

auth_service_propagate ==
  /\ gpc = "propagate" /\ todo # <<>>
  /\ at' = [r \in MapRow |-> IF r \in FirstAt(Head(todo).lo) THEN Head(todo).vn ELSE at[r]]
  /\ todo' = Tail(todo)
  /\ UNCHANGED <<gpc, files, bus, policy, keyvars, roster, last>>

EnterService ==
  /\ gpc = "propagate" /\ todo = <<>>
  /\ gpc' = "serve"
  /\ UNCHANGED <<files, bus, mapvars, keyvars, roster, last>>

-----------------------------------------------------------------------------
(* What the services answer *)

(* core_inventory_refresh(): a list that arrives replaces the last one. *)
core_inventory_refresh(l) ==
  /\ gpc = "serve" /\ roster # l /\ last = Nothing
  /\ roster' = l
  /\ UNCHANGED <<gpc, files, bus, mapvars, keyvars, last>>

count_distinct_modules(type) ==
  Cardinality({Addrs[i].mi : i \in {j \in 1 .. Len(Addrs) : Addrs[j].mt = type}})

OfType(mt) == Where(roster, LAMBDA row : row.mt = mt)
Capped(n) == IF n < MaxMaps THEN n ELSE MaxMaps

(* core_gateway_inventory(): the module list, or the addressing table plus *)
(* this module itself.                                                     *)
core_gateway_inventory ==
  IF roster # Missing
    THEN [nh |-> Len(OfType("hi")), nw |-> Len(OfType("wi")), ns |-> Len(OfType("sm")),
          maps |-> [i \in 1 .. Capped(Len(OfType("sm"))) |-> OfType("sm")[i].mi]]
    ELSE [nh |-> count_distinct_modules("hi"), nw |-> count_distinct_modules("wi"),
          ns |-> 1 + count_distinct_modules("sm"),
          maps |-> [i \in 1 .. Capped(1) |-> 1]]

id_config_on_get == << <<"rq", "ma">>, <<"si", "ye">> >>

id_status_on_get ==
  LET inv == core_gateway_inventory IN
  << <<"pi", pubId>>, <<"vr", "set">>, <<"hs", "set">>, <<"ch", "set">>, <<"pd", "set">>,
     <<"nh", inv.nh>>, <<"nw", inv.nw>>, <<"ns", inv.ns>>,
     <<"vl", "set">>, <<"il", "set">>, <<"ll", "set">>, <<"rl", "set">> >>

id_discovery_on_get ==
  LET maps == core_gateway_inventory.maps
  IN  [i \in 1 .. Len(maps) |-> <<"mt", <<"sm", maps[i], 0>> >>]

crypto_config_on_get == << <<"vr", "1.0.0">>, <<"rq", "ma">>, <<"si", "no">> >>

(* The time objects: of their records, the two that a client reads by name. *)
build_realtime_payload == << <<"dt", "ss">>, <<"va", "set">> >>
build_localtz_payload == << <<"dt", "ai,ai">>, <<"va", "set">> >>
build_source_payload == << <<"dt", "sl">>, <<"va", "set">> >>

on_get(o, m) ==
  CASE o = 1 -> id_config_on_get
    [] o = 2 -> id_status_on_get
    [] o = 3 -> id_discovery_on_get
    [] o = 4 -> build_realtime_payload
    [] o = 5 -> build_localtz_payload
    [] o = 6 -> build_source_payload
    [] o = 7 -> auth_on_get(policy)
    [] o = 8 -> crypto_config_on_get
    [] OTHER -> crypto_on_get(cryptoKey, m.ei, m.payload)

(* dispatch_to_local_objects() on a GET *)
Reply(m) ==
  LET o == find_object(m.path) IN trim_payload(on_get(o, m), Requested(o, m.path, m.da))

-----------------------------------------------------------------------------
(* The loop *)

(* Between two passes: hes_bus_recv() may bring the next message. *)
Idle == gpc = "serve" /\ last = Nothing
Local(m) == find_object(m.path) # NoObject

Answer(m) ==
  /\ Idle /\ bus = "open" /\ m.verb = "GET" /\ Local(m)
  /\ last' = [kind |-> "answer", msg |-> m, out |-> Reply(m)]
  /\ UNCHANGED <<gpc, files, bus, mapvars, keyvars, roster>>

(* id_on_put(), time_on_put(), auth_on_put(), crypto_on_put(): all refuse. *)
RefusePut(m) ==
  /\ Idle /\ bus = "open" /\ m.verb = "PUT" /\ Local(m)
  /\ last' = [kind |-> "refused", msg |-> m]
  /\ UNCHANGED <<gpc, files, bus, mapvars, keyvars, roster>>

(* bm_is_declared_destination(): by its first row, a device behind a HAN   *)
(* or WAN interface module.                                                *)
bm_is_declared_destination(m) ==
  LET rows == Where(Addrs, LAMBDA a : a.di = m.di)
  IN  m.path # <<>> /\ m.di # 0 /\ rows # <<>> /\ rows[1].mt \in {"hi", "wi"}

Relay(m) ==
  /\ Idle /\ bus = "open" /\ ~Local(m)
  /\ last' = IF m.verb = "PUT" /\ bm_is_declared_destination(m)
               THEN [kind |-> "relayed", msg |-> m] ELSE [kind |-> "dropped", msg |-> m]
  /\ UNCHANGED <<gpc, files, bus, mapvars, keyvars, roster>>

(* core_authorize(): the policy, then the proof if the policy asks for it. *)
core_authorize(m, addr) ==
  /\ authorize(policy, m.ci, m.un, addr)
  /\ LET pi == required_proof_pi(policy, addr)
     IN  pi = Missing \/ crypto_verify_proof(m.ci.proof, pi, crypto_proof_message(m.path, m.payload))

Authorize(m, r) ==
  /\ Idle /\ bus = "open"
  /\ last' = [kind |-> "gate", msg |-> m, at |-> BmRows[r].addr,
              ok |-> core_authorize(m, BmRows[r].addr)]
  /\ UNCHANGED <<gpc, files, bus, mapvars, keyvars, roster>>

(* The rest of the pass: what else it does is in BindingMap and            *)
(* CoreServices.                                                           *)
PassOver ==
  /\ gpc = "serve" /\ last # Nothing
  /\ last' = Nothing
  /\ UNCHANGED <<gpc, files, bus, mapvars, keyvars, roster>>

(* SIGTERM: everything in memory is gone, the files are not. *)
Shutdown ==
  /\ Idle
  /\ gpc' = "exited" /\ bus' = "closed"
  /\ policy' = EmptyPolicy /\ at' = Defaults /\ todo' = <<>>
  /\ idKey' = Missing /\ cryptoKey' = Missing /\ pubId' = Missing
  /\ roster' = Missing /\ last' = Nothing
  /\ UNCHANGED <<files, published, psaFault>>

Restart ==
  /\ gpc = "exited"
  /\ gpc' = "identity" /\ pubId' = Missing
  /\ UNCHANGED <<files, bus, mapvars, idKey, cryptoKey, published, psaFault, roster, last>>

GwNext ==
  \/ \E k \in 0 .. 3 : LoadIdentity(k)
  \/ RefuseIdentity \/ hes_bus_hub_open \/ StartServices
  \/ auth_service_propagate \/ EnterService
  \/ \E l \in Rosters : core_inventory_refresh(l)
  \/ \E m \in Requests : Answer(m) \/ RefusePut(m) \/ Relay(m)
  \/ \E m \in Commands, r \in MapRow : Authorize(m, r)
  \/ PassOver \/ Shutdown \/ Restart

-----------------------------------------------------------------------------
(* Properties *)

(* Every variable keeps its type, and of the gateway's two services at     *)
(* most one holds the identity key ("exactly one copy of the secret").     *)
GwTypeOK ==
  /\ gpc \in {"identity", "bus", "services", "propagate", "serve", "exited"}
  /\ files \in Launches /\ bus \in {"closed", "open", "deaf"}
  /\ policy.loaded \in BOOLEAN /\ Len(policy.proofs) <= MaxProofs
  /\ DOMAIN at = MapRow
  /\ {idKey, cryptoKey} \subseteq 1 .. Order - 1 \cup {Missing}
  /\ Missing \in {idKey, cryptoKey}
  /\ roster \in Rosters \cup {Missing}
  /\ published \subseteq 1 .. Order - 1 /\ pubId \in published \cup {Missing}
  /\ last.kind \in {"none", "answer", "refused", "relayed", "dropped", "gate"}

(* "the same walk propagation uses, applied to one message": where one     *)
(* class alone has a say about a row, the start-up propagation left full   *)
(* access ('fl') in the binding map exactly when a message with that       *)
(* class's credential is let through.                                      *)
Governs(cls, addr) == \E k \in 1 .. Len(Applicable(policy, cls)) : Applicable(policy, cls)[k].lo = addr

SoleClass(c, addr) ==
  /\ Governs(policy.classes[c], addr)
  /\ \A d \in 1 .. Len(policy.classes) : d # c => ~Governs(policy.classes[d], addr)

SpeaksFor(cred, c) ==
  /\ cred.cv = "ye" /\ cred.ci # Empty /\ policy.classes[c].cr = cred.id
  /\ \A d \in 1 .. c - 1 : policy.classes[d].cr # cred.id
  /\ \A k \in 1 .. Len(policy.credentials) : policy.credentials[k].ci = cred.ci => policy.credentials[k] = cred

WalksAgree ==
  gpc = "serve" =>
    \A r \in MapRow, c \in 1 .. Len(policy.classes), k \in 1 .. Len(policy.credentials) :
      LET addr == BmRows[r].addr
          cred == policy.credentials[k]
      IN  (r \in FirstAt(addr) /\ SoleClass(c, addr) /\ SpeaksFor(cred, c))
            => (at[r] = "fl" <=> authorize(policy, [token |-> cred.ci, proof |-> NoProof], Empty, addr))

(* "presence means a proof is MANDATORY": when the document's proofRequired *)
(* section is well formed and fits, a message is let through to an address *)
(* it names only with a proof by a named identity, made for this very      *)
(* message: not for another address, not for another payload.              *)
WellFormed(rows) ==
  /\ Len(rows) <= MaxProofs
  /\ \A k \in 1 .. Len(rows) : rows[k] # NotObject /\ rows[k].at \notin {Missing, Empty} /\ rows[k].pi \notin {Missing, Malformed}

ProvenBy(m, pi) ==
  /\ m.ci.proof # NoProof
  /\ m.ci.proof.sig # Missing
  /\ Point(m.ci.proof.sig.by).x = pi
  /\ m.ci.proof.made = <<m.path, m.payload>>

ProofAsDeclared ==
  (last.kind = "gate" /\ last.ok /\ WellFormed(files.policy.proofs)) =>
    LET named == {files.policy.proofs[k].pi :
                    k \in {j \in 1 .. Len(files.policy.proofs) : files.policy.proofs[j].at = last.at}}
    IN  named = {} \/ \E pi \in named : ProvenBy(last.msg, pi)

(* A challenge is answered with a signature that verifies under the point  *)
(* a verifier rebuilds from the served 'pi' alone (the even root).         *)
ProofVerifies ==
  last.kind = "answer" =>
    \A k \in 1 .. Len(last.out) : last.out[k][1] = "sig" =>
       crypto_verify_message([x |-> pubId, even |-> TRUE], last.msg.payload, last.out[k][2])

(* "the same 'fp' gives the same 'pi' across restarts": unless PSA failed  *)
(* for a reason of its own and the document does not pin 'pi'.             *)
PiStationary ==
  (~psaFault \/ files.identity.pi # Missing) => Cardinality(published) <= 1

(* Data named in the address and data named in the query are the same      *)
(* request: "/a/x,y" and "/a?da=x,y" get the same answer.                  *)
TwoFormsAgree ==
  last.kind = "answer" =>
    LET m == last.msg
        n == Len(m.path)
    IN  (m.path \notin {Addresses[o] : o \in Object}) =>
           last.out = Reply([m EXCEPT !.path = SubSeq(m.path, 1, n - 1), !.da = Named(m.path[n])])
=================================================================================
