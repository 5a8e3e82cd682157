----------------------------- MODULE DeviceManifest -----------------------------
(***************************************************************************)
(* The device manifest service (src/dm/dm.c) and its client library        *)
(* (src/common/hes_mreg.c): an in-memory registry of what the product      *)
(* profile declares and the interface modules report, queried and updated  *)
(* over REQ/REP and announced over PUB/SUB.                                *)
(*                                                                         *)
(* A client waits for its reply with a timeout.  A request it gave up on   *)
(* is still on its way: the service handles it later and the reply is      *)
(* thrown away.  The notification queue is NNG's SUB buffer, which makes   *)
(* room for a new message by discarding the oldest.                        *)
(*                                                                         *)
(* Runtime address and port ride along with presence and are left out.     *)
(***************************************************************************)
EXTENDS Naturals, Sequences, FiniteSets

CONSTANTS
  Profile,    \* the product profile's modules, in file order: [mt, mi, devs]
  Modules,    \* the interface modules, clients of the service
  Ident,      \* (moduleType, moduleRefIndex) each module was started with
  QueueMax,   \* capacity of the SUB buffer (NNG: 128)
  MaxPending, \* bound: requests of one module on their way at once
  None        \* no reply yet

Slots    == 1 .. Len(Profile)
Statuses == {"unbound", "offline", "online"}
DevsOf(i) == Profile[i].devs
Devices  == UNION {DevsOf(i) : i \in Slots}

ASSUME ProfileAssumption ==
  /\ QueueMax \in Nat \ {0} /\ MaxPending \in Nat \ {0}
  /\ Profile \in Seq([mt : STRING, mi : Nat, devs : SUBSET Nat])
  /\ Ident \in [Modules -> [mt : STRING, mi : Nat]]
  /\ \A i \in Slots : IsFiniteSet(DevsOf(i))
  /\ \A i, j \in Slots : DevsOf(i) \cap DevsOf(j) # {} => i = j
  /\ \A m, n \in Modules : Ident[m] = Ident[n] => m = n

(* A type and an index name one module of the profile. *)
ASSUME IdentityAssumption ==
  \A i, j \in Slots : Profile[i].mt = Profile[j].mt /\ Profile[i].mi = Profile[j].mi => i = j

(* What a reply may carry; a reply is there or it is not. *)
Slices  == {<<>>} \cup [Slots -> BOOLEAN] \cup UNION {[DevsOf(i) -> Statuses] : i \in Slots}
Replies == [error : BOOLEAN, slice : Slices]
ASSUME NoneAssumption == None \notin Replies

VARIABLES
  registry,  \* per profile module: status of each of its devices
  requests,  \* per module: requests on their way, oldest first
  reply,     \* per module: reply to its live request, None while it waits
  notices    \* per module: slices in its SUB socket, oldest first

dmvars == <<registry, requests, reply, notices>>

-----------------------------------------------------------------------------
(* Mutant: modules are told apart by index alone. *)
find_module_index(mt, mi) ==
  LET Hit == {i \in Slots : Profile[i].mi = mi}
  IN  IF Hit = {} THEN 0 ELSE CHOOSE i \in Hit : \A j \in Hit : i <= j

(* The first module of that identity; an empty type matches any.  0: none. *)
find_module(mt, mi) ==
  LET Hit == {i \in Slots : Profile[i].mi = mi /\ (mt # "" => Profile[i].mt = mt)}
  IN  IF Hit = {} THEN 0 ELSE CHOOSE i \in Hit : \A j \in Hit : i <= j

build_slice(i) == registry[i]

(* Mutant: present means that some device is online. *)
module_present_online(i) == DevsOf(i) = {} \/ \E d \in DevsOf(i) : registry[i][d] = "online"

(* Present once it reported one of its devices; a module without devices    *)
(* is inside this same box.                                                *)
module_present(i) == DevsOf(i) = {} \/ \E d \in DevsOf(i) : registry[i][d] # "unbound"
build_modules_list == [i \in Slots |-> module_present(i)]

(* The registry entry after a report: devices it names are bound, the      *)
(* others keep their state.                                                *)
Reported(i, devices) ==
  [d \in DevsOf(i) |-> IF d \in DOMAIN devices
                       THEN IF devices[d] THEN "online" ELSE "offline"
                       ELSE registry[i][d]]

Deliver(queue, slice) == Append(IF Len(queue) < QueueMax THEN queue ELSE Tail(queue), slice)

(* Mutant: the slice is published before it is updated. *)
publish_slice_stale(i, slice) ==
  notices' = [m \in Modules |-> IF Ident[m].mi = Profile[i].mi
                                THEN Deliver(notices[m], build_slice(i)) ELSE notices[m]]

(* The topic is the moduleRefIndex alone.  NNG matches it as a prefix: a   *)
(* subscriber of "1" is also sent what is about "10", which does not parse *)
(* behind the topic and changes nothing; it is left out.                   *)
publish_slice(i, slice) ==
  notices' = [m \in Modules |-> IF Ident[m].mi = Profile[i].mi THEN Deliver(notices[m], slice)
                                ELSE notices[m]]

(* A reply is an error, an acknowledgement, a slice or the module list. *)
Reply(failed, slice) == [error |-> failed, slice |-> slice]

reply_text(m, r) ==
  reply' = IF Head(requests[m]).live THEN [reply EXCEPT ![m] = r] ELSE reply

(* One pass of the service loop: the oldest request of a module. *)
handle_request(m) ==
  /\ requests[m] # <<>>
  /\ requests' = [requests EXCEPT ![m] = Tail(@)]
  /\ LET q == Head(requests[m])
         i == find_module(q.mt, q.mi)
     IN  \/ /\ q.cmd = "modules"
            /\ reply_text(m, Reply(FALSE, build_modules_list))
            /\ UNCHANGED <<registry, notices>>
         \/ /\ q.cmd # "modules" /\ i = 0
            /\ reply_text(m, Reply(TRUE, <<>>))
            /\ UNCHANGED <<registry, notices>>
         \/ /\ i # 0 /\ q.cmd = "query"
            /\ reply_text(m, Reply(FALSE, build_slice(i)))
            /\ UNCHANGED <<registry, notices>>
         \/ /\ i # 0 /\ q.cmd = "report"
            /\ registry' = [registry EXCEPT ![i] = Reported(i, q.devices)]
            /\ IF DOMAIN q.devices \cap DevsOf(i) # {}
               THEN publish_slice(i, Reported(i, q.devices))
               ELSE UNCHANGED notices
            /\ reply_text(m, Reply(FALSE, <<>>))

-----------------------------------------------------------------------------
(* hes_mreg: the client's half. *)

Waiting(m) == \E k \in 1 .. Len(requests[m]) : requests[m][k].live

Request(m, cmd, devices) ==
  [cmd |-> cmd, mt |-> Ident[m].mt, mi |-> Ident[m].mi, devices |-> devices, live |-> TRUE]

(* nng_send() on the REQ socket. *)
Send(m, cmd, devices) ==
  requests' = [requests EXCEPT ![m] = Append(@, Request(m, cmd, devices))]

(* req_reply() gives up: NNG will match no later reply with the request,   *)
(* which reaches the service all the same (its loss takes a restart).      *)
Timeout(m) ==
  /\ Waiting(m) /\ Len(requests[m]) < MaxPending
  /\ requests' = [requests EXCEPT ![m] =
                     [k \in 1 .. Len(@) |-> [@[k] EXCEPT !.live = FALSE]]]
  /\ reply' = [reply EXCEPT ![m] = Reply(TRUE, <<>>)]
  /\ UNCHANGED <<registry, notices>>

(* status_to_online(): only "online" counts. *)
hes_devreg_parse(slice) == [d \in DOMAIN slice |-> slice[d] = "online"]
=================================================================================
