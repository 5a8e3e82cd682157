------------------------------- MODULE HanModules -------------------------------
(***************************************************************************)
(* The HAN interface modules and the presence they keep: the BLE module    *)
(* (src/han/ble/ble.c) and the WiFi module (src/han/wifi/wifi.c), each a   *)
(* process that registers with the device manifest service and then loops: *)
(* apply at most one notification, look at its links, report transitions.  *)
(* The core (src/modules/core/core.c) is a third client: it re-reads the   *)
(* list of modules for the identification service.                         *)
(*                                                                         *)
(* The BLE module is driven by EVENTS, the link transitions its connection *)
(* manager emits; the WiFi module by the LEVEL it reads when it polls.     *)
(* Both take the service's notifications, which echo their own reports.    *)
(***************************************************************************)
EXTENDS DeviceManifest

CONSTANTS
  Ble,     \* the clients that run han_ble_main()
  Core,    \* the clients that run core_main(); the others han_wifi_main()
  Lights   \* devices with the light object, which WiFi declares online at boot

ASSUME KindAssumption ==
  /\ Ble \subseteq Modules /\ Core \subseteq Modules /\ Ble \cap Core = {}
  /\ Lights \subseteq Devices
  \* both interface modules register as HES_MT_INTERFACE
  /\ \A m \in Modules \ Core : Ident[m].mt = "hi"

VARIABLES
  pc,      \* per module: where it is
  online,  \* per module: reg.devices[].online, by device index
  link,    \* per device: the link is there (BLE) / the bulb answers (WiFi)
  up,      \* per device: link state the connection manager last emitted
  todo,    \* per module: events (BLE) or sockets (WiFi) left in this pass
  socks,   \* per module: devices with an open socket (WiFi)
  roster   \* per core: the last module list it was given, None before one

modvars == <<pc, online, up, todo, socks, roster>>
vars    == <<dmvars, modvars, link>>

Slot(m) == find_module(Ident[m].mt, Ident[m].mi)
Own(m)  == IF Slot(m) = 0 THEN {} ELSE DevsOf(Slot(m))

Boot == {"start", "query", "report", "requery"}
Run  == {"loop", "poll", "pass", "wait"}
InCore == {"core", "roster"}
AwaitsReply == {"query", "report", "requery", "wait", "roster"}

-----------------------------------------------------------------------------
Init ==
  /\ registry = [i \in Slots |-> [d \in DevsOf(i) |-> "unbound"]]
  /\ requests = [m \in Modules |-> <<>>]
  /\ reply = [m \in Modules |-> None]
  /\ notices = [m \in Modules |-> <<>>]
  /\ pc = [m \in Modules |-> IF m \in Core THEN "core" ELSE "start"]
  /\ online = [m \in Modules |-> [d \in {} |-> FALSE]]
  /\ link \in [Devices -> BOOLEAN]
  /\ up = [d \in Devices |-> FALSE]
  /\ todo = [m \in Modules |-> <<>>]
  /\ socks = [m \in Modules |-> {}]
  /\ roster = [m \in Core |-> None]

Goto(m, label) == pc' = [pc EXCEPT ![m] = label]

(* hes_mreg_open(), then the first query.  The SUB socket is open first, but *)
(* nothing is published for a module before its own report.                 *)
Start(m) ==
  /\ pc[m] = "start"
  /\ Send(m, "query", <<>>)
  /\ Goto(m, "query")
  /\ UNCHANGED <<registry, reply, notices, online, up, todo, socks, roster, link>>

(* hes_mreg_open() gives up after its retries: the module exits. *)
OpenFails(m) ==
  /\ pc[m] = "start"
  /\ Goto(m, "exit")
  /\ UNCHANGED <<dmvars, online, up, todo, socks, roster, link>>

Answered(m, label) == pc[m] = label /\ reply[m] # None
Consume_not(m) == UNCHANGED reply   \* mutant: the reply is left behind
Consume(m) == reply' = [reply EXCEPT ![m] = None]

(* No slice, or one without devices: the module exits. *)
Refused(m) ==
  /\ Answered(m, "query") \/ Answered(m, "requery")
  /\ reply[m].error \/ (pc[m] = "query" /\ DOMAIN reply[m].slice = {})
  /\ Consume(m)
  /\ Goto(m, "exit")
  /\ UNCHANGED <<registry, requests, notices, online, up, todo, socks, roster, link>>

(* The presence a module claims at boot. *)
Claimed(m, slice) ==
  [d \in DOMAIN slice |-> IF m \in Ble THEN FALSE
                          ELSE d \in Lights \/ hes_devreg_parse(slice)[d]]

Register(m) ==
  /\ Answered(m, "query") /\ ~reply[m].error /\ DOMAIN reply[m].slice # {}
  /\ LET claim == Claimed(m, reply[m].slice)
     IN  /\ online' = [online EXCEPT ![m] = claim]
         /\ Send(m, "report", claim)
  /\ Consume(m)
  /\ Goto(m, "report")
  /\ UNCHANGED <<registry, notices, up, todo, socks, roster, link>>

(* A failed report is only logged; the slice is queried again. *)
Requery(m) ==
  /\ Answered(m, "report")
  /\ Send(m, "query", <<>>)
  /\ Consume(m)
  /\ Goto(m, "requery")
  /\ UNCHANGED <<registry, notices, online, up, todo, socks, roster, link>>

(* The service's view is adopted; WiFi opens a socket per online device    *)
(* (an open may fail) and exits when it has none; either module exits when *)
(* the core's bus cannot be dialled.                                       *)
Serve(m) ==
  /\ Answered(m, "requery") /\ ~reply[m].error
  /\ LET view == hes_devreg_parse(reply[m].slice)
     IN  /\ online' = [online EXCEPT ![m] = view]
         /\ \E opened \in SUBSET {d \in DOMAIN view : view[d] /\ m \notin Ble} :
              /\ socks' = [socks EXCEPT ![m] = opened]
              /\ \/ (m \in Ble \/ opened # {}) /\ Goto(m, "loop")
                 \/ Goto(m, "exit")
  /\ Consume(m)
  /\ UNCHANGED <<registry, requests, notices, up, todo, roster, link>>

-----------------------------------------------------------------------------
(* The loop.  The bus message a pass handles touches no presence state.    *)

(* merge_slice(): devices the slice does not mention keep their state. *)
merge_slice(m, slice) ==
  [d \in DOMAIN online[m] |-> IF d \in DOMAIN slice THEN hes_devreg_parse(slice)[d]
                              ELSE online[m][d]]

(* One notification per pass, the oldest. *)
Merge(m) ==
  /\ pc[m] = "loop" /\ notices[m] # <<>>
  /\ online' = [online EXCEPT ![m] = merge_slice(m, Head(notices[m]))]
  /\ notices' = [notices EXCEPT ![m] = Tail(@)]
  /\ Goto(m, "poll")
  /\ UNCHANGED <<registry, requests, reply, up, todo, socks, roster, link>>

(* Nothing there, or not yet: the notification is still on its way. *)
NoNotice(m) ==
  /\ pc[m] = "loop"
  /\ Goto(m, "poll")
  /\ UNCHANGED <<dmvars, online, up, todo, socks, roster, link>>

(* The devices of S in the order of the module's table. *)
InOrder(S) == CHOOSE s \in [1 .. Cardinality(S) -> S] :
                \A i, j \in 1 .. Cardinality(S) : i < j => s[i] < s[j]

(* hes_ble_mgr_poll(): transitions since the last poll.  A link that came  *)
(* up may still be connecting, one that went down not yet noticed.         *)
BlePoll(m) ==
  /\ pc[m] = "poll" /\ m \in Ble
  /\ \E S \in SUBSET {d \in Own(m) : up[d] # link[d]} :
       /\ up' = [d \in Devices |-> IF d \in S THEN link[d] ELSE up[d]]
       /\ todo' = [todo EXCEPT ![m] = InOrder(S)]
  /\ Goto(m, "pass")
  /\ UNCHANGED <<dmvars, online, socks, roster, link>>

(* Mutant: devices that are offline are not polled. *)
WifiPoll_online(m) ==
  /\ pc[m] = "poll" /\ m \notin Ble
  /\ todo' = [todo EXCEPT ![m] = InOrder({d \in socks[m] : online[m][d]})]
  /\ Goto(m, "pass")
  /\ UNCHANGED <<dmvars, online, up, socks, roster, link>>

(* Mutant: devices without a socket are asked, too. *)
WifiPoll_all(m) ==
  /\ pc[m] = "poll" /\ m \notin Ble
  /\ todo' = [todo EXCEPT ![m] = InOrder(Own(m))]
  /\ Goto(m, "pass")
  /\ UNCHANGED <<dmvars, online, up, socks, roster, link>>

(* The poll period has elapsed: every device with a socket is asked. *)
WifiPoll(m) ==
  /\ pc[m] = "poll" /\ m \notin Ble
  /\ todo' = [todo EXCEPT ![m] = InOrder(socks[m])]
  /\ Goto(m, "pass")
  /\ UNCHANGED <<dmvars, online, up, socks, roster, link>>

WifiNotDue(m) ==
  /\ pc[m] = "poll" /\ m \notin Ble
  /\ Goto(m, "loop")
  /\ UNCHANGED <<dmvars, online, up, todo, socks, roster, link>>

(* What the pass found for a device: the event, or the level just read. *)
Found(m, d) == IF m \in Ble THEN up[d] ELSE link[d]

(* A transition against the module's own flag is reported: the whole slice. *)
Transition(m) ==
  /\ pc[m] = "pass" /\ todo[m] # <<>>
  /\ LET d == Head(todo[m])
     IN  /\ Found(m, d) # online[m][d]
         /\ online' = [online EXCEPT ![m][d] = Found(m, d)]
         /\ Send(m, "report", [online[m] EXCEPT ![d] = Found(m, d)])
  /\ todo' = [todo EXCEPT ![m] = Tail(@)]
  /\ Goto(m, "wait")
  /\ UNCHANGED <<registry, reply, notices, up, socks, roster, link>>

NoTransition(m) ==
  /\ pc[m] = "pass" /\ todo[m] # <<>>
  /\ Found(m, Head(todo[m])) = online[m][Head(todo[m])]
  /\ todo' = [todo EXCEPT ![m] = Tail(@)]
  /\ UNCHANGED <<dmvars, pc, online, up, socks, roster, link>>

(* The report's result is ignored. *)
ReportDone(m) ==
  /\ Answered(m, "wait")
  /\ Consume(m)
  /\ Goto(m, "pass")
  /\ UNCHANGED <<registry, requests, notices, online, up, todo, socks, roster, link>>

PassDone(m) ==
  /\ pc[m] = "pass" /\ todo[m] = <<>>
  /\ Goto(m, "loop")
  /\ UNCHANGED <<dmvars, online, up, todo, socks, roster, link>>

-----------------------------------------------------------------------------
(* core_inventory_refresh(): the list is asked for every ten seconds, when *)
(* the service can be dialled; a failed query keeps the last one.          *)
CoreRefresh(m) ==
  /\ pc[m] = "core"
  /\ Send(m, "modules", <<>>)
  /\ Goto(m, "roster")
  /\ UNCHANGED <<registry, reply, notices, online, up, todo, socks, roster, link>>

CoreRefreshed(m) ==
  /\ Answered(m, "roster")
  /\ roster' = [roster EXCEPT ![m] = IF reply[m].error THEN @ ELSE reply[m].slice]
  /\ Consume(m)
  /\ Goto(m, "core")
  /\ UNCHANGED <<registry, requests, notices, online, up, todo, socks, link>>

-----------------------------------------------------------------------------
(* Links come and go. *)
LinkChanges(d) ==
  /\ link' = [link EXCEPT ![d] = ~@]
  /\ UNCHANGED <<dmvars, modvars>>

ModuleStep(m) ==
  \/ Start(m) \/ OpenFails(m) \/ Refused(m) \/ Register(m) \/ Requery(m) \/ Serve(m)
  \/ Merge(m) \/ NoNotice(m)
  \/ BlePoll(m) \/ WifiPoll(m) \/ WifiNotDue(m)
  \/ Transition(m) \/ NoTransition(m) \/ ReportDone(m) \/ PassDone(m)
  \/ CoreRefresh(m) \/ CoreRefreshed(m)

ServiceStep(m) == handle_request(m) /\ UNCHANGED <<modvars, link>>
ClientTimeout(m) == Timeout(m) /\ UNCHANGED <<modvars, link>>

Next ==
  \/ \E m \in Modules : ModuleStep(m) \/ ServiceStep(m) \/ ClientTimeout(m)
  \/ \E d \in Devices : LinkChanges(d)

(* Every process keeps running; a notification arrives eventually and the  *)
(* WiFi poll period elapses again and again (10 s against 200 ms passes).  *)
Fairness ==
  \A m \in Modules : /\ WF_vars(ModuleStep(m)) /\ WF_vars(ServiceStep(m))
                     /\ SF_vars(Merge(m)) /\ SF_vars(WifiPoll(m))

Spec == Init /\ [][Next]_vars /\ Fairness

-----------------------------------------------------------------------------
(* Properties *)

(* Every variable keeps its type. *)
TypeOK ==
  /\ \A i \in Slots : registry[i] \in [DevsOf(i) -> Statuses]
  /\ pc \in [Modules -> Boot \cup Run \cup InCore \cup {"exit"}]
  /\ link \in [Devices -> BOOLEAN] /\ up \in [Devices -> BOOLEAN]
  /\ \A m \in Modules :
       /\ online[m] \in [Own(m) -> BOOLEAN] \cup [{} -> BOOLEAN]
       /\ socks[m] \subseteq Own(m)
       /\ todo[m] \in Seq(Own(m))
       /\ Len(notices[m]) <= QueueMax
       /\ Len(requests[m]) <= MaxPending
       /\ \A k \in 1 .. Len(requests[m]) : requests[m][k].live => k = Len(requests[m])

(* Nothing of the module is on its way, in either direction. *)
Settled(m) == requests[m] = <<>> /\ notices[m] = <<>>

(* However reports, late ones included, and notifications interleave: once *)
(* nothing is on its way, a running module and the service hold the same   *)
(* presence for each of its devices.                                       *)
ViewsAgree ==
  \A m \in Modules : pc[m] \in Run /\ Settled(m) =>
    online[m] = hes_devreg_parse(build_slice(Slot(m)))

(* A module waits only while its request is on its way or its reply has    *)
(* come: no reply, late or lost to a timeout, strands it.                  *)
NoOrphanWait ==
  \A m \in Modules :
    pc[m] \in AwaitsReply <=> (Waiting(m) \/ reply[m] # None)

(* The module list the core answers inventory questions from may be old,   *)
(* but never claims a module that the service does not count as present.   *)
RosterSound ==
  \A m \in Core : roster[m] # None =>
    \A i \in Slots : roster[m][i] => build_modules_list[i]

(* A slice a module is given lists the devices the profile declares for    *)
(* its own (moduleType, moduleRefIndex), not those of the module that      *)
(* shares its index and stands before it in the file.                      *)
OwnSlice ==
  \A m \in Modules : \A i \in Slots :
    (/\ pc[m] \in {"query", "requery"} /\ reply[m] # None /\ ~reply[m].error
     /\ Profile[i].mt = Ident[m].mt /\ Profile[i].mi = Ident[m].mi)
    => DOMAIN reply[m].slice = Profile[i].devs

(* "track real presence": when the devices of a running WiFi module stop   *)
(* coming and going, every one it has a socket for is eventually, and then *)
(* forever, registered as what it is, although the module keeps taking     *)
(* echoes of its own older reports for news.                               *)
Reg(m, d) == registry[Slot(m)][d] = "online"
WifiConverges ==
  \A m \in Modules \ (Ble \cup Core) : \A S \in SUBSET Own(m) :
    <>[](pc[m] \in Run /\ \A d \in Own(m) : link[d] <=> d \in S)
      => <>[](\A d \in socks[m] : Reg(m, d) <=> d \in S)

(* Module, service and devices agree, and nothing is on its way. *)
InAgreement(m) ==
  /\ pc[m] \in Run /\ Settled(m)
  /\ \A d \in socks[m] : online[m][d] = link[d] /\ (Reg(m, d) <=> link[d])

(* A WiFi module in agreement with its devices stays there until one comes *)
(* or goes: no other module's report or topic, no late reply and no round  *)
(* of polling makes it report or take in anything else.                    *)
AgreementKept ==
  [][UNCHANGED link =>
       \A m \in Modules \ (Ble \cup Core) : InAgreement(m) => InAgreement(m)']_vars

(* "On link up/down, update our device's online flag and report the        *)
(* presence change": once nothing is on its way and no event is left, the  *)
(* BLE module's flag is the link state its manager last emitted.           *)
BleTracksLink ==
  \A m \in Ble : pc[m] = "loop" /\ Settled(m) =>
    \A d \in Own(m) : online[m][d] = up[d]
=================================================================================
