------------------------------ MODULE BluezManager ------------------------------
(***************************************************************************)
(* The BlueZ backend of the BLE connection manager                         *)
(* (src/han/ble/hes_ble_bluez.c) and the loop of the BLE module that       *)
(* drives it (src/han/ble/ble.c).  One thread: a pass polls the manager,   *)
(* which visits its devices in turn and may block in D-Bus calls, then     *)
(* takes the events (what it does with them is in HanModules).  BlueZ, the *)
(* radio and the tags are the environment; their signals are only seen     *)
(* when the GLib context is pumped.                                        *)
(*                                                                         *)
(* Time: wait[i] is next_try relative to the `now` the poll started with,  *)
(* however long its calls block; a pass takes 0 .. MaxPass seconds.        *)
(***************************************************************************)
EXTENDS Naturals, Sequences

CONSTANTS
  N,          \* managed devices: m->n, devices are 1 .. N
  MaxDevs,    \* HES_BLE_MAX_DEVS, which is also the room for events
  RetryBase, RetryMax, ScanRetry,   \* RETRY_BASE_S, RETRY_MAX_S, SCAN_RETRY_S
  Width,      \* bits of an int
  MaxPass,    \* the longest a pass may take, in seconds
  Unknown     \* no value

ASSUME ManagerAssumption ==
  /\ N \in Nat /\ MaxDevs \in Nat /\ N <= MaxDevs
  /\ {RetryBase, RetryMax, ScanRetry, MaxPass} \subseteq Nat \ {0}
  /\ Width \in Nat \ {0, 1}
  /\ Unknown \notin {0, 1}

Dev == 1 .. N

VARIABLES
  hasBus,   \* g_conn: the system bus was there at hes_ble_mgr_init()
  path,     \* d->path is known
  scanning, \* d->scanning
  proxy,    \* d->dev
  conn,     \* d->connected, as last signalled or read from the proxy's cache
  link,     \* m->dev[i].state: off, connecting, online
  attempt,  \* d->attempt (only the shift reads it: kept modulo Width)
  wait,     \* d->next_try
  sub,      \* d->btn: subscribed to the button characteristic
  button,   \* d->button_state, Unknown while !have_button
  mpc,      \* where the module is in its pass
  cur,      \* the device hes_ble_mgr_poll() is at
  events,   \* the events of this poll
  \* the environment
  linked,   \* BlueZ has a connection to the tag
  known,    \* BlueZ has an object for the tag
  radio     \* discovery: idle, scan, or stuck (a StopDiscovery was lost)

mgrvars == <<path, scanning, proxy, conn, link, attempt, wait, sub, button>>
passvars == <<mpc, cur, events>>
envvars == <<linked, known, radio>>
blevars == <<hasBus, mgrvars, passvars, envvars>>

All(v) == [i \in Dev |-> v]

-----------------------------------------------------------------------------
(* hes_ble_mgr_init(), hes_ble_mgr_add() for every device of the slice:    *)
(* with or without a bus, and BlueZ knowing some of the tags already.      *)
BleStart(b, k) ==
  /\ hasBus = b
  /\ path = All(FALSE) /\ scanning = All(FALSE) /\ proxy = All(FALSE)
  /\ conn = All(FALSE) /\ link = All("off") /\ attempt = All(0)
  /\ wait = All(0) /\ sub = All(FALSE) /\ button = All(Unknown)
  /\ mpc = "poll" /\ cur = 1 /\ events = <<>>
  /\ linked = All(FALSE) /\ known = k /\ radio = "idle"
BleInit == \E b \in BOOLEAN, k \in [Dev -> BOOLEAN] : BleStart(b, k)

-----------------------------------------------------------------------------
(* hes_ble_mgr_poll() *)

(* on_device_props(), on_btn_value(): what one pump of the context may     *)
(* deliver; some signals may still be on their way.                        *)
Signalled(S) == [i \in Dev |-> IF i \in S /\ path[i] THEN linked[i] ELSE conn[i]]
on_btn_value(i, v) == button' = [button EXCEPT ![i] = IF sub[i] THEN v ELSE @]
Notifies == UNCHANGED button \/ \E i \in Dev, v \in {0, 1} : on_btn_value(i, v)
Pump == (\E S \in SUBSET Dev : conn' = Signalled(S)) /\ Notifies

PollStart ==
  /\ mpc = "poll"
  /\ IF hasBus THEN Pump ELSE UNCHANGED <<conn, button>>
  /\ mpc' = "visit" /\ cur' = 1
  /\ UNCHANGED <<hasBus, path, scanning, proxy, link, attempt, wait, sub, events, envvars>>

At(i)  == mpc = "visit" /\ cur = i /\ i \in Dev
Due_few(i) == wait[i] = 0 /\ attempt[i] < Width - 1   \* mutant: gives up in the end
Due(i) == wait[i] = 0

(* Mutant: discovery is not ended. *)
resolve_path_scans(i) ==
  /\ At(i) /\ hasBus /\ ~path[i] /\ Due(i) /\ known[i]
  /\ path' = [path EXCEPT ![i] = TRUE]
  /\ scanning' = [scanning EXCEPT ![i] = FALSE]
  /\ wait' = [wait EXCEPT ![i] = ScanRetry]
  /\ cur' = cur + 1
  /\ UNCHANGED <<hasBus, proxy, conn, link, attempt, sub, button, mpc, events, envvars>>

(* resolve_path(), stop_discovery(): the object manager knows the tag. *)
resolve_path(i) ==
  /\ At(i) /\ hasBus /\ ~path[i] /\ Due(i) /\ known[i]
  /\ path' = [path EXCEPT ![i] = TRUE]
  /\ scanning' = [scanning EXCEPT ![i] = FALSE]
  /\ radio' \in IF radio = "scan" THEN {"idle", "stuck"} ELSE {radio}
  /\ wait' = [wait EXCEPT ![i] = ScanRetry]
  /\ cur' = cur + 1
  /\ UNCHANGED <<hasBus, proxy, conn, link, attempt, sub, button, mpc, events, linked, known>>

(* It does not, or the call fails: discovery is asked for once; the call   *)
(* may fail, and nobody looks at its result.                               *)
start_discovery(i) ==
  /\ At(i) /\ hasBus /\ ~path[i] /\ Due(i)
  /\ scanning' = [scanning EXCEPT ![i] = TRUE]
  /\ radio' \in IF scanning[i] THEN {radio} ELSE {radio, "scan"}
  /\ wait' = [wait EXCEPT ![i] = ScanRetry]
  /\ cur' = cur + 1
  /\ UNCHANGED <<hasBus, path, proxy, conn, link, attempt, sub, button, mpc, events, linked, known>>

(* Online and still connected, not due, or no bus at all. *)
NothingToDo(i) ==
  /\ At(i)
  /\ \/ ~hasBus
     \/ link[i] = "online" /\ conn[i]
     \/ link[i] # "online" /\ ~Due(i)
  /\ cur' = cur + 1
  /\ UNCHANGED <<hasBus, mgrvars, mpc, events, envvars>>

Emit(i, isOnline) ==
  events' = IF Len(events) < MaxDevs THEN Append(events, [dev |-> i, online |-> isOnline]) ELSE events

(* Mutant: the last button value outlives its link. *)
unsubscribe_keeps(i) == sub' = [sub EXCEPT ![i] = FALSE] /\ UNCHANGED button
unsubscribe_button(i) ==
  /\ sub' = [sub EXCEPT ![i] = FALSE]
  /\ button' = [button EXCEPT ![i] = Unknown]

(* Mutant: the state is left online, so the loss is told at every poll. *)
LinkLost_again(i) ==
  /\ At(i) /\ link[i] = "online" /\ ~conn[i]
  /\ unsubscribe_button(i)
  /\ attempt' = [attempt EXCEPT ![i] = 0]
  /\ wait' = [wait EXCEPT ![i] = RetryBase]
  /\ Emit(i, FALSE)
  /\ cur' = cur + 1
  /\ UNCHANGED <<hasBus, path, scanning, proxy, conn, link, mpc, envvars>>

LinkLost(i) ==
  /\ At(i) /\ link[i] = "online" /\ ~conn[i]
  /\ unsubscribe_button(i)
  /\ link' = [link EXCEPT ![i] = "off"]
  /\ attempt' = [attempt EXCEPT ![i] = 0]
  /\ wait' = [wait EXCEPT ![i] = RetryBase]
  /\ Emit(i, FALSE)
  /\ cur' = cur + 1
  /\ UNCHANGED <<hasBus, path, scanning, proxy, conn, mpc, envvars>>

(* Device1.Connect() is called and blocks. *)
Connect(i) ==
  /\ At(i) /\ link[i] # "online" /\ path[i] /\ Due(i)
  /\ proxy' = [proxy EXCEPT ![i] = TRUE]
  /\ link' = [link EXCEPT ![i] = "connecting"]
  /\ mpc' = "connect"
  /\ UNCHANGED <<hasBus, path, scanning, conn, attempt, wait, sub, button, cur, events, envvars>>

Connected(i) ==
  /\ mpc = "connect" /\ cur = i /\ known[i]
  /\ linked' = [linked EXCEPT ![i] = TRUE]
  /\ mpc' = "resolve"
  /\ UNCHANGED <<hasBus, mgrvars, cur, events, known, radio>>

(* wait_resolved() pumps until ServicesResolved; Connected is read then,   *)
(* and the device is online whatever it says.  subscribe_button() may fail.*)
Resolved(i) ==
  /\ mpc = "resolve" /\ cur = i
  /\ \E c \in {TRUE, linked[i]}, S \in SUBSET (Dev \ {i}) :
       conn' = [Signalled(S) EXCEPT ![i] = c]
  /\ Notifies
  /\ link' = [link EXCEPT ![i] = "online"]
  /\ attempt' = [attempt EXCEPT ![i] = 0]
  /\ wait' = [wait EXCEPT ![i] = 0]
  /\ \E s \in BOOLEAN : sub' = [sub EXCEPT ![i] = s]
  /\ Emit(i, TRUE)
  /\ mpc' = "visit" /\ cur' = cur + 1
  /\ UNCHANGED <<hasBus, path, scanning, proxy, envvars>>

(* RETRY_BASE_S << attempt, capped.  The counter is not: the shift by      *)
(* Width - 1 is negative and leaves no pause, and beyond it the processor  *)
(* takes the shift modulo Width.  C leaves both open: this is what x86-64  *)
(* and AArch64 do.                                                         *)
Delay(a) ==
  IF a = Width - 1 THEN 0
  ELSE IF RetryBase * 2 ^ a \in 0 .. RetryMax THEN RetryBase * 2 ^ a ELSE RetryMax

(* Mutant: the attempt is repeated in the same poll. *)
ConnectFailed_again(i) ==
  /\ cur = i
  /\ \/ At(i) /\ link[i] # "online" /\ path[i] /\ Due(i) /\ ~proxy[i]
     \/ mpc \in {"connect", "resolve"}
  /\ link' = [link EXCEPT ![i] = "off"]
  /\ attempt' = [attempt EXCEPT ![i] = (@ + 1) % Width]
  /\ mpc' = "visit"
  /\ UNCHANGED <<hasBus, path, scanning, proxy, conn, wait, sub, button, cur, events, envvars>>

(* No proxy, a failed call or a timeout (8 s, 6 s), the link perhaps up. *)
ConnectFailed(i) ==
  /\ cur = i
  /\ \/ At(i) /\ link[i] # "online" /\ path[i] /\ Due(i) /\ ~proxy[i]
     \/ mpc \in {"connect", "resolve"}
  /\ link' = [link EXCEPT ![i] = "off"]
  /\ attempt' = [attempt EXCEPT ![i] = (@ + 1) % Width]
  /\ wait' = [wait EXCEPT ![i] = Delay(attempt'[i])]
  /\ mpc' = "visit" /\ cur' = cur + 1
  /\ UNCHANGED <<hasBus, path, scanning, proxy, conn, sub, button, events, envvars>>

PollDone ==
  /\ mpc = "visit" /\ cur = N + 1
  /\ mpc' = "events" /\ cur' = 1
  /\ UNCHANGED <<hasBus, mgrvars, events, envvars>>

-----------------------------------------------------------------------------
(* The module takes the events of the poll, then goes round its loop: the  *)
(* poll and the rest of the pass took t seconds.                           *)
TakeEvent ==
  /\ mpc = "events" /\ events # <<>>
  /\ events' = Tail(events)
  /\ UNCHANGED <<hasBus, mgrvars, mpc, cur, envvars>>

NextPass(t) ==
  /\ mpc = "events" /\ events = <<>>
  /\ wait' = [i \in Dev |-> IF wait[i] > t THEN wait[i] - t ELSE 0]
  /\ mpc' = "poll"
  /\ UNCHANGED <<hasBus, path, scanning, proxy, conn, link, attempt, sub, button, cur, events, envvars>>

(* SIGINT ends the loop; hes_ble_mgr_close() disconnects. *)
hes_ble_mgr_close ==
  /\ mpc = "poll"
  /\ mpc' = "closed"
  /\ sub' = All(FALSE) /\ button' = All(Unknown) /\ proxy' = All(FALSE)
  /\ \E S \in SUBSET {i \in Dev : proxy[i]} : linked' = [i \in Dev |-> linked[i] /\ i \notin S]
  /\ UNCHANGED <<hasBus, path, scanning, conn, link, attempt, wait, cur, events, known, radio>>

-----------------------------------------------------------------------------
(* BlueZ: a scan finds a tag, an idle object is dropped, a link goes down. *)
Advertised(i) ==
  /\ ~known[i] /\ radio # "idle" /\ mpc # "closed"
  /\ known' = [known EXCEPT ![i] = TRUE]
  /\ UNCHANGED <<hasBus, mgrvars, passvars, linked, radio>>

Dropped(i) ==
  /\ linked[i] /\ mpc # "closed"
  /\ linked' = [linked EXCEPT ![i] = FALSE]
  /\ \E k \in BOOLEAN : known' = [known EXCEPT ![i] = k]
  /\ UNCHANGED <<hasBus, mgrvars, passvars, radio>>

Visit(i) ==
  \/ resolve_path(i) \/ start_discovery(i) \/ NothingToDo(i)
  \/ LinkLost(i) \/ Connect(i) \/ Connected(i) \/ Resolved(i) \/ ConnectFailed(i)

Pass ==
  \/ PollStart \/ PollDone \/ TakeEvent
  \/ \E t \in 0 .. MaxPass : NextPass(t)
  \/ \E i \in Dev : Visit(i)

BleNext ==
  \/ Pass \/ hes_ble_mgr_close
  \/ \E i \in Dev : Advertised(i) \/ Dropped(i)

(* The loop runs on, and time passes: not every pass takes no time at all. *)
BleFairness ==
  /\ WF_blevars(Pass)
  /\ SF_blevars(\E t \in 1 .. MaxPass : NextPass(t))

BleSpec == BleInit /\ [][BleNext]_blevars /\ BleFairness

-----------------------------------------------------------------------------
(* Properties *)

(* Every variable keeps its type, and no pause is longer than the longest  *)
(* the code names.                                                         *)
Pauses == UNION {0 .. p : p \in {RetryBase, RetryMax, ScanRetry}}
BleTypeOK ==
  /\ hasBus \in BOOLEAN
  /\ path \in [Dev -> BOOLEAN] /\ scanning \in [Dev -> BOOLEAN] /\ proxy \in [Dev -> BOOLEAN]
  /\ conn \in [Dev -> BOOLEAN] /\ link \in [Dev -> {"off", "connecting", "online"}]
  /\ attempt \in [Dev -> 0 .. Width - 1] /\ wait \in [Dev -> Pauses]
  /\ sub \in [Dev -> BOOLEAN] /\ button \in [Dev -> {0, 1, Unknown}]
  /\ mpc \in {"poll", "visit", "connect", "resolve", "events", "closed"}
  /\ cur \in 1 .. N + 1 /\ events \in Seq([dev : Dev, online : BOOLEAN])
  /\ linked \in [Dev -> BOOLEAN] /\ known \in [Dev -> BOOLEAN]
  /\ radio \in {"idle", "scan", "stuck"}

(* The button value the manager serves was notified on the link the device *)
(* has now: none outlives a loss, a failed reconnect or a shutdown.        *)
ButtonOfThisLink ==
  \A i \in Dev : button[i] # Unknown => link[i] = "online" /\ sub[i]

(* "so the radio is not left scanning for the whole run": the adapter      *)
(* scans only while a device that asked for it has no object path, unless  *)
(* BlueZ lost the call that ends the scan.                                 *)
ScanEndsWhenFound ==
  radio = "scan" => \E i \in Dev : ~path[i] /\ scanning[i]

(* No device is given up: once its path is known, its turn with the pause  *)
(* over comes again and again until it is online, whatever the back-off    *)
(* counter has overflowed to and however long the calls for others block.  *)
KeepsTrying ==
  \A i \in Dev : path[i] ~> (At(i) /\ Due(i)) \/ link[i] = "online" \/ mpc = "closed"

(* The steps that are left of a pass: three for each device that is still  *)
(* to be visited, and one for each event that fits the array.              *)
PassLeft ==
  LET visits(stage) == MaxDevs + 1 + 3 * (N + 1 - cur) - stage
  IN  CASE mpc = "visit" -> visits(0) [] mpc = "connect" -> visits(1)
        [] mpc = "resolve" -> visits(2) [] mpc = "events" -> Len(events)
        [] OTHER -> MaxDevs + 3 * N + 2

(* Whatever BlueZ answers, a poll turns to each device once and ends: each *)
(* step of a pass leaves less of it, up to the next.  A device's pause     *)
(* grows only in its own turn, when the one before is over or its link is  *)
(* lost, and never beyond the longest the code names: neither the failures *)
(* of others, nor the time they take, nor an overflow hold the device up.  *)
PassProgress ==
  [][/\ Pass => PassLeft' < PassLeft \/ (PassLeft = 0 /\ mpc' = "poll")
     /\ \A i \in Dev : wait'[i] > wait[i] =>
          Visit(i) /\ (Due(i) \/ link[i] = "online") /\ wait'[i] \in Pauses]_blevars

(* The backend keeps the manager's contract.                               *)
Contract == INSTANCE LinkEvents WITH
              Device <- Dev, up <- [i \in Dev |-> link[i] = "online"], queue <- events
KeepsContract == Contract!Spec
=================================================================================
