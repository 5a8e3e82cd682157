# OpenHES: a verification project

OpenHES is a home gateway after ISO/IEC 18012: a *core* service module runs an
operation table (the binding map) over the readings of devices; *HAN interface
modules* translate between the gateway's bus and a technology (BLE SensorTags,
WiFi WiZ bulbs); a *device manifest service* keeps what the product profile
declares and what the modules report; an *authorization* service decides which
rows may act, and *time*, *identification* and *crypto* services feed the core.

This directory holds TLA+ models of that code, the TLC runs that check them on
small instances, and proofs that TLAPS checks for every instance.  All source
paths below are relative to the repository.

## 1. Inventory

| component | state | operations | talks to |
|---|---|---|---|
| binding map `src/bm/bm.c` | operation and addressing rows, value cache, per-row operands and last output, authorization gates, current message | load, set author type, subscribe, process a message, evaluate | core (caller), authorization and app hooks, bus |
| core `src/modules/core/core.c` | the binding map, inventory, time feed | start-up, receive loop, relay, inventory refresh | everything |
| Lua app `src/modules/core/app_lua.c` | a Lua state | compute an `ap` row | binding map |
| object dispatch `src/common/hes_dispatch.c` | registered objects | find object, trim payload, dispatch | core, services |
| CLME bus `src/common/hes_bus.c` | PUB/SUB sockets | open hub or leaf, send, receive | core, interface modules |
| device manifest `src/dm/dm.c` | registry of devices: status, address | query, modules list, report; publishes a slice on every report | interface modules, core |
| manifest client `src/common/hes_mreg.c`, `hes_devreg.c` | REQ and SUB socket, parsed slice | query, report, receive update | device manifest |
| BLE module `src/han/ble/ble.c` | its slice, `online` flags, button state | boot, merge notification, link events, publish | manifest, connection manager, bus |
| BLE connection managers `hes_ble.c` (simulation), `hes_ble_bluez.c` | per device: state, attempts, next retry | poll, button | BlueZ |
| WiFi module `src/han/wifi/wifi.c` | its slice, `online` flags, open sockets | boot, merge notification, poll, GET, PUT | manifest, WiZ client, bus |
| WiZ client `src/han/wifi/wiz_client.c` | a UDP socket | get and set state, colour, brightness | a bulb |
| authorization `src/services/auth/auth.c` | policy tables, proofs | load, propagate into the map, authorize | binding map, crypto |
| time `src/services/time/*` | offset, zone, worker thread | tick, SNTP, zone lookup, stop | core |
| identification `src/services/id/id.c`, crypto `src/services/crypto/crypto.c` | key material, inventory view | answer objects, sign, verify | core, authorization |
| gateway description `src/common/hes_gateway.c`, query helper `hes_query.c` | native structs, heap | load, count and read by path, deep free | `bm show` |
| command line `src/app.c`, `src/cli/` | the argument vector | choose a command | every process |

### What is hard about it

* `evaluate_op()` and `bm_evaluate_all()` recurse into each other.  A committed
  result is cached, the whole table is evaluated again, and only then is the
  PUT sent.  Rows are evaluated with some inputs already replaced and some not,
  and the same row can fire again inside its own nested evaluation.
* Gates (authorization, author types, blocked conditions) stand in the middle
  of that evaluation, after some bookkeeping and before some other.
* Presence lives twice, in a module and in the manifest service.  A report is a
  request with a timeout whose late copy is still handled; the service echoes
  every report as a notification on a lossy queue; the module takes the echo
  for news.
* UDP datagrams to a bulb are lost and late, and are matched to requests by
  method name only.
* The time worker is a second thread: it publishes a correction in two places,
  sleeps for hours on a condition variable, and must be woken, joined and freed
  while the core unwinds services that share reference-counted states, on an
  error path or on the orderly one.
* The BlueZ manager has one thread and many devices: a connect blocks the loop
  for up to 14 s, discovery belongs to the adapter and not to the device that
  asked for it, signals are seen only when the context is pumped, and the
  back-off shifts by a counter that nothing bounds.
* The policy is walked twice, at start-up to write author types into the map
  and per message to decide, over clipped tables whose last match counts.
* The identity key is derived again after every restart, and the id a client
  sees (an X coordinate) names two points of the curve.
* The loader allocates a tree piece by piece, and any piece may fail.

The list of hazards, each at its line and with the properties that would catch
it, is in `PROJECT.json`.

### What makes each component correct

| component | properties |
|---|---|
| binding map | evaluation ends; a processed message leaves every row computed from current operands; nothing a gate refused is sent or cached; a device hears one value, and it is the cached one; every source is subscribed to once |
| manifest and HAN modules | module and registry come to agree; the registry follows the devices; no client waits for ever; a module gets its own slice; the core's list of modules is never ahead of the registry |
| WiZ client | success means the bulb obeyed; a value read is current; every call returns |
| core process and time service | what is reported as the source of time is true; no change stays untold; no lost wakeup; no use after free; the identity key ends in one place; shutdown ends |
| BlueZ manager | each change of a link is told once, in order; a button value belongs to the link the device has now; the radio does not scan on for nobody; no device is given up |
| authorization | what is propagated and what is decided per message agree; a message reaches a protected address only with a proof made for it by the identity the policy names |
| identification and crypto | an id survives restarts; a challenge is answered with a signature that verifies under the served id |
| object dispatch | a datum named in the address and one named in the query are the same request |
| gateway description | every element is read once; everything allocated is given back |

## 2. Modules and the code

| module | models | state and actions |
|---|---|---|
| `BindingMap` | `bm/bm.c`, the calls of `core_main()` around it | `ops`, `addrs`, `value_cache`, `value_valid`, `last_operands`, `last_output` are the fields of `binding_map_t`; `at` the author types; `current_msg` the message under evaluation. The C stack of `evaluate_op()` / `bm_evaluate_all()` is `pos` (the row at which the innermost loop stands, 0 when idle) and `calls` (the suspended activations, each with the row and the result whose PUT it still owes). One action per way through `evaluate_op()`: `SkipRow`, `UnchangedRow`, `SuppressRow`, `CommitRow`, and `ReturnToRow` after the nested evaluation. `out` lists the PUTs of the message, `told` what each device heard last. |
| `DeviceManifest` | `dm/dm.c`, the request half of `hes_mreg.c`, `hes_devreg_parse()` | `registry` per profile module and device; `requests` per client, of which the newest may still be waited for; `reply`; `notices`, the SUB buffer that drops its oldest. `handle_request` is the whole handler, publication included. |
| `HanModules` | `han/ble/ble.c`, `han/ble/hes_ble.c`, `han/wifi/wifi.c`, `core_inventory_refresh()` | extends `DeviceManifest` with the processes that use it: boot (query, report, query again), then passes that merge at most one notification, look at the links and report transitions. |
| `WizClient` | `han/wifi/wiz_client.c` and what `wifi.c` asks of it | one operation is a script of calls; `pc`, `attempt`, `ignored` are the loop of `wiz_send_recv()`; two datagram queues, the socket buffer, and the bulb (external). |
| `CoreServices` | `core_main()`, the constructors and destructors of the services, `time.c`, `time_sync.c` | two threads. `pc` and `todo` are the core's place and what its unwinding has left; `wpc`, `due`, `stop`, `woken` the worker's. `snap` and `clock` are what they share; `rec` and `told` what the tick recorded and what it published. |
| `LinkEvents` | the contract of `han/ble/hes_ble.h` | abstract: `up` per device, `queue` of events; a device changes at most once between two polls, and each change is one event |
| `BluezManager` | `han/ble/hes_ble_bluez.c`, the poll in `ble.c`'s loop | the fields of `bluez_dev_t` as functions of the device, `mpc` and `cur` the place in `hes_ble_mgr_poll()`, with a step boundary at every blocking D-Bus call; `linked`, `known`, `radio` are BlueZ. One action per way a device can be visited. Implements `LinkEvents` (`Contract`: `up` is `link = "online"`, `queue` is `events`). |
| `Policy` | `services/auth/auth.c` | operators: loading with the limits of the tables, the permissions applicable to a class, the writes of propagation, `authorize`, `required_proof_pi` |
| `Identity` | `services/id/id.c` (key derivation, document), `services/crypto/crypto.c` | operators: candidates and counters of the derivation, even root, signing and verifying, the proof of a message, the block operations behind `/sv/cr` |
| `Dispatch` | `common/hes_dispatch.c`, the objects' addresses | operators: `find_object`, `trim_payload` |
| `Gateway` | `core_main()` as clients see it, `hes_bus_hub_open()`, the relay | extends `Identity`, `Dispatch` and `Policy` with the process: identity, bus, services, propagation row by row, then one message per pass (`last`), shutdown and restart on the same files. `published` and `psaFault` are history. |
| `DocumentTree` | `common/hes_query.c`, `common/hes_gateway.c`, `cli/cmd_bm_show.c` | `work` is the C stack of the loaders, `heap` what is allocated, `held` what a parent points to; every allocation may fail. |
| `App` | `app.c`, `cli/` | one binary: `main` picks the process from `argv`, and the steps of the chosen one follow; the variables of the others rest |
| `Selections` | the loops that copy some members of an array (`auth.c`, `core.c`, `hes_gateway.c`) | operators: the members at a set of positions, the members that pass a test |
| `*Proofs` | | the proofs, see section 5 |
| `MC*` | | instances for TLC |

`PROJECT.json` maps every definition to its lines. `HanModules` composes the
modules, the service and the core's inventory over one registry. `BindingMap`,
`WizClient` and `CoreServices` meet only in messages, so each takes the other's
part as an input: `BindingMap` any message of a set, `WizClient` any operation.
`App` composes `BluezManager`, `Gateway` and `DocumentTree` as commands of one
executable. `Gateway` and `BindingMap` meet in the authorization hook
(`Authorize`) and the author types (`at`); `Gateway` and `CoreServices` are two
views of `core_main()`, what it answers and how it starts and ends.

Abstractions. Doubles are integers and a NaN; `%g` keeps six digits (`FormatG`).
Paths, codes and credentials are short strings compared as wholes. Device
addresses, objects and ports are left out of slices; topics are exact. XML and
JSON parsing is reduced to the rows it yields, clipped to the arrays. The
network operations of the worker yield a value or a failure. The boundaries of
a step in `CoreServices` are the lock, the condition variable, the atomic
offset, thread creation and join; what a thread does between two of them is
invisible to the other.

The curve is a cyclic group of prime order in which a scalar and its negative
share X and exactly one of them has the even root (`EvenRoots`); HKDF is a table
(`Hkdf`); a signature is the pair of its key and its message, so it verifies for
that pair only. A proof carries as a ghost (`made`) what it was made for. Payload
texts are told apart by being hex or not, by their length and by being intact.
Of the records of the time objects two members are kept. In `BluezManager` the
attempt counter is kept modulo the width of an int, since only the shift reads
it and the processor takes a shift modulo the width; the one shift that turns
negative is the one by `Width - 1`. `wait[i]` is the next attempt relative to the
`now` the poll began with, because the code computes it from that stale `now`
however long its calls block.

## 3. Runs

| run | instance | shows |
|---|---|---|
| `bm_tables` | six acyclic tables: a chain like the shipped one, diamonds, two buttons on one path, an app row, two tables out of order; sensor, button, structured and foreign messages; policies; hooks present or not | the properties of the binding map, among them that the mutual recursion ends, gets on with every step and stays below `2^n` activations on a table of `n` rows |
| `bm_swallow` *(violation)* | two gated buttons | finding 1 |
| `bm_nan` *(violation)* | an app whose result is NaN | finding 2 |
| `han_presence` | a BLE module with two devices, the core, the service; a service module with the same index | agreement, no stranded client, own slice, a sound roster |
| `han_wifi` | a WiFi module with two bulbs, and one the profile does not know | the registry converges to the bulbs, and stays there until one comes or goes |
| `han_echo` *(violation)* | a BLE module alone | finding 3 |
| `wiz_answers` | every operation, loss, delay, notifications, another controller, firmware that omits fields | acknowledgements and values can be believed when the call began in quiet; every call returns, and each of its steps uses up a part of a fixed budget |
| `wiz_ack` *(violation)* | on and off commands | finding 4 |
| `core_life` | every setting, any failing allocation, a signal at any moment | the lifetime, reporting and custody properties, and that every unwinding ends, step by step |
| `core_frees` *(violation)* | the constructors | finding 5 |
| `app_commands` | eleven command lines; two tags, with and without a bus; eleven identity documents and eight policies; requests to all objects in both forms, commands with ten kinds of proof; seven documents with every allocation failing | the BlueZ manager keeps its contract and keeps trying, one turn per device and pass; the walks of the policy agree; proofs are asked for and verify; ids survive restarts; what is loaded is complete and freed |

Bounds, and why they are enough.

* `MaxOps = 3`, `MaxInputs = 2`, `MaxAddrs = 5`: three rows are what a diamond
  or a chain behind a chain needs; one table has a row too many, another an
  index beyond the cache, so the clipping happens. The proofs need no bound.
* `GLimit = 10^6` is the six digits of `%g`.
* `QueueMax = 2` notifications (3 in `han_echo`), `MaxPending = 2` requests of
  one client: one late request behind which a live one stands, and a full
  buffer that drops.
* `Attempts = 2` is the source's; `MaxIgnored` is 1 instead of the
  source's 4 where only its being reached matters; `NetMax` bounds each queue, and a
  datagram beyond it counts as lost.
* Two zones and two offsets: one to hold and one to change to.
* `app_commands`: two devices (one found while the other is not), `RetryBase = 1`,
  `RetryMax = 3`, `ScanRetry = 2` and `Width = 4`: the delay grows, is capped,
  turns negative and wraps. `MaxDevs = 16` is the source's. `MaxClasses = 2`,
  `MaxCredentials = 3`, `MaxGroups = 3`, `MaxPermissions = 6`, `MaxProofs = 3` and
  `MaxMaps = 2` are each exceeded by some file or roster. `Order = 7` has
  candidates outside the group, with the even and with the odd root;
  `MaxPayload = 32` has lengths on both sides of it and of the 28 bytes that an
  authenticated block adds.

Fairness. `core_main()` is one thread, so a pending step of an evaluation is
taken (`WF` of `Step`). Each process of `HanModules` keeps running; a pass takes
at most 200 ms while polls are 10 s apart, so a notification is merged and a
poll falls due again and again although both are disabled in between (`SF` of
`Merge` and `WifiPoll`). `SO_RCVTIMEO` bounds a receive (`WF` of `Client`). In
`CoreServices` both threads run and network operations have timeouts, but a
waiting worker is only sure to return when signalled. The BLE module's loop
goes round (`WF` of `Pass`) and time passes in it (`SF` of a pass that takes a
second or more; an idle pass waits up to 200 ms for the bus). Lost messages,
timeouts, links, signals, elapsing intervals and failures are never forced.

Deadlock is checked everywhere except in `CoreServices`, where the process ends.
A zone lookup comes at most every five minutes and a turn of the loop takes a
fraction of a second; `Elapse` says so, and `NothingStaysUntold` for the zone
depends on it (not for the source).

## 4. Findings

1. `bm.c:669` — operands are recorded before the gates decide, so a denied
   report swallows the authorized one that repeats its value; the comment at
   720 says a suppressed output leaves no trace in the change detector.
2. `bm.c:703` — a NaN is never unchanged: evaluation recurses without end.
3. `ble.c:428` — an echo of an older report overwrites a newer link event, and
   no later event repairs it.
4. `wiz_client.c:104` — answers are matched by method, so the acknowledgement of
   a given-up command is taken for the next one's.
5. `id.c:710`, `time.c:364`, `crypto.c:940` — a constructor that runs out of
   memory after its first object frees the shared state twice.

Noted without a run: `time_sync.h:75` says `reachable` is "1 when the last attempt
reached the Internet", but nothing sets it back to 0 (nobody reads it);
`core.c:463` stores a NULL from `auth_service_create()`. And, met while modelling:

* `auth.c:303` — proofRequired rows that are malformed or beyond the sixteenth are
  dropped, so their addresses ask for no proof, and a rejected row's members
  stay in the slot of the next. `ProofAsDeclared` is stated for sections
  that are well formed and fit.
* `id.c:403` — a passing PSA failure moves the derivation on to the next counter and
  so to another id, unless the document pins `pi`; a `pi` that is not a string
  counts as absent. `PiStationary` says so.
* `crypto.c:140` — `%2x` accepts `5g` as 05. The block operations answer a mode that
  is not built in with the generic error.
* `hes_dispatch.c:84` — an error answer is trimmed to nothing when the request names
  a datum.
* `bm.c:754` — a row's PUT leaves after the nested evaluation, in which the same
  row may have fired on newer operands: in a table out of order, or with two
  producers of one index, the device hears the newer value first and keeps the
  older. No line says otherwise; `DeviceAgreesWithCache` is stated for tables in order.
* `wiz_client.c:137` — the draining ends at a datagram of length zero, and what stands
  behind it may be taken for an answer; `ReadCurrent` and `AckSound` exclude such datagrams.
* `id.c:398`, `421` — the candidate and its negation stay on the stack unwiped, unlike
  `fp`; `KeyCustody` is about `core_main()` and the services.
* `wiz_client.c:99` — a datagram without a method, or one that is no JSON, counts as
  the answer; for a setter that is an acknowledgement.
* `bm.c` — `bm_set_at()` writes the first row with an address only.
* `hes_bus.c:97` — a hub whose subscription fails stays open and hears nothing.
* `hes_ble_bluez.c:479` — the tag that is found ends the scan of all others; a
  `StartDiscovery` that failed is not repeated; a cached object path is kept for
  good.
* `cmd_bm_show.c:49` — the overall process is read before it is checked;
  `hes_gateway.c:77` does not check the array of a list; two `overallProcess`
  elements would be mixed into one; `bm show` exits 0 when the load fails.
* `app.c` — the value of an option that equals a command's name is taken for the
  command.

## 5. Proofs

TLAPS checks the theorems below for every value of the constants that satisfies
the assumptions the modules name; TLC evaluates each of these on the instances
of section 3. Every invariant and every action property that a passing run checks
is stated by a theorem; what is left to TLC is liveness. Each liveness property has
a safety half that is proved: a measure that the steps lower and nothing raises
(`EvaluationProgress`, `CallProgress`, `ShutdownProgress`, `PassProgress`), or the
stability of what is reached (`AgreementKept`). The other half, that the steps are
taken, is the fairness of section 3.

| module | theorems (property) |
|---|---|
| `BindingMapProofs` | `TypeCorrect` (`TypeOK`), `Dataflow` (`DataflowCorrect`), `Authorization` (`PutsAuthorized`), `NoTraceInCache` (`CachedOnlyIfCommitted`), `Subscriptions` (`SubscriptionsComplete`); on numbers: `OnePut` (`OnePutPerRow`), `ToldTheCached` (`DeviceAgreesWithCache`), `OrderedDepth`, `DepthBounded` (`RecursionBounded`), `Progress` (`EvaluationProgress`); `OrderedIsAcyclic` |
| `HanModulesProofs` | `HanTypeCorrect` (`TypeOK`), `NoOrphan` (`NoOrphanWait`), `ViewsConsistent` (`ViewsAgree`), `RosterIsSound` (`RosterSound`), `SliceIsOwn` (`OwnSlice`), `AgreementStays` (`AgreementKept`) |
| `WizClientProofs` | `WizTypeCorrect` (`TypeOK`), `ReadCurrent` (`ReadIsCurrent`), `AckSound` (`AckedMeansApplied`), `CallAdvances` (`CallProgress`) |
| `CoreServicesProofs` | `CoreTypeCorrect` (`TypeOK`), `StopIsHeard` (`NoLostWakeup`), `HandleOutlivesUsers` (`SyncOutlivesUsers`), `TrueSource` (`SourceIsTrue`), `Told` (`NothingStaysUntold`), `Custody` (`KeyCustody`), `LearnedZoneKept` (`ZoneKept`), `ShutdownAdvances` (`ShutdownProgress`) |
| `BluezManagerProofs` | `BleTypeCorrect` (`BleTypeOK`), `ButtonCurrent` (`ButtonOfThisLink`), `ScanEnds` (`ScanEndsWhenFound`), `Implements` (`KeepsContract`), `PassAdvances` (`PassProgress`) |
| `AppProofs` | `GatewayTypeCorrect` (`GwTypeOK`), `SameWalk` (`WalksAgree`), `ProofDemanded` (`ProofAsDeclared`), `ChallengeVerifies` (`ProofVerifies`), `PiIsStationary` (`PiStationary`), `FormsAlike` (`TwoFormsAgree`), `NothingLeaks` (`AllFreed`), `WholeDocument` (`FaithfulCopy`), `BleInProcess`, `ContractInProcess` (`KeepsContract`), `PassesInProcess` (`PassProgress`) |

`SelectionsProofs` and `GatewayProofs` hold the lemmas `AppProofs` rests on.
The type invariants are proved for every module; a run checks only the binding map's,
since the others' theorems cover its instance too.

**Binding map.** From `LimitsAssumption` and `InputAssumption` alone, for every table
(cyclic ones too), message set, policy and limit. The invariant `Inv` adds to
the properties: `BootInv` (the engine does not move before the loop); `UpToDate`
(the rows the innermost evaluation has passed have recorded the operands they
would read now: when a commit replaces a cached value, the evaluation restarts
at row 1 and nothing has been passed); `OutputsCurrent` (an ungated row holds
the result of the operands it recorded); and `Owed` (the PUT a suspended
activation owes is authorized for the current message, which cannot change
while it is suspended). `DataflowCorrect` follows from the second and third when
no evaluation runs. `WalkInv` follows the two cursors of the subscription walk:
what lies behind them has been sent, and only that.

`OnePutPerRow` and `DeviceAgreesWithCache` are about tables in dependency order, and need
`OrderInv`: no row up to the last one that fired has anything new to read
(`Settled`); so a row fires once, the suspended activations stack up in row order
(`FiredOnce`), what they owe is still what the cache records (`OwesCached`), and a
device was told what is cached unless its row still owes the PUT (`ToldByRow`,
`ToldOrOwed`). Their hypothesis `Numbers` excludes reports and app results that are
NaN: finding 2 shows that with a NaN the evaluation does not even end.
`OrderedDepth` adds a bound no run states: on a table in order the recursion is
never deeper than the table is long.

`DepthBounded` and `Progress` are about acyclic tables in any order of rows
(`OrderedIsAcyclic`: in particular those in order). A ranking numbers the rows so
that none feeds a row of its own or a lower rank. `Work` reads the rows that have
something new to read as a binary number, the lowest rank first: a row that fires
has read what was new (its digit falls to 0), and what it changes is read by rows of
higher ranks only, so the number falls, by at least one, whatever they become. So
every commit pays for the activation it suspends, and `DepthInv`, that `Work` and
the depth together stay within `n` ones, is inductive. `Progress` is the same argument
as a measure: work, then depth, then the rows the innermost loop has left. The
numbers are `Binary`, a recursive function with the lemmas `BinaryLess` and
`BinaryMost`, since the backends have no exponentiation; `MCBindingMap` assumes, and TLC
evaluates, that `n` ones are `2^n - 1` up to ten rows. Without `Numbers` both are false
(finding 2).

**HAN modules.** For every profile, set of processes and capacity, from
`ProfileAssumption`, `IdentityAssumption`, `NoneAssumption` and `KindAssumption` (a
type and an index name one module of the profile, and interface modules are
told apart by their index). `HanInv` has three layers. *Control*: a waiting
process has its one live request last in its queue, of the kind its place in
the code asks for, or a reply, never both. *Presence*: the newest notification in
a module's buffer is what the registry holds, which survives the loss of any older
one; a good answer to a query still is; and a module whose reports have been handled
and whose echoes are merged agrees with the registry. *Roster*: presence, once
reported, is never taken back, so an old list claims no more than the registry.
`AgreementStays` adds `WifiTodo`: a WiFi module asks only devices it has a socket
for. Its report is the only one that can reach its slot and its topic, because
interface modules differ in their index (`ServiceApart`).

**WiZ client.** `WizInv` says of a call that began in quiet that only its own
requests can reach the bulb, so that every answer in the network, and after the
first drain every one in the socket, was given to this call. `AckSound` has a
hypothesis: no datagram that cannot be classified (`{"", Blank} \cap Strays = {}`),
because `reply_is_answer()` lets such a datagram pass as the answer
(`wiz_client.c:99`). `ReadCurrent` excludes only those of length zero (`Blank`), at
which `drop_stale()` stops. The run `wiz_answers` uses the strays without both.
`CallAdvances` needs the types only: `Budget` counts the attempts, each a sending
and a waiting, and the datagrams that may still be passed over.

**Core process.** From `NamesAssumption`. `CoreInv` ties each place of `core_main()`
to the objects that stand and the holders of the key (`Ownership`), the handle to
the worker (`Threads`), the two writes of a correction to each other
(`Correction`), and a due lookup to a completed tick (`Reporting`).
`ShutdownAdvances` adds `Asked`: a stop request lies behind the unwinding, and no
join of a running worker is reached without one, on either order of the error paths.

**BlueZ manager.** For any number of devices and any width of an int. `BleInv` says
where the blocked device is (`Blocked`), that only a link that is up has a
subscription (`Subscribed`), and that the events of a poll are about devices it
has passed, at most one each (`Events`): hence every step is a step of
`LinkEvents` or a stutter, and the array never fills. `Blocked` also says that
the blocked device was due, which `PassAdvances` needs: a failed connection is the
end of a pause, never the lengthening of one, and the next pause is one of the
back-off's.

**The executable.** `AppInv` is the conjunction of the three commands' invariants; a
step of one leaves the others' variables alone. `GwInv` fixes the tables to what
`load_policy()` makes of the file, the key to the even root behind the published
id (`Keys`), a published id to the pinned one or the first usable counter
(`Stationary`), the author types to the writes done so far (`Propagated`), and the
last outcome to the state that produced it (`Outcome`). Its assumptions describe
inputs: JSON arrays are arrays, a group is symmetric, a signature carries the
message it was made for. `DocInv` says that every struct hangs in a list its
parent's deep free goes through, and every task on the loader's stack will keep
it so. `ReadInv` says that each element is read already or stands under
a task on the stack, and that nothing else is; the path of an element selects
it alone (`PathSelects`) and a query counts its children (`ChildCount`), because
libxml2 numbers the siblings of a name without gaps (`IsTree`). `WholeDocument`
assumes that the loaders know the elements of the document (`Known`): they pass over
others, as the format intends.

Facts about recursive functions (`Selected`, `ReadProofs`) are proved by the least
counterexample, from the well-foundedness of `<` on the naturals, since the induction
theorems of the library take an operator the installed provers cannot
instantiate.

Only model-checked:

* liveness (`EvaluationTerminates`, `WifiConverges`, `CallsReturn`,
  `ShutdownCompletes`, `KeepsTrying`): the prover has neither fairness nor ENABLED;
* the runs that end in a violation.

## 6. Not modelled

* HTTPS, SNTP and the zone lookup: to `CoreServices` an operation that yields a
  value or fails. Clock and utilities keep no state that others rely on.
* The SensorTag driver: conversions of single values.
* Of the query helper the typed readers, and of the loader the strings and the
  printed text: a struct stands for its strings.
* Ciphers, signatures and HKDF are mbedTLS, and NNG, BlueZ, libxml2, argtable3 and
  Lua are external; they are modelled by how the code uses them.
* Topics that are prefixes of each other: the slice of module 10 also reaches a
  subscriber of module 1, which cannot parse it and drops it.
* Steps back of `time(NULL)` in the BlueZ manager, and shifts on processors other than
  x86-64 and AArch64.
* Paths with a newline, and messages too long for the buffer that a proof is made over.
* The sockets of a leaf of the bus; the commands other than `sm core`, `han ble` and
  `bm show` (`han wifi` and `dm` are processes of `HanModules`).
* A restart of the manifest service or of a module. The registry is in memory
  only and modules report transitions, so a restarted service knows nothing until
  a device changes; no line of the code claims otherwise.
* GET answers and periodic publishing of the BLE module, the choice of the addressed
  device in the interface modules, and the cadence of the clock report. The runs
  leave out datagrams the WiZ client cannot parse; the model and `ReadCurrent` have them.

## 7. Plan

1. `BindingMap` with its proofs, `DeviceManifest` and `HanModules`, `WizClient`,
   `CoreServices` with its proofs — done.
2. Authorization, identity and crypto, dispatch and relay (`Policy`, `Identity`,
   `Dispatch`, `Gateway`) — done.
3. The BlueZ connection manager and the contract it implements — done.
4. The description loader and the command line — done.
5. Proofs of the safety and action properties of all components, and of the
   refinement of `LinkEvents` — done.
6. The bound of the recursion for acyclic tables, and the safety half of every
   liveness property — done.
7. Open: a restart of the manifest service and of a module; the choice of the
   addressed device in the interface modules; the arithmetic of SNTP.
