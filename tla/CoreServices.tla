------------------------------ MODULE CoreServices ------------------------------
(***************************************************************************)
(* The life of the core process (core_main() of src/modules/core/core.c):  *)
(* the services it creates and unwinds, the identity key that moves from   *)
(* the identification to the cryptographic service, the periodic tick of   *)
(* the time service (src/services/time/time.c), and the one other thread   *)
(* of the gateway, the time synchronisation worker (time_sync.c).          *)
(*                                                                         *)
(* A step is what runs between two points where the threads meet: the lock *)
(* of time_sync_t, the condition variable, the atomic clock offset, thread *)
(* creation and join.  Messages and the binding map are in BindingMap.     *)
(***************************************************************************)
EXTENDS Naturals, Sequences

CONSTANTS
  Answers,  \* the zones a provider may name
  Host,     \* the zone the host names
  Forced,   \* the operator's --time-zone
  Offsets,  \* the clock corrections an NTP server may measure
  None      \* nothing known, nothing told

ASSUME NamesAssumption ==
  /\ {Host, Forced} \cap Answers = {} /\ Host # Forced
  /\ None \notin Answers \cup {Host, Forced, "nt", "lx"} \cup Offsets

VARIABLES
  cfg,      \* launch settings: a zone is forced, providers and NTP are enabled
  running,  \* g_running
  pc,       \* where core_main() is
  todo,     \* the steps that are left of its unwinding
  objs,     \* per service: its objects in objs[] (absent, there, or a NULL)
  frees,    \* per service: how often its shared state was freed
  key,      \* who holds a copy of the identity key
  ts,       \* the time_sync_t: none, live, freed
  stop,     \* ts->stop
  woken,    \* the condition variable was signalled and the waiter not yet run
  wpc,      \* where sync_worker() is
  due,      \* per refresh: due now, later or never
  found,    \* the offset sntp_query() returned
  clock,    \* g_offset_ns of src/common/hes_clock.c; None before a correction
  snap,     \* ts->snap: the zone, and the offset of the last synchronisation
  seen,     \* the snapshot realtime_tick() took
  rec,      \* time_state_t: zone and source last recorded as reported
  told      \* the zone and the source the last events carried

corevars   == <<running, pc, todo, objs, frees, key>>
servicevars == <<seen, rec, told>>
syncvars   == <<ts, stop, woken, wpc, due, found, clock, snap>>
vars       == <<cfg, corevars, servicevars, syncvars>>

Services == {"id", "time", "auth", "crypto"}
Refreshes == {"zone", "ntp"}
Doors == [s \in Services |->      \* how many objects share a service's state
           CASE s = "id" -> 3 [] s = "time" -> 3 [] s = "crypto" -> 2 [] s = "auth" -> 1]
Zones == Answers \cup {Host, Forced, None}

(* time_sync_source_code(): NTP once a synchronisation succeeded. *)
Source(s) == IF s.offset # None THEN "nt" ELSE "lx"

Ended == pc \in {"closed", "crashed"}

-----------------------------------------------------------------------------
Init ==
  /\ cfg \in [forced : BOOLEAN, tz : BOOLEAN, ntp : BOOLEAN]
  /\ running = TRUE /\ pc = "id" /\ todo = <<>>
  /\ objs = [s \in Services |-> "absent"]
  /\ frees = [s \in Services |-> 0]
  /\ key = {}
  /\ ts = "none" /\ stop = FALSE /\ woken = FALSE /\ wpc = "none"
  /\ due = [r \in Refreshes |-> "never"] /\ found = None /\ clock = None
  /\ snap = [zone |-> None, offset |-> None]
  /\ seen = snap
  /\ rec = [zone |-> None, source |-> None]
  /\ told = rec

(* on_sigint(), whenever it comes: the loop sees it at its next turn. *)
on_sigint ==
  /\ running /\ ~Ended
  /\ running' = FALSE
  /\ UNCHANGED <<cfg, pc, todo, objs, frees, key, servicevars, syncvars>>

-----------------------------------------------------------------------------
(* core_main() up to its loop. *)

Unwind(steps) == pc' = "unwind" /\ todo' = steps
Closed        == pc' = "closed" /\ todo' = <<>>
Crashed       == pc' = "crashed" /\ todo' = <<>>
Goto(label)  == pc' = label /\ UNCHANGED todo

(* The order of the error paths after the sync thread runs; the objects    *)
(* there have served nobody yet.                                           *)
SyncFirst    == <<"stop", "join", "destroy">>
ObjectsFirst == <<"destroy", "stop", "join">>

(* The constructors of the services.  One that cannot allocate the state   *)
(* returns -1 at once.  One that runs out of memory at door k + 1 destroys *)
(* the k objects before it, the last of which frees the shared state, and  *)
(* then frees that state itself (k = 0 also stands for an identity         *)
(* document that is refused).  What a second free() does is undefined: the *)
(* process aborts or goes on.                                              *)
FreedBy(k) == IF k = 0 THEN 1 ELSE 2

NoDoor(s, k) == frees' = [frees EXCEPT ![s] = FreedBy(k)]

Created(s) ==
  /\ objs' = [objs EXCEPT ![s] = "there"]
  /\ UNCHANGED frees

IdService ==
  /\ pc = "id"
  /\ \/ Created("id") /\ key' = {"id"} /\ Goto("bus")
     \/ Closed /\ UNCHANGED <<objs, frees, key>>
     \/ \E k \in 0 .. Doors["id"] - 1 :
          /\ NoDoor("id", k)
          /\ Closed \/ (FreedBy(k) > 1 /\ Crashed)
          /\ UNCHANGED <<objs, key>>
  /\ UNCHANGED <<cfg, running, servicevars, syncvars>>

OpenBus ==
  /\ pc = "bus"
  /\ Goto("sync") \/ Unwind(<<"destroy">>)
  /\ UNCHANGED <<cfg, running, objs, frees, key, servicevars, syncvars>>

(* The thread starts; or memory or threads are short and core goes on with *)
(* a NULL handle, which reads as a snapshot that knows nothing.            *)
time_sync_start ==
  /\ pc = "sync"
  /\ \/ /\ ts' = "live" /\ wpc' = "zone"
        /\ due' = [zone |-> "now", ntp |-> IF cfg.ntp THEN "now" ELSE "never"]
     \/ UNCHANGED <<ts, wpc, due>>
  /\ Goto("time")
  /\ UNCHANGED <<cfg, running, objs, frees, key, servicevars,
                 stop, woken, found, clock, snap>>

LaterService(s, label) ==
  /\ \/ Created(s) /\ Goto(label)
     \/ Unwind(SyncFirst) /\ UNCHANGED <<objs, frees>>
     \/ \E k \in 0 .. Doors[s] - 1 :
          /\ NoDoor(s, k)
          /\ Unwind(SyncFirst) \/ (FreedBy(k) > 1 /\ Crashed)
          /\ UNCHANGED objs
  /\ UNCHANGED <<cfg, running, key, servicevars, syncvars>>

TimeService   == pc = "time" /\ LaterService("time", "auth")
CryptoService == pc = "crypto" /\ LaterService("crypto", "key")

(* auth_service_create() returns NULL without memory; core stores that. *)
AuthService ==
  /\ pc = "auth"
  /\ \E o \in {"there", "null"} : objs' = [objs EXCEPT !["auth"] = o]
  /\ Goto("crypto")
  /\ UNCHANGED <<cfg, running, frees, key, servicevars, syncvars>>

(* The hand-over of the identity key.  load_identity() has derived it or   *)
(* the process has not come this far, so the export succeeds.              *)
ExportKey ==
  /\ pc = "key"
  /\ key' = (key \ {"id"}) \cup {"local"}
  /\ Goto("install")
  /\ UNCHANGED <<cfg, running, objs, frees, servicevars, syncvars>>

InstallKey_kept ==       \* mutant: no memset() of the local copy
  /\ pc = "install"
  /\ key' = key \cup {"crypto"}
  /\ Goto("policy")
  /\ UNCHANGED <<cfg, running, objs, frees, servicevars, syncvars>>
InstallKey ==
  /\ pc = "install"
  /\ key' = (key \cup {"crypto"}) \ {"local"}
  /\ Goto("policy")
  /\ UNCHANGED <<cfg, running, objs, frees, servicevars, syncvars>>

(* auth_service_propagate() reads the state behind auth_so. *)
ApplyPolicy ==
  /\ pc = "policy"
  /\ \/ objs["auth"] = "there" /\ Goto("loop")
     \/ objs["auth"] = "null" /\ Crashed
  /\ UNCHANGED <<cfg, running, objs, frees, key, servicevars, syncvars>>

-----------------------------------------------------------------------------
(* The loop of core_main(), as far as the time service goes. *)

(* time_sync_get() under the lock; all zero without a handle. *)
Sampled == IF ts = "live" THEN snap ELSE [zone |-> None, offset |-> None]

Turn ==
  /\ pc = "loop" /\ running
  /\ seen' = Sampled
  /\ Goto("tick_zone")
  /\ UNCHANGED <<cfg, running, objs, frees, key, rec, told, syncvars>>

(* The payload of an event samples once more. *)
build_localtz_payload == Sampled.zone
build_source_payload  == Source(Sampled)

(* The zone changed since it was last reported. *)
TickZone ==
  /\ pc = "tick_zone"
  /\ IF seen.zone \notin {None, rec.zone}
     THEN /\ rec' = [rec EXCEPT !.zone = seen.zone]
          /\ told' = [told EXCEPT !.zone = build_localtz_payload]
     ELSE UNCHANGED <<rec, told>>
  /\ Goto("tick_source")
  /\ UNCHANGED <<cfg, running, objs, frees, key, seen, syncvars>>

\* mutant: the payload is built from the first sample and the second recorded
TickSource_swapped ==
  /\ pc = "tick_source"
  /\ IF rec.source # Source(seen)
     THEN /\ rec' = [rec EXCEPT !.source = Source(Sampled)]
          /\ told' = [told EXCEPT !.source = Source(seen)]
     ELSE UNCHANGED <<rec, told>>
  /\ Goto("loop")
  /\ UNCHANGED <<cfg, running, objs, frees, key, seen, syncvars>>
TickSource ==
  /\ pc = "tick_source"
  /\ IF rec.source # Source(seen)
     THEN /\ rec' = [rec EXCEPT !.source = Source(seen)]
          /\ told' = [told EXCEPT !.source = build_source_payload]
     ELSE UNCHANGED <<rec, told>>
  /\ Goto("loop")
  /\ UNCHANGED <<cfg, running, objs, frees, key, seen, syncvars>>

LeaveLoop ==
  /\ pc = "loop" /\ ~running
  /\ Unwind(ObjectsFirst)
  /\ UNCHANGED <<cfg, running, objs, frees, key, servicevars, syncvars>>

-----------------------------------------------------------------------------
(* Unwinding. *)

At(step) == pc = "unwind" /\ Head(todo) = step
Done ==
  IF Len(todo) = 1 THEN Closed ELSE todo' = Tail(todo) /\ UNCHANGED pc

(* Every object is destroyed; the last door of a service frees its state,  *)
(* and the states that can hold the key are scrubbed first.  A NULL in     *)
(* objs[] is dereferenced.                                                 *)
DestroyObjects ==
  /\ At("destroy")
  /\ \/ /\ objs["auth"] # "null"
        /\ objs' = [s \in Services |-> "absent"]
        /\ frees' = [s \in Services |->
                       IF objs[s] = "there" THEN frees[s] + 1 ELSE frees[s]]
        /\ key' = key \ {s \in Services : objs[s] = "there"}
        /\ Done
     \/ objs["auth"] = "null" /\ Crashed /\ UNCHANGED <<objs, frees, key>>
  /\ UNCHANGED <<cfg, running, servicevars, syncvars>>

(* time_sync_stop(): the flag and the signal under the lock. *)
StopSync_silent ==       \* mutant: no pthread_cond_signal()
  /\ At("stop") /\ Done
  /\ stop' = (ts = "live") /\ UNCHANGED woken
  /\ UNCHANGED <<cfg, running, objs, frees, key, servicevars,
                 ts, wpc, due, found, clock, snap>>
StopSync ==
  /\ At("stop")
  /\ stop' = (ts = "live")
  /\ woken' = (wpc = "waiting")   \* a signal nobody waits for is lost
  /\ Done
  /\ UNCHANGED <<cfg, running, objs, frees, key, servicevars,
                 ts, wpc, due, found, clock, snap>>

(* time_sync_stop(): pthread_join(), then the handle is freed. *)
JoinSync_none ==       \* mutant: no pthread_join()
  /\ At("join") /\ Done
  /\ ts' = IF ts = "live" THEN "freed" ELSE ts
  /\ UNCHANGED <<cfg, running, objs, frees, key, servicevars,
                 stop, woken, wpc, due, found, clock, snap>>
JoinSync ==
  /\ At("join")
  /\ \/ ts = "none" /\ UNCHANGED ts
     \/ ts = "live" /\ wpc = "exited" /\ ts' = "freed"
  /\ Done
  /\ UNCHANGED <<cfg, running, objs, frees, key, servicevars,
                 stop, woken, wpc, due, found, clock, snap>>

Core ==
  \/ IdService \/ OpenBus \/ time_sync_start \/ TimeService \/ AuthService
  \/ CryptoService \/ ExportKey \/ InstallKey \/ ApplyPolicy
  \/ Turn \/ TickZone \/ TickSource \/ LeaveLoop
  \/ DestroyObjects \/ StopSync \/ JoinSync

-----------------------------------------------------------------------------
(* sync_worker() *)

Work(label) == ~Ended /\ wpc = label
Leaves(v)   == UNCHANGED <<cfg, corevars, servicevars, ts, stop, v>>

(* The names refresh_zone() may come to, in its order of precedence; None  *)
(* when no offsets or no name could be had.  Only the last part of the     *)
(* function, the write under the lock, meets the other thread.             *)
ZoneNames_flap ==       \* mutant: the host's zone although one is known
  {None} \cup IF cfg.forced THEN {Forced}
              ELSE {Host} \cup IF cfg.tz THEN Answers ELSE {}
ZoneNames ==
  {None} \cup
  IF cfg.forced THEN {Forced}
  ELSE (IF cfg.tz THEN Answers ELSE {}) \cup (IF snap.zone = None THEN {Host} ELSE {})

refresh_zone ==
  /\ Work("zone")
  /\ IF due["zone"] = "now"
     THEN /\ \E z \in ZoneNames :
               snap' = IF z = None THEN snap ELSE [snap EXCEPT !.zone = z]
          /\ due' = [due EXCEPT !["zone"] = IF cfg.tz THEN "later" ELSE "never"]
     ELSE UNCHANGED <<snap, due>>
  /\ wpc' = "ntp"
  /\ Leaves(<<woken, found, clock>>)

(* refresh_time(): the answer of a server corrects the clock first and is  *)
(* then recorded; without an answer the last correction stays.             *)
refresh_time_swapped ==       \* mutant: recorded before the clock is corrected
  /\ \/ /\ Work("ntp") /\ due["ntp"] = "now"
        /\ \/ /\ \E o \in Offsets : found' = o /\ snap' = [snap EXCEPT !.offset = o]
              /\ wpc' = "record" /\ UNCHANGED due
           \/ /\ due' = [due EXCEPT !["ntp"] = "later"]
              /\ wpc' = "sleep" /\ UNCHANGED <<found, snap>>
        /\ UNCHANGED clock
     \/ /\ Work("record")
        /\ clock' = found /\ due' = [due EXCEPT !["ntp"] = "later"]
        /\ wpc' = "sleep" /\ UNCHANGED <<found, snap>>
     \/ /\ Work("ntp") /\ due["ntp"] # "now"
        /\ wpc' = "sleep" /\ UNCHANGED <<found, snap, clock, due>>
  /\ Leaves(woken)
refresh_time ==
  /\ \/ /\ Work("ntp") /\ due["ntp"] = "now"
        /\ \/ /\ \E o \in Offsets : found' = o /\ clock' = o
              /\ wpc' = "record" /\ UNCHANGED due
           \/ /\ due' = [due EXCEPT !["ntp"] = "later"]
              /\ wpc' = "sleep" /\ UNCHANGED <<found, clock>>
        /\ UNCHANGED snap
     \/ /\ Work("record")
        /\ snap' = [snap EXCEPT !.offset = found]
        /\ due' = [due EXCEPT !["ntp"] = "later"]
        /\ wpc' = "sleep" /\ UNCHANGED <<found, clock>>
     \/ /\ Work("ntp") /\ due["ntp"] # "now"
        /\ wpc' = "sleep" /\ UNCHANGED <<found, snap, clock, due>>
  /\ Leaves(woken)

(* The lock is taken, the flag looked at, and the wait releases the lock   *)
(* in one step with beginning to wait.                                     *)
Sleep_unchecked ==       \* mutant: waits without looking at the flag
  /\ Work("sleep") /\ wpc' = "waiting"
  /\ Leaves(<<woken, due, found, clock, snap>>)
Sleep ==
  /\ Work("sleep")
  /\ wpc' = IF stop THEN "exited" ELSE "waiting"
  /\ Leaves(<<woken, due, found, clock, snap>>)

(* pthread_cond_timedwait() returns: signalled, timed out, early (its      *)
(* deadline is on the settable clock) or spuriously.                       *)
Wake ==
  /\ Work("waiting")
  /\ wpc' = IF stop THEN "exited" ELSE "zone"
  /\ woken' = FALSE
  /\ Leaves(<<due, found, clock, snap>>)

(* An interval runs out.  Zones are looked up at most every five minutes   *)
(* and a turn of the loop takes a fraction of a second, so the loop has    *)
(* turned since the last lookup.                                           *)
Elapse(r) ==
  /\ ~Ended /\ due[r] = "later"
  /\ r = "zone" => pc = "loop" /\ rec.zone = snap.zone
  /\ due' = [due EXCEPT ![r] = "now"]
  /\ Leaves(<<woken, wpc, found, clock, snap>>)

Worker == refresh_zone \/ refresh_time \/ Sleep \/ Wake

-----------------------------------------------------------------------------
Next == Core \/ Worker \/ on_sigint \/ \E r \in Refreshes : Elapse(r)

(* Both threads run; network operations are bounded by timeouts.  A waiting *)
(* worker is sure to return only when it was signalled.                     *)
Fairness ==
  /\ WF_vars(Core)
  /\ WF_vars(refresh_zone \/ refresh_time \/ Sleep)
  /\ WF_vars(Wake /\ woken)

Spec == Init /\ [][Next]_vars /\ Fairness

-----------------------------------------------------------------------------
(* The type invariant: each piece of state of the two threads. *)
Steps == {"id", "bus", "sync", "time", "auth", "crypto", "key", "install", "policy",
          "loop", "tick_zone", "tick_source", "unwind", "closed", "crashed"}
Plans == {<<>>, SyncFirst, Tail(SyncFirst), <<"destroy">>,
          ObjectsFirst, Tail(ObjectsFirst), <<"join">>}
Snapshot == [zone : Zones, offset : Offsets \cup {None}]
Report   == [zone : Zones, source : {"nt", "lx", None}]

TypeOK ==
  /\ cfg \in [forced : BOOLEAN, tz : BOOLEAN, ntp : BOOLEAN]
  /\ running \in BOOLEAN /\ stop \in BOOLEAN /\ woken \in BOOLEAN
  /\ pc \in Steps
  /\ todo \in Plans /\ (pc = "unwind" <=> todo # <<>>)
  /\ objs \in [Services -> {"absent", "there", "null"}]
  /\ frees \in [Services -> 0 .. 2]
  /\ key \in SUBSET {"id", "local", "crypto"}
  /\ ts \in {"none", "live", "freed"}
  /\ wpc \in {"none", "zone", "ntp", "record", "sleep", "waiting", "exited"}
  /\ due \in [Refreshes -> {"now", "later", "never"}]
  /\ found \in Offsets \cup {None} /\ clock \in Offsets \cup {None}
  /\ snap \in Snapshot /\ seen \in Snapshot
  /\ rec \in Report /\ told \in Report

(* No lost wakeup: however the stop request falls between the worker's     *)
(* look at the flag and its wait, a worker that waits has been signalled.  *)
NoLostWakeup == stop /\ wpc = "waiting" => woken

(* The worker never runs on a freed time_sync_t, and the loop never        *)
(* samples one (time_sync_stop() joins first; core destroys the objects    *)
(* before it on the orderly way out).                                      *)
SyncOutlivesUsers ==
  ts = "freed" => /\ wpc = "exited"
                  /\ pc \in {"unwind", "closed", "crashed"}

(* What the sourceOfTime object says is true: while 'nt' was told or is    *)
(* recorded the clock has been corrected, and the recorded offset is the   *)
(* one in use except between the two writes of refresh_time().             *)
SourceIsTrue ==
  /\ "nt" \in {told.source, Source(snap)} => clock # None
  /\ wpc # "record" => clock = snap.offset

(* Between two ticks a zone or source that the bus was told wrongly is one *)
(* the next tick will tell again: what is recorded as reported either is   *)
(* what was told, or differs from the snapshot.                            *)
NothingStaysUntold ==
  pc = "loop" /\ ts = "live" =>
    /\ told.zone = rec.zone \/ snap.zone # rec.zone
    /\ told.source = rec.source \/ Source(snap) # rec.source

(* While the gateway serves, the cryptographic service alone holds the     *)
(* identity key; when core_main() has returned, on any path, nobody does.  *)
(* Holders are core_main() and the services: what derive_identity_key()    *)
(* leaves of its locals on the stack is not counted.                       *)
KeyCustody ==
  /\ pc \in {"policy", "loop", "tick_zone", "tick_source"} => key = {"crypto"}
  /\ pc = "closed" => key = {}

(* A zone once learned is never replaced by the host's fallback, nor an    *)
(* operator's by anything (the comment of refresh_zone()).                 *)
ZoneKept ==
  [][snap.zone # None /\ snap.zone' # snap.zone => snap.zone' \in Answers]_vars

(* Every unwinding ends: the worker is woken, leaves and is joined,        *)
(* wherever the stop request met it, or the process has crashed.           *)
ShutdownCompletes == pc = "unwind" ~> Ended

(* The steps sync_worker() has left at most before it looks at the flag    *)
(* and leaves, once the stop is asked.                                     *)
WorkerLeft ==
  CASE wpc = "zone" -> 4 [] wpc = "ntp" -> 3 [] wpc = "record" -> 2
    [] wpc = "sleep" -> 1 [] wpc = "waiting" -> 1 [] OTHER -> 0

(* How an unwinding gets on.  Each step core_main() takes in it is one     *)
(* less to take; it joins no running worker it has not asked to stop; the  *)
(* request is never withdrawn; and from then on each step of the worker    *)
(* brings it nearer its end: it finishes the round it is in, and starts    *)
(* neither another one nor another wait.                                   *)
ShutdownProgress ==
  [][/\ pc = "unwind" /\ Core => Len(todo') < Len(todo)
     /\ At("join") /\ ts = "live" => stop
     /\ stop => stop' /\ (Worker => WorkerLeft' < WorkerLeft)]_vars

(* The comments on the destroy handlers: the shared state is freed by the  *)
(* last object out, and by it only.                                        *)
StateFreedOnce == \A s \in Services : frees[s] <= 1
================================================================================
