--------------------------- MODULE CoreServicesProofs ---------------------------
(***************************************************************************)
(* Proofs about CoreServices, for every set of zones and clock offsets.    *)
(*                                                                         *)
(* The properties rest on one inductive invariant, CoreInv: what each      *)
(* place of core_main() implies about the objects, their states and the    *)
(* key (Ownership); how far the worker has come with a correction          *)
(* (Correction); and what a refresh that is due implies about the last     *)
(* tick (Reporting). The shutdown adds that a stop request lies behind     *)
(* the unwinding (Asked).                                                  *)
(***************************************************************************)
EXTENDS CoreServices, TLAPS

BeforeKey == {"bus", "sync", "time", "auth", "crypto", "key"}
Serving   == {"policy", "loop", "tick_zone", "tick_source"}
Stopping  == {"unwind", "closed", "crashed"}
Emptied   == {<<"stop", "join">>, <<"join">>}   \* the objects are gone

Holders == {s \in Services : objs[s] = "there"}

(* Where the objects, their states and the key are. *)
Ownership ==
  /\ pc \notin Stopping => frees = [s \in Services |-> 0]
  /\ \A s \in Services : objs[s] = "there" => frees[s] = 0
  /\ pc = "id" => key = {}
  /\ pc \in BeforeKey => key = {"id"} /\ objs["id"] = "there"
  /\ pc = "install" => key = {"local"}
  /\ pc \in {"key", "install"} \cup Serving => objs["crypto"] = "there"
  /\ pc = "id" => objs["id"] # "there"
  /\ pc \in {"id", "bus", "sync", "time"} => objs["time"] # "there"
  /\ pc \in {"id", "bus", "sync", "time", "auth", "crypto"} => objs["crypto"] # "there"
  /\ pc \in Serving => key = {"crypto"}
  /\ pc = "unwind" => key \subseteq Holders
  /\ pc = "unwind" /\ todo \in Emptied => key = {}
  /\ pc = "closed" => key = {}

(* Where the worker and its handle are. *)
Threads ==
  /\ pc \in {"id", "bus", "sync"} => ts = "none"
  /\ ts = "none" => wpc = "none" /\ snap = [zone |-> None, offset |-> None]
  /\ SyncOutlivesUsers

(* How far a correction has come. *)
Correction ==
  /\ wpc = "record" => found \in Offsets /\ clock = found
  /\ wpc # "record" => clock = snap.offset
  /\ snap.offset # None => clock # None
  /\ told.source = "nt" => snap.offset # None

(* The operator's zone is the only one there is when it is given. *)
ForcedZone == cfg.forced => snap.zone \in {None, Forced}

(* What the recorded reports and the samples say. *)
Reporting ==
  /\ told.zone = rec.zone \/ snap.zone # rec.zone
  /\ due["zone"] = "now" => /\ told.zone = rec.zone /\ rec.zone = snap.zone
                            /\ pc = "tick_zone" => seen.zone = rec.zone
  /\ told.source = rec.source \/ Source(snap) # rec.source
  /\ seen.offset # None => snap.offset # None
  /\ rec.source = "nt" => snap.offset # None
  /\ rec.source = None => told.source = None
  /\ pc \in {"id", "bus", "sync"} => rec.zone = None /\ told.zone = None

CoreInv == TypeOK /\ Ownership /\ Threads /\ NoLostWakeup
           /\ Correction /\ ForcedZone /\ Reporting

-----------------------------------------------------------------------------
(* What is left of an unwinding after its next step: the plans are closed   *)
(* under it, and the objects are destroyed before a plan ends.              *)
LEMMA PlanStep ==
  ASSUME NEW t \in Plans, t # <<>>
  PROVE  /\ Len(t) # 1 => Tail(t) \in Plans /\ Tail(t) # <<>>
         /\ Head(t) = "destroy" /\ Len(t) # 1 => Tail(t) \in Emptied
         /\ Head(t) = "destroy" => t \notin Emptied
         /\ Head(t) # "destroy" /\ t \notin Emptied => Len(t) # 1 /\ Tail(t) \notin Emptied
         /\ t \in Emptied /\ Len(t) # 1 => Tail(t) \in Emptied
<1>1. CASE t = <<"stop", "join", "destroy">>
  BY <1>1 DEF Plans, SyncFirst, Emptied
<1>2. CASE t = <<"join", "destroy">>
  BY <1>2 DEF Plans, Emptied
<1>3. CASE t = <<"destroy">>
  BY <1>3 DEF Emptied
<1>4. CASE t = <<"destroy", "stop", "join">>
  BY <1>4 DEF Plans, ObjectsFirst, Emptied
<1>5. CASE t = <<"stop", "join">>
  BY <1>5 DEF Plans, Emptied
<1>6. CASE t = <<"join">>
  BY <1>6 DEF Emptied
<1>7. QED
  BY <1>1, <1>2, <1>3, <1>4, <1>5, <1>6 DEF Plans, SyncFirst, ObjectsFirst

LEMMA StartInv == Init => CoreInv
<1> SUFFICES ASSUME Init PROVE CoreInv
  OBVIOUS
<1>1. TypeOK
  <2>1. /\ todo \in Plans /\ (pc = "unwind" <=> todo # <<>>)
        /\ pc \in Steps
    BY DEF Init, Plans, Steps
  <2>2. /\ snap \in Snapshot /\ seen \in Snapshot
        /\ rec \in Report /\ told \in Report
    BY DEF Init, Snapshot, Report, Zones
  <2>3. /\ objs \in [Services -> {"absent", "there", "null"}]
        /\ frees \in [Services -> 0 .. 2]
        /\ due \in [Refreshes -> {"now", "later", "never"}]
    BY DEF Init
  <2>4. QED
    BY <2>1, <2>2, <2>3 DEF Init, TypeOK
<1>2. Ownership
  BY DEF Init, Ownership, BeforeKey, Serving, Services
<1>3. Threads /\ NoLostWakeup
  BY DEF Init, Threads, SyncOutlivesUsers, NoLostWakeup
<1>4. Correction /\ ForcedZone /\ Reporting
  BY NamesAssumption DEF Init, Correction, ForcedZone, Reporting
<1>5. QED
  BY <1>1, <1>2, <1>3, <1>4 DEF CoreInv

(* What a step of core_main() that leaves the time service and the worker  *)
(* alone preserves of the worker's part of the invariant.                  *)
LEMMA CoreFrame ==
  ASSUME CoreInv, UNCHANGED <<cfg, servicevars, syncvars>>, pc' # "tick_zone",
         pc' \in {"id", "bus", "sync"} => pc \in {"id", "bus", "sync"}
  PROVE  NoLostWakeup' /\ Correction' /\ ForcedZone' /\ Reporting'
  BY DEF CoreInv, servicevars, syncvars, NoLostWakeup, Correction, ForcedZone,
     Reporting

(* A step of the worker leaves core_main() alone. *)
LEMMA WorkerFrame ==
  ASSUME CoreInv, UNCHANGED corevars
  PROVE  Ownership'
  BY DEF CoreInv, corevars, Ownership, Holders

(* How a constructor may end: its objects stand, or none of them does and  *)
(* core unwinds (or has crashed).                                          *)
LEMMA LaterOutcome ==
  ASSUME TypeOK, NEW s \in {"time", "crypto"}, NEW label, LaterService(s, label)
  PROVE  \/ /\ objs' = [objs EXCEPT ![s] = "there"] /\ frees' = frees
            /\ pc' = label /\ todo' = todo
         \/ /\ objs' = objs
            /\ \E n \in 0 .. 2 : frees' = frees \/ frees' = [frees EXCEPT ![s] = n]
            /\ \/ pc' = "unwind" /\ todo' = SyncFirst
               \/ pc' = "crashed" /\ todo' = <<>>
  BY DEF LaterService, Created, NoDoor, FreedBy, Goto, Unwind, Crashed

(* The two long plans are plans, and begin with the objects in place. *)
LEMMA PlanFacts ==
  /\ SyncFirst \in Plans /\ SyncFirst # <<>> /\ SyncFirst \notin Emptied
  /\ ObjectsFirst \in Plans /\ ObjectsFirst # <<>> /\ ObjectsFirst \notin Emptied
  /\ <<>> \in Plans
  BY DEF Plans, SyncFirst, ObjectsFirst, Emptied

(* The objects are destroyed: what is left of the plan, the states freed   *)
(* and the copies of the key that remain.                                  *)
LEMMA DestroyOutcome ==
  ASSUME CoreInv, DestroyObjects
  PROVE  /\ UNCHANGED <<cfg, running, servicevars, syncvars>>
         /\ pc = "unwind"
         /\ \/ /\ objs' = [s \in Services |-> "absent"]
               /\ frees' \in [Services -> 0 .. 2]
               /\ key' = {}
               /\ \/ pc' = "closed" /\ todo' = <<>>
                  \/ pc' = "unwind" /\ todo' \in Plans /\ todo' # <<>>
            \/ pc' = "crashed" /\ todo' = <<>> /\ UNCHANGED <<objs, frees, key>>
<1>1. /\ pc = "unwind" /\ Head(todo) = "destroy" /\ todo \in Plans /\ todo # <<>>
      /\ UNCHANGED <<cfg, running, servicevars, syncvars>>
  BY DEF DestroyObjects, At, CoreInv, TypeOK
<1>2. CASE objs["auth"] = "null"
  BY <1>1, <1>2 DEF DestroyObjects, Crashed
<1>3. CASE objs["auth"] # "null"
  <2>1. /\ objs' = [s \in Services |-> "absent"]
        /\ frees' = [s \in Services |-> IF objs[s] = "there" THEN frees[s] + 1 ELSE frees[s]]
        /\ key' = key \ Holders
        /\ Done
    BY <1>3 DEF DestroyObjects, Holders
  <2>2. frees' \in [Services -> 0 .. 2]
    BY <2>1 DEF CoreInv, TypeOK, Ownership
  <2>3. key' = {}
    BY <1>1, <2>1 DEF CoreInv, Ownership
  <2>4. \/ pc' = "closed" /\ todo' = <<>>
        \/ pc' = "unwind" /\ todo' \in Plans /\ todo' # <<>>
    BY <1>1, <2>1, PlanStep DEF Done, Closed
  <2>5. QED
    BY <1>1, <2>1, <2>2, <2>3, <2>4
<1>4. QED
  BY <1>2, <1>3

(* The inductive step.  The steps of core_main() that leave the time service *)
(* and the worker alone.                                                     *)
LEMMA CoreStep ==
  ASSUME CoreInv,
         \/ IdService \/ OpenBus \/ TimeService \/ AuthService \/ CryptoService
         \/ ExportKey \/ InstallKey \/ ApplyPolicy \/ LeaveLoop \/ DestroyObjects
  PROVE  CoreInv'
<1> USE DEF CoreInv
<1>1. CASE IdService
  <2>1. TypeOK'
    BY <1>1 DEF IdService, Created, NoDoor, FreedBy, Doors, Goto, Closed,
       Crashed, TypeOK, Steps, Services, syncvars, servicevars
  <2>2. Ownership'
    BY <1>1 DEF IdService, Created, NoDoor, Doors, Goto, Closed, Crashed,
       TypeOK, Ownership, BeforeKey, Serving, Stopping, Services
  <2>3. Threads'
    BY <1>1 DEF IdService, Threads, SyncOutlivesUsers, syncvars
  <2>4. QED
    BY <1>1, <2>1, <2>2, <2>3, CoreFrame DEF IdService, Goto, Closed, Crashed
<1>2. CASE OpenBus
  <2>1. <<"destroy">> \in Plans /\ <<"destroy">> # <<>> /\ <<"destroy">> \notin Emptied
    BY DEF Plans, Emptied
  <2>2. TypeOK'
    BY <1>2, <2>1 DEF OpenBus, Goto, Unwind, TypeOK, Steps, syncvars,
       servicevars
  <2>3. Ownership'
    BY <1>2, <2>1 DEF OpenBus, Goto, Unwind, Ownership, Holders, BeforeKey,
       Serving, Stopping, Services
  <2>4. Threads'
    BY <1>2 DEF OpenBus, Threads, SyncOutlivesUsers, syncvars
  <2>5. QED
    BY <1>2, <2>2, <2>3, <2>4, CoreFrame DEF OpenBus, Goto, Unwind
<1>3. CASE TimeService
  <2>1. /\ pc = "time" /\ LaterService("time", "auth")
        /\ UNCHANGED <<cfg, running, key, servicevars, syncvars>>
    BY <1>3 DEF TimeService, LaterService
  <2>2. \/ /\ objs' = [objs EXCEPT !["time"] = "there"] /\ frees' = frees
           /\ pc' = "auth" /\ todo' = todo
        \/ /\ objs' = objs
           /\ \E i \in 0 .. 2 : frees' = frees \/ frees' = [frees EXCEPT !["time"] = i]
           /\ \/ pc' = "unwind" /\ todo' = SyncFirst
              \/ pc' = "crashed" /\ todo' = <<>>
    BY <2>1, LaterOutcome
  <2>3. TypeOK'
    BY <2>1, <2>2, PlanFacts DEF TypeOK, Steps, syncvars, servicevars
  <2>4. Ownership'
    BY <2>1, <2>2, PlanFacts DEF TypeOK, Ownership, Holders, BeforeKey,
       Serving, Stopping, Services
  <2>5. Threads'
    BY <2>1, <2>2 DEF Threads, SyncOutlivesUsers, syncvars
  <2>6. QED
    BY <2>1, <2>2, <2>3, <2>4, <2>5, CoreFrame
<1>4. CASE AuthService
  <2>1. TypeOK'
    BY <1>4 DEF AuthService, Goto, TypeOK, Steps, Services, syncvars,
       servicevars
  <2>2. Ownership'
    BY <1>4 DEF AuthService, Goto, Ownership, BeforeKey, Serving, Stopping
  <2>3. Threads'
    BY <1>4 DEF AuthService, Goto, Threads, SyncOutlivesUsers, syncvars
  <2>4. QED
    BY <1>4, <2>1, <2>2, <2>3, CoreFrame DEF AuthService, Goto
<1>5. CASE CryptoService
  <2>1. /\ pc = "crypto" /\ LaterService("crypto", "key")
        /\ UNCHANGED <<cfg, running, key, servicevars, syncvars>>
    BY <1>5 DEF CryptoService, LaterService
  <2>2. \/ /\ objs' = [objs EXCEPT !["crypto"] = "there"] /\ frees' = frees
           /\ pc' = "key" /\ todo' = todo
        \/ /\ objs' = objs
           /\ \E i \in 0 .. 2 : frees' = frees \/ frees' = [frees EXCEPT !["crypto"] = i]
           /\ \/ pc' = "unwind" /\ todo' = SyncFirst
              \/ pc' = "crashed" /\ todo' = <<>>
    BY <2>1, LaterOutcome
  <2>3. TypeOK'
    BY <2>1, <2>2, PlanFacts DEF TypeOK, Steps, syncvars, servicevars
  <2>4. Ownership'
    BY <2>1, <2>2, PlanFacts DEF TypeOK, Ownership, Holders, BeforeKey,
       Serving, Stopping, Services
  <2>5. Threads'
    BY <2>1, <2>2 DEF Threads, SyncOutlivesUsers, syncvars
  <2>6. QED
    BY <2>1, <2>2, <2>3, <2>4, <2>5, CoreFrame
<1>6. CASE ExportKey
  <2>1. TypeOK'
    BY <1>6 DEF ExportKey, Goto, TypeOK, Steps, syncvars, servicevars
  <2>2. Ownership'
    BY <1>6 DEF ExportKey, Goto, Ownership, BeforeKey, Serving, Stopping
  <2>3. Threads'
    BY <1>6 DEF ExportKey, Goto, Threads, SyncOutlivesUsers, syncvars
  <2>4. QED
    BY <1>6, <2>1, <2>2, <2>3, CoreFrame DEF ExportKey, Goto
<1>7. CASE InstallKey
  <2>1. TypeOK'
    BY <1>7 DEF InstallKey, Goto, TypeOK, Steps, syncvars, servicevars
  <2>2. Ownership'
    BY <1>7 DEF InstallKey, Goto, Ownership, BeforeKey, Stopping
  <2>3. Threads'
    BY <1>7 DEF InstallKey, Goto, Threads, SyncOutlivesUsers, syncvars
  <2>4. QED
    BY <1>7, <2>1, <2>2, <2>3, CoreFrame DEF InstallKey, Goto
<1>8. CASE ApplyPolicy
  <2>1. TypeOK'
    BY <1>8 DEF ApplyPolicy, Goto, Crashed, TypeOK, Steps, syncvars, servicevars
  <2>2. Ownership'
    BY <1>8 DEF ApplyPolicy, Goto, Crashed, Ownership, BeforeKey, Serving,
       Stopping
  <2>3. Threads'
    BY <1>8 DEF ApplyPolicy, Goto, Crashed, Threads, SyncOutlivesUsers, syncvars
  <2>4. QED
    BY <1>8, <2>1, <2>2, <2>3, CoreFrame DEF ApplyPolicy, Goto, Crashed
<1>9. CASE LeaveLoop
  <2>1. TypeOK'
    BY <1>9, PlanFacts DEF LeaveLoop, Unwind, TypeOK, Steps, syncvars,
       servicevars
  <2>2. Ownership'
    BY <1>9, PlanFacts DEF LeaveLoop, Unwind, Ownership, Holders, BeforeKey,
       Serving, Stopping, Services
  <2>3. Threads'
    BY <1>9 DEF LeaveLoop, Unwind, Threads, SyncOutlivesUsers, syncvars
  <2>4. QED
    BY <1>9, <2>1, <2>2, <2>3, CoreFrame DEF LeaveLoop, Unwind
<1>10. CASE DestroyObjects
  <2>1. /\ objs' \in [Services -> {"absent", "there", "null"}]
        /\ frees' \in [Services -> 0 .. 2]
        /\ key' \in SUBSET {"id", "local", "crypto"}
    BY <1>10, DestroyOutcome, Zenon DEF TypeOK
  <2>2. /\ pc' \in Steps /\ todo' \in Plans
        /\ pc' = "unwind" <=> todo' # <<>>
    BY <1>10, DestroyOutcome, PlanFacts DEF Steps
  <2>3. UNCHANGED <<cfg, running, servicevars, syncvars>>
    BY <1>10, DestroyOutcome
  <2>4. TypeOK'
    BY <2>1, <2>2, <2>3 DEF TypeOK, syncvars, servicevars
  <2>5. Ownership'
    BY <1>10, DestroyOutcome DEF Ownership, BeforeKey, Serving, Stopping
  <2>6. Threads'
    BY <1>10, DestroyOutcome DEF Threads, SyncOutlivesUsers, syncvars
  <2>7. QED
    BY <1>10, DestroyOutcome, <2>4, <2>5, <2>6, CoreFrame
<1>11. QED
  BY <1>1, <1>2, <1>3, <1>4, <1>5, <1>6, <1>7, <1>8, <1>9, <1>10

(* A step of an unwinding other than the destruction of the objects: it    *)
(* ends the unwinding only after that.                                     *)
LEMMA DoneOutcome ==
  ASSUME TypeOK, pc = "unwind", Head(todo) # "destroy", Done
  PROVE  \/ todo \in Emptied /\ pc' = "closed" /\ todo' = <<>>
         \/ /\ pc' = "unwind" /\ todo' \in Plans /\ todo' # <<>>
            /\ todo' \in Emptied => todo \in Emptied
<1>1. todo \in Plans /\ todo # <<>>
  BY DEF TypeOK
<1>2. QED
  BY <1>1, PlanStep DEF Done, Closed

(* The tick of the time service, and the signal. *)
LEMMA TickStep ==
  ASSUME CoreInv,
         Turn \/ TickZone \/ TickSource \/ on_sigint
  PROVE  CoreInv'
<1> USE DEF CoreInv
<1>1. CASE Turn
  <2>1. TypeOK'
    BY <1>1 DEF Turn, Goto, Sampled, syncvars, TypeOK, Steps, Snapshot, Zones
  <2>2. Ownership'
    BY <1>1 DEF Turn, Goto, Ownership, BeforeKey, Serving, Stopping
  <2>3. Threads' /\ NoLostWakeup'
    BY <1>1 DEF Turn, Goto, syncvars, Threads, SyncOutlivesUsers, NoLostWakeup
  <2>4. Correction' /\ ForcedZone'
    BY <1>1 DEF Turn, syncvars, Correction, ForcedZone
  <2>5. Reporting'
    BY <1>1 DEF Turn, Goto, Sampled, syncvars, Reporting, Threads,
       SyncOutlivesUsers, TypeOK
  <2>6. QED
    BY <2>1, <2>2, <2>3, <2>4, <2>5
<1>2. CASE TickZone
  <2>1. TypeOK'
    BY <1>2 DEF TickZone, build_localtz_payload, Goto, Sampled, syncvars,
       TypeOK, Steps, Snapshot, Report, Zones
  <2>2. Ownership'
    BY <1>2 DEF TickZone, build_localtz_payload, Goto, Ownership, BeforeKey,
       Serving, Stopping
  <2>3. Threads' /\ NoLostWakeup'
    BY <1>2 DEF TickZone, build_localtz_payload, Goto, syncvars, Threads,
       SyncOutlivesUsers, NoLostWakeup
  <2>4. Correction' /\ ForcedZone'
    BY <1>2 DEF TickZone, build_localtz_payload, syncvars, Correction,
       ForcedZone, TypeOK, Report
  <2>5. Reporting'
    BY <1>2 DEF TickZone, build_localtz_payload, Goto, Sampled, syncvars,
       Reporting, Threads, SyncOutlivesUsers, TypeOK, Report
  <2>6. QED
    BY <2>1, <2>2, <2>3, <2>4, <2>5
<1>3. CASE TickSource
  <2>1. TypeOK'
    BY <1>3 DEF TickSource, build_source_payload, Goto, syncvars, TypeOK,
       Steps, Report, Source
  <2>2. Ownership'
    BY <1>3 DEF TickSource, build_source_payload, Goto, Ownership,
       BeforeKey, Serving, Stopping
  <2>3. Threads' /\ NoLostWakeup'
    BY <1>3 DEF TickSource, build_source_payload, Goto, syncvars, Threads,
       SyncOutlivesUsers, NoLostWakeup
  <2>4. Correction' /\ ForcedZone'
    BY <1>3 DEF TickSource, build_source_payload, Sampled, syncvars,
       Correction, ForcedZone, Source, TypeOK, Report
  <2>5. Reporting'
    BY <1>3, NamesAssumption DEF TickSource, build_source_payload, Goto,
       Sampled, syncvars, Reporting, Source, Threads, SyncOutlivesUsers,
       TypeOK, Report
  <2>6. QED
    BY <2>1, <2>2, <2>3, <2>4, <2>5
<1>4. CASE on_sigint
  <2>1. TypeOK'
    <3>1. /\ running' \in BOOLEAN
          /\ UNCHANGED <<cfg, pc, todo, objs, frees, key, servicevars, syncvars>>
      BY <1>4 DEF on_sigint
    <3>2. QED
      BY <3>1 DEF TypeOK, servicevars, syncvars
  <2>2. Ownership'
    BY <1>4 DEF on_sigint, Ownership, Holders
  <2>3. Threads' /\ NoLostWakeup'
    BY <1>4 DEF on_sigint, syncvars, Threads, SyncOutlivesUsers, NoLostWakeup
  <2>4. Correction' /\ ForcedZone'
    BY <1>4 DEF on_sigint, servicevars, syncvars, Correction, ForcedZone
  <2>5. Reporting'
    BY <1>4 DEF on_sigint, servicevars, syncvars, Reporting
  <2>6. QED
    BY <2>1, <2>2, <2>3, <2>4, <2>5
<1>5. QED
  BY <1>1, <1>2, <1>3, <1>4

(* The life of the worker's handle. *)
LEMMA HandleStep ==
  ASSUME CoreInv,
         time_sync_start \/ StopSync \/ JoinSync
  PROVE  CoreInv'
<1> USE DEF CoreInv
<1>1. CASE time_sync_start
  <2>1. TypeOK'
    BY <1>1 DEF time_sync_start, Goto, servicevars, TypeOK, Steps, Refreshes
  <2>2. Ownership'
    BY <1>1 DEF time_sync_start, Goto, Ownership, BeforeKey, Serving, Stopping
  <2>3. Threads' /\ NoLostWakeup'
    BY <1>1 DEF time_sync_start, Goto, Threads, SyncOutlivesUsers, NoLostWakeup
  <2>4. Correction' /\ ForcedZone'
    BY <1>1 DEF time_sync_start, servicevars, Correction, ForcedZone, Threads
  <2>5. Reporting'
    BY <1>1 DEF time_sync_start, Goto, servicevars, Reporting, Threads
  <2>6. QED
    BY <2>1, <2>2, <2>3, <2>4, <2>5
<1>2. CASE StopSync
  <2>1. /\ pc = "unwind" /\ Head(todo) = "stop" /\ Done
        /\ UNCHANGED <<cfg, running, objs, frees, key, servicevars>>
    BY <1>2 DEF StopSync, At
  <2>2. \/ todo \in Emptied /\ pc' = "closed" /\ todo' = <<>>
        \/ /\ pc' = "unwind" /\ todo' \in Plans /\ todo' # <<>>
           /\ todo' \in Emptied => todo \in Emptied
    BY <2>1, DoneOutcome
  <2>3. TypeOK'
    BY <1>2, <2>2, PlanFacts DEF StopSync, servicevars, TypeOK, Steps
  <2>4. Ownership'
    BY <2>1, <2>2 DEF Ownership, Holders, BeforeKey, Serving, Stopping
  <2>5. Threads' /\ NoLostWakeup'
    BY <1>2, <2>2 DEF StopSync, Threads, SyncOutlivesUsers, NoLostWakeup
  <2>6. Correction' /\ ForcedZone'
    BY <1>2 DEF StopSync, servicevars, Correction, ForcedZone
  <2>7. Reporting'
    BY <1>2, <2>2 DEF StopSync, servicevars, Reporting
  <2>8. QED
    BY <2>3, <2>4, <2>5, <2>6, <2>7
<1>3. CASE JoinSync
  <2>1. /\ pc = "unwind" /\ Head(todo) = "join" /\ Done
        /\ UNCHANGED <<cfg, running, objs, frees, key, servicevars>>
    BY <1>3 DEF JoinSync, At
  <2>2. \/ todo \in Emptied /\ pc' = "closed" /\ todo' = <<>>
        \/ /\ pc' = "unwind" /\ todo' \in Plans /\ todo' # <<>>
           /\ todo' \in Emptied => todo \in Emptied
    BY <2>1, DoneOutcome
  <2>3. TypeOK'
    BY <1>3, <2>2, PlanFacts DEF JoinSync, servicevars, TypeOK, Steps
  <2>4. Ownership'
    BY <2>1, <2>2 DEF Ownership, Holders, BeforeKey, Serving, Stopping
  <2>5. Threads' /\ NoLostWakeup'
    BY <1>3, <2>2 DEF JoinSync, Threads, SyncOutlivesUsers, NoLostWakeup
  <2>6. Correction' /\ ForcedZone'
    BY <1>3 DEF JoinSync, servicevars, Correction, ForcedZone
  <2>7. Reporting'
    BY <1>3, <2>2 DEF JoinSync, servicevars, Reporting
  <2>8. QED
    BY <2>3, <2>4, <2>5, <2>6, <2>7
<1>4. QED
  BY <1>1, <1>2, <1>3

(* The worker, and time. *)
LEMMA WorkerStep ==
  ASSUME CoreInv, NEW r \in Refreshes,
         refresh_zone \/ refresh_time \/ Sleep \/ Wake \/ Elapse(r)
  PROVE  CoreInv'
<1> USE DEF CoreInv
<1>1. CASE refresh_zone
  <2>1. TypeOK'
    BY <1>1 DEF refresh_zone, Leaves, corevars, servicevars, ZoneNames,
       TypeOK, Snapshot, Zones
  <2>2. Ownership'
    BY <1>1, WorkerFrame DEF refresh_zone, Leaves
  <2>3. Threads' /\ NoLostWakeup'
    BY <1>1 DEF refresh_zone, Work, Leaves, corevars, Threads,
       SyncOutlivesUsers, NoLostWakeup
  <2>4. Correction' /\ ForcedZone'
    BY <1>1 DEF refresh_zone, Work, Leaves, servicevars, ZoneNames,
       Correction, ForcedZone, TypeOK, Snapshot
  <2>5. Reporting'
    BY <1>1 DEF refresh_zone, Leaves, corevars, servicevars, Reporting,
       Source, TypeOK, Refreshes, Snapshot
  <2>6. QED
    BY <2>1, <2>2, <2>3, <2>4, <2>5
<1>2. CASE refresh_time
  <2>1. TypeOK'
    BY <1>2 DEF refresh_time, Leaves, corevars, servicevars, TypeOK, Snapshot
  <2>2. Ownership'
    BY <1>2, WorkerFrame DEF refresh_time, Leaves
  <2>3. Threads' /\ NoLostWakeup'
    BY <1>2 DEF refresh_time, Work, Leaves, corevars, Threads,
       SyncOutlivesUsers, NoLostWakeup
  <2>4. Correction' /\ ForcedZone'
    BY <1>2, NamesAssumption DEF refresh_time, Work, Leaves, servicevars,
       Correction, ForcedZone, TypeOK, Snapshot
  <2>5. Reporting'
    BY <1>2 DEF refresh_time, Work, Leaves, corevars, servicevars,
       Reporting, Source, Correction, TypeOK, Refreshes, Snapshot
  <2>6. QED
    BY <2>1, <2>2, <2>3, <2>4, <2>5
<1>3. CASE Sleep
  <2>1. TypeOK'
    BY <1>3 DEF Sleep, Leaves, corevars, servicevars, TypeOK
  <2>2. Ownership'
    BY <1>3, WorkerFrame DEF Sleep, Leaves
  <2>3. Threads' /\ NoLostWakeup'
    BY <1>3 DEF Sleep, Work, Leaves, corevars, Threads, SyncOutlivesUsers,
       NoLostWakeup
  <2>4. Correction' /\ ForcedZone'
    BY <1>3 DEF Sleep, Work, Leaves, servicevars, Correction, ForcedZone
  <2>5. Reporting'
    BY <1>3 DEF Sleep, Leaves, corevars, servicevars, Reporting
  <2>6. QED
    BY <2>1, <2>2, <2>3, <2>4, <2>5
<1>4. CASE Wake
  <2>1. TypeOK'
    <3>1. /\ woken' \in BOOLEAN /\ wpc' \in {"zone", "exited"}
          /\ UNCHANGED <<cfg, corevars, servicevars, ts, stop, due, found, clock, snap>>
      BY <1>4 DEF Wake, Leaves
    <3>2. QED
      BY <3>1 DEF TypeOK, corevars, servicevars
  <2>2. Ownership'
    BY <1>4, WorkerFrame DEF Wake, Leaves
  <2>3. Threads' /\ NoLostWakeup'
    BY <1>4 DEF Wake, Work, Leaves, corevars, Threads, SyncOutlivesUsers,
       NoLostWakeup
  <2>4. Correction' /\ ForcedZone'
    BY <1>4 DEF Wake, Work, Leaves, servicevars, Correction, ForcedZone
  <2>5. Reporting'
    BY <1>4 DEF Wake, Leaves, corevars, servicevars, Reporting
  <2>6. QED
    BY <2>1, <2>2, <2>3, <2>4, <2>5
<1>5. CASE Elapse(r)
  <2>1. TypeOK'
    BY <1>5 DEF Elapse, Leaves, corevars, servicevars, TypeOK
  <2>2. Ownership'
    BY <1>5, WorkerFrame DEF Elapse, Leaves
  <2>3. Threads' /\ NoLostWakeup'
    BY <1>5 DEF Elapse, Leaves, corevars, Threads, SyncOutlivesUsers,
       NoLostWakeup
  <2>4. Correction' /\ ForcedZone'
    BY <1>5 DEF Elapse, Leaves, servicevars, Correction, ForcedZone
  <2>5. Reporting'
    BY <1>5 DEF Elapse, Leaves, corevars, servicevars, Reporting
  <2>6. QED
    BY <2>1, <2>2, <2>3, <2>4, <2>5
<1>6. QED
  BY <1>1, <1>2, <1>3, <1>4, <1>5

(* Every step of the services, and stuttering, preserves the invariant. *)
LEMMA NextInv == CoreInv /\ [Next]_vars => CoreInv'
<1> SUFFICES ASSUME CoreInv, [Next]_vars PROVE CoreInv'
  OBVIOUS
<1>1. CASE Core
  BY <1>1, CoreStep, TickStep, HandleStep DEF Core
<1>2. CASE Worker \/ \E r \in Refreshes : Elapse(r)
  BY <1>2, WorkerStep DEF Worker, Refreshes
<1>3. CASE on_sigint
  BY <1>3, TickStep
<1>4. CASE UNCHANGED vars
  <2>1. TypeOK'
    BY <1>4 DEF CoreInv, TypeOK, vars, corevars, servicevars, syncvars
  <2>2. Ownership' /\ Threads' /\ NoLostWakeup'
    BY <1>4 DEF CoreInv, Ownership, Holders, Threads, SyncOutlivesUsers,
       NoLostWakeup, vars, corevars, syncvars
  <2>3. Correction' /\ ForcedZone' /\ Reporting'
    BY <1>4 DEF CoreInv, Correction, ForcedZone, Reporting, vars, corevars,
       servicevars, syncvars
  <2>4. QED
    BY <2>1, <2>2, <2>3 DEF CoreInv
<1>5. QED
  BY <1>1, <1>2, <1>3, <1>4 DEF Next

(* The invariant holds of every execution of the core process. *)
THEOREM CoreInvariant == Spec => []CoreInv
  BY StartInv, NextInv, PTL DEF Spec

(* Type correctness, for all zones and offsets: in particular no state is  *)
(* freed more than twice, and an unwinding always has a plan.              *)
THEOREM CoreTypeCorrect == Spec => []TypeOK
<1>1. CoreInv => TypeOK
  BY DEF CoreInv
<1>2. QED
  BY <1>1, CoreInvariant, PTL

(* Wherever the stop request of time_sync_stop() falls, a worker that      *)
(* waits has been signalled.                                               *)
THEOREM StopIsHeard == Spec => []NoLostWakeup
<1>1. CoreInv => NoLostWakeup
  BY DEF CoreInv, Threads
<1>2. QED
  BY <1>1, CoreInvariant, PTL

(* Neither thread uses the handle time_sync_stop() frees after its join.   *)
THEOREM HandleOutlivesUsers == Spec => []SyncOutlivesUsers
<1>1. CoreInv => SyncOutlivesUsers
  BY DEF CoreInv, Threads
<1>2. QED
  BY <1>1, CoreInvariant, PTL

(* What the time service reports as its source is true of the clock.       *)
THEOREM TrueSource == Spec => []SourceIsTrue
<1>1. CoreInv => SourceIsTrue
  BY DEF CoreInv, Correction, SourceIsTrue, Source
<1>2. QED
  BY <1>1, CoreInvariant, PTL

(* A change that realtime_tick() told wrongly is told again by the next.   *)
THEOREM Told == Spec => []NothingStaysUntold
<1>1. CoreInv => NothingStaysUntold
  BY DEF CoreInv, Reporting, NothingStaysUntold
<1>2. QED
  BY <1>1, CoreInvariant, PTL

(* The identity key is with the cryptographic service while the gateway    *)
(* serves, and with nobody once core_main() has returned.                  *)
THEOREM Custody == Spec => []KeyCustody
<1>1. CoreInv => KeyCustody
  BY DEF CoreInv, Ownership, Serving, KeyCustody
<1>2. QED
  BY <1>1, CoreInvariant, PTL

(* A learned zone gives way to a provider's answer only. *)
THEOREM LearnedZoneKept == Spec => ZoneKept
<1> DEFINE Kept == snap.zone # None /\ snap.zone' # snap.zone => snap.zone' \in Answers
<1>1. CoreInv /\ [Next]_vars => [Kept]_vars
  <2> SUFFICES ASSUME CoreInv, Next PROVE Kept
    OBVIOUS
  <2>1. CASE refresh_zone
    BY <2>1 DEF refresh_zone, ZoneNames, CoreInv, ForcedZone, TypeOK, Snapshot
  <2>2. CASE refresh_time
    BY <2>2 DEF refresh_time, CoreInv, TypeOK, Snapshot
  <2>3. CASE UNCHANGED snap
    BY <2>3
  <2>4. ~refresh_zone /\ ~refresh_time => UNCHANGED snap
    BY DEF Next, Core, Worker, IdService, OpenBus, time_sync_start,
       TimeService, CryptoService, LaterService, AuthService, ExportKey,
       InstallKey, ApplyPolicy, Turn, TickZone, TickSource, LeaveLoop,
       DestroyObjects, StopSync, JoinSync, Sleep, Wake, Elapse, on_sigint,
       Leaves, syncvars
  <2>5. QED
    BY <2>1, <2>2, <2>4
<1>2. QED
  BY <1>1, CoreInvariant, PTL DEF Spec, ZoneKept

-----------------------------------------------------------------------------
(* How an unwinding gets on.  A stop once asked is behind the unwinding,    *)
(* and no join is reached without it.                                       *)
Asked ==
  /\ stop => pc \in Stopping /\ todo \in {<<>>, <<"join", "destroy">>, <<"join">>, <<"destroy">>}
  /\ pc = "unwind" /\ todo \in {<<"join", "destroy">>, <<"join">>} /\ ts = "live" => stop

(* The plans by their next step. *)
LEMMA PlanShapes ==
  ASSUME NEW t \in Plans, t # <<>>
  PROVE  /\ Len(t) \in Nat \ {0}
         /\ Len(t) # 1 => Len(Tail(t)) < Len(t)
         /\ Head(t) = "join" => t \in {<<"join", "destroy">>, <<"join">>}
         /\ t \in {<<"join", "destroy">>, <<"join">>, <<"destroy">>} =>
              /\ Head(t) # "stop"
              /\ Len(t) # 1 => Tail(t) = <<"destroy">>
         /\ Head(t) = "stop" =>
              Len(t) # 1 /\ Tail(t) \in {<<"join", "destroy">>, <<"join">>}
         /\ Len(t) # 1 /\ Tail(t) \in {<<"join", "destroy">>, <<"join">>} => Head(t) = "stop"
<1> DEFINE Shape(u) ==
      /\ Len(u) \in Nat \ {0}
      /\ Len(u) # 1 => Len(Tail(u)) < Len(u)
      /\ Head(u) = "join" => u \in {<<"join", "destroy">>, <<"join">>}
      /\ u \in {<<"join", "destroy">>, <<"join">>, <<"destroy">>} =>
           /\ Head(u) # "stop"
           /\ Len(u) # 1 => Tail(u) = <<"destroy">>
      /\ Head(u) = "stop" =>
           Len(u) # 1 /\ Tail(u) \in {<<"join", "destroy">>, <<"join">>}
      /\ Len(u) # 1 /\ Tail(u) \in {<<"join", "destroy">>, <<"join">>} => Head(u) = "stop"
<1>1. Shape(<<"stop", "join", "destroy">>)
  OBVIOUS
<1>2. Shape(<<"join", "destroy">>)
  OBVIOUS
<1>3. Shape(<<"destroy">>)
  OBVIOUS
<1>4. Shape(<<"destroy", "stop", "join">>)
  OBVIOUS
<1>5. Shape(<<"stop", "join">>)
  OBVIOUS
<1>6. Shape(<<"join">>)
  OBVIOUS
<1>7. t \in {<<"stop", "join", "destroy">>, <<"join", "destroy">>, <<"destroy">>,
             <<"destroy", "stop", "join">>, <<"stop", "join">>, <<"join">>}
  BY DEF Plans, SyncFirst, ObjectsFirst
<1>8. Shape(t)
  <2> HIDE DEF Shape
  <2> QED
    BY <1>1, <1>2, <1>3, <1>4, <1>5, <1>6, <1>7
<1> QED
  BY <1>8

(* What a step of an unwinding does to the plan. *)
LEMMA PlanAdvance ==
  ASSUME TypeOK, pc = "unwind", Done
  PROVE  /\ Len(todo') < Len(todo)
         /\ \/ pc' = "closed" /\ todo' = <<>>
            \/ pc' = "unwind" /\ Len(todo) # 1 /\ todo' = Tail(todo)
<1>1. todo \in Plans /\ todo # <<>>
  BY DEF TypeOK
<1>2. Len(todo) \in Nat \ {0} /\ (Len(todo) # 1 => Len(Tail(todo)) < Len(todo))
  BY <1>1, PlanShapes
<1>3. CASE Len(todo) = 1
  BY <1>3 DEF Done, Closed
<1>4. CASE Len(todo) # 1
  BY <1>2, <1>4 DEF Done
<1> QED
  BY <1>3, <1>4

LEMMA AskedStep == TypeOK /\ Threads /\ Asked /\ [Next]_vars => Asked'
<1> DEFINE Joining == {<<"join", "destroy">>, <<"join">>}
           Behind  == {<<>>, <<"join", "destroy">>, <<"join">>, <<"destroy">>}
<1> SUFFICES ASSUME TypeOK, Threads, Asked, [Next]_vars PROVE Asked'
  OBVIOUS
<1>0. /\ todo \in Plans /\ (pc = "unwind" => todo # <<>>)
      /\ stop => pc \in Stopping /\ todo \in Behind
      /\ pc = "unwind" /\ todo \in Joining /\ ts = "live" => stop
  BY DEF TypeOK, Asked
<1>p. ASSUME pc = "unwind", Done
      PROVE  /\ \/ pc' = "closed" /\ todo' = <<>>
                \/ pc' = "unwind" /\ todo' = Tail(todo) /\ Len(todo) # 1
             /\ todo \in Behind => todo' \in Behind \ Joining /\ Head(todo) # "stop"
             /\ Head(todo) = "stop" => todo' \in Behind
             /\ pc' = "unwind" /\ todo' \in Joining => Head(todo) = "stop"
  <2>0. todo \in Plans /\ todo # <<>>
    BY <1>0, <1>p
  <2>1. /\ todo \in Joining \cup {<<"destroy">>} =>
             /\ Head(todo) # "stop"
             /\ Len(todo) # 1 => Tail(todo) = <<"destroy">>
        /\ Head(todo) = "stop" => Len(todo) # 1 /\ Tail(todo) \in Joining
        /\ Len(todo) # 1 /\ Tail(todo) \in Joining => Head(todo) = "stop"
    BY <2>0, PlanShapes
  <2>2. \/ pc' = "closed" /\ todo' = <<>>
        \/ pc' = "unwind" /\ todo' = Tail(todo) /\ Len(todo) # 1
    BY <1>p, PlanAdvance
  <2>3. /\ <<>> \in Behind \ Joining /\ <<"destroy">> \in Behind \ Joining
        /\ Joining \subseteq Behind /\ Behind = Joining \cup {<<"destroy">>, <<>>}
    OBVIOUS
  <2> HIDE DEF Joining, Behind
  <2> QED
    BY <2>0, <2>1, <2>2, <2>3
<1>l. <<"join", "destroy">> # <<"destroy">> /\ SyncFirst \notin Joining /\ ObjectsFirst \notin Joining
      /\ <<"destroy">> \notin Joining /\ <<>> \notin Joining
  BY DEF SyncFirst, ObjectsFirst
<1> HIDE DEF Joining, Behind
<1>1. CASE DestroyObjects
  <2>1. /\ pc = "unwind" /\ Head(todo) = "destroy" /\ UNCHANGED <<stop, ts>>
        /\ Done \/ (pc' = "crashed" /\ todo' = <<>>)
    BY <1>1 DEF DestroyObjects, At, syncvars, Crashed
  <2>2. CASE Done
    BY <1>0, <1>p, <2>1, <2>2 DEF Asked, Stopping, Joining, Behind
  <2>3. CASE pc' = "crashed" /\ todo' = <<>>
    BY <1>0, <2>1, <2>3 DEF Asked, Stopping
  <2> QED
    BY <2>1, <2>2, <2>3
<1>2. CASE StopSync
  <2>1. pc = "unwind" /\ Head(todo) = "stop" /\ Done /\ stop' = (ts = "live") /\ ts' = ts
    BY <1>2 DEF StopSync, At
  <2> QED
    BY <1>0, <1>p, <2>1 DEF Asked, Stopping, Joining, Behind
<1>3. CASE JoinSync
  <2>1. pc = "unwind" /\ Head(todo) = "join" /\ Done /\ stop' = stop
    BY <1>3 DEF JoinSync, At
  <2> QED
    BY <1>0, <1>p, <2>1 DEF Asked, Stopping, Joining, Behind
<1>4. CASE time_sync_start
  BY <1>0, <1>4 DEF time_sync_start, Goto, Asked, Stopping
<1>5. CASE IdService \/ OpenBus \/ TimeService \/ CryptoService \/ LeaveLoop
  <2>1. pc \notin Stopping /\ UNCHANGED <<stop, ts>>
    BY <1>5 DEF IdService, OpenBus, TimeService, CryptoService, LaterService, LeaveLoop, syncvars, Stopping
  <2>2. pc' = "unwind" => todo' \in {<<"destroy">>, SyncFirst, ObjectsFirst}
    BY <1>5 DEF IdService, OpenBus, TimeService, CryptoService, LaterService, LeaveLoop, Goto, Unwind, Closed, Crashed
  <2> QED
    BY <1>0, <1>l, <2>1, <2>2 DEF Asked, Joining
<1>6. CASE \/ AuthService \/ ExportKey \/ InstallKey \/ ApplyPolicy \/ Turn \/ TickZone \/ TickSource
  <2>1. pc \notin Stopping /\ UNCHANGED <<stop, ts>> /\ pc' # "unwind"
    BY <1>6 DEF AuthService, ExportKey, InstallKey, ApplyPolicy, Turn, TickZone, TickSource, Goto, Crashed, syncvars, Stopping
  <2> QED
    BY <1>0, <2>1 DEF Asked
<1>7. CASE Worker \/ on_sigint \/ (\E r \in Refreshes : Elapse(r)) \/ UNCHANGED vars
  <2>1. UNCHANGED <<pc, todo, stop, ts>>
    BY <1>7 DEF Worker, refresh_zone, refresh_time, Sleep, Wake, Elapse, Leaves, on_sigint, corevars, syncvars, vars
  <2> QED
    BY <2>1 DEF Asked
<1> QED
  BY <1>1, <1>2, <1>3, <1>4, <1>5, <1>6, <1>7 DEF Next, Core

(* time_sync_stop() and the unwindings of core_main(): for all zones and   *)
(* offsets, each step either thread takes towards the end brings it nearer *)
(* and nothing takes it back.                                              *)
THEOREM ShutdownAdvances == Spec => ShutdownProgress
<1> DEFINE Step ==
      /\ pc = "unwind" /\ Core => Len(todo') < Len(todo)
      /\ At("join") /\ ts = "live" => stop
      /\ stop => stop' /\ (Worker => WorkerLeft' < WorkerLeft)
<1>1. Init => Asked
  BY DEF Init, Asked
<1>2. CoreInv => TypeOK /\ Threads
  BY DEF CoreInv
<1>3. Spec => []Asked
  BY <1>1, <1>2, AskedStep, CoreInvariant, PTL DEF Spec
<1>4. ASSUME CoreInv, Asked, Next PROVE Step
  <2>0. TypeOK /\ todo \in Plans /\ (pc = "unwind" => todo # <<>>)
    BY <1>2, <1>4 DEF TypeOK
  <2>1. ASSUME pc = "unwind", Core PROVE Len(todo') < Len(todo)
    <3>1. CASE Done
      BY <2>0, <2>1, <3>1, PlanAdvance
    <3>2. CASE todo' = <<>>
      BY <2>0, <2>1, <3>2, PlanShapes
    <3> QED
      BY <2>1, <3>1, <3>2 DEF Core, IdService, OpenBus, time_sync_start, TimeService, AuthService,
         CryptoService, ExportKey, InstallKey, ApplyPolicy, Turn, TickZone, TickSource, LeaveLoop,
         DestroyObjects, StopSync, JoinSync, Crashed
  <2>2. At("join") /\ ts = "live" => stop
    BY <1>4, <2>0, PlanShapes DEF At, Asked
  <2>3. ASSUME stop PROVE stop'
    <3>1. ~StopSync
      BY <1>4, <2>0, <2>3, PlanShapes DEF StopSync, At, Asked
    <3> QED
      BY <1>4, <2>3, <3>1 DEF Next, Core, Worker, IdService, OpenBus, time_sync_start,
         TimeService, CryptoService, LaterService, AuthService, ExportKey,
         InstallKey, ApplyPolicy, Turn, TickZone, TickSource, LeaveLoop,
         DestroyObjects, JoinSync, refresh_zone, refresh_time, Sleep, Wake, Elapse, on_sigint,
         Leaves, syncvars
  <2>4. ASSUME stop, Worker PROVE WorkerLeft' < WorkerLeft
    <3>1. CASE refresh_zone
      BY <3>1 DEF refresh_zone, Work, WorkerLeft
    <3>2. CASE refresh_time
      BY <3>2 DEF refresh_time, Work, WorkerLeft
    <3>3. CASE Sleep
      BY <2>4, <3>3 DEF Sleep, Work, WorkerLeft
    <3>4. CASE Wake
      BY <2>4, <3>4 DEF Wake, Work, WorkerLeft
    <3> QED
      BY <2>4, <3>1, <3>2, <3>3, <3>4 DEF Worker
  <2> QED
    BY <2>1, <2>2, <2>3, <2>4
<1>5. CoreInv /\ Asked /\ [Next]_vars => [Step]_vars
  BY <1>4
<1> QED
  BY <1>3, <1>5, CoreInvariant, PTL DEF Spec, ShutdownProgress
===============================================================================
