--------------------------- MODULE BluezManagerProofs ---------------------------
(***************************************************************************)
(* Proofs about BluezManager, for every number of devices, every back-off  *)
(* and every width of an int, and the proof that the manager implements    *)
(* LinkEvents.                                                             *)
(*                                                                         *)
(* The inductive invariant BleInv adds to the properties: the device whose *)
(* connect blocks is connecting (Blocked); only a link that is up has a    *)
(* button subscription (Subscribed); and the events of a poll are about    *)
(* devices it has passed, at most one each (Events), which is why none is  *)
(* told twice and the array never fills.                                   *)
(*                                                                         *)
(* The progress of a poll is proved from the places of a pass: PassStep    *)
(* for the measure, PauseStep for the pauses between connections.          *)
(***************************************************************************)
EXTENDS BluezManager, TLAPS

Visiting == mpc \in {"visit", "connect", "resolve"}

Blocked ==
  mpc \in {"connect", "resolve"} =>
    cur \in Dev /\ link[cur] = "connecting" /\ path[cur] /\ wait[cur] = 0

Subscribed ==
  \A i \in Dev : (sub[i] => link[i] = "online") /\ (button[i] # Unknown => sub[i])

Events ==
  /\ mpc \in {"poll", "closed"} => events = <<>>
  /\ Visiting => /\ Len(events) < cur
                 /\ \A k \in 1 .. Len(events) : events[k].dev < cur

BleInv == BleTypeOK /\ Blocked /\ Subscribed /\ Events /\ ScanEndsWhenFound

-----------------------------------------------------------------------------
(* A pause of the back-off is one the code names, whatever the counter is. *)
LEMMA DelayType ==
  ASSUME NEW a \in 0 .. Width - 1
  PROVE  Delay(a) \in Pauses
<1>1. Delay(a) \in 0 .. RetryMax
  BY ManagerAssumption DEF Delay
<1> QED
  BY <1>1 DEF Pauses

LEMMA PauseType ==
  /\ 0 \in Pauses /\ RetryBase \in Pauses /\ ScanRetry \in Pauses
  /\ \A p \in Pauses : p \in Nat
  /\ \A p \in Pauses, t \in Nat : p > t => p - t \in Pauses
<1>1. Pauses \subseteq Nat
  BY ManagerAssumption DEF Pauses
<1>2. 0 \in Pauses /\ RetryBase \in Pauses /\ ScanRetry \in Pauses
  BY ManagerAssumption DEF Pauses
<1>3. ASSUME NEW p \in Pauses, NEW t \in Nat, p > t
      PROVE  p - t \in Pauses
  <2>1. PICK q \in {RetryBase, RetryMax, ScanRetry} : p \in 0 .. q
    BY DEF Pauses
  <2>2. p - t \in 0 .. q
    BY <2>1, <1>3, ManagerAssumption
  <2> QED
    BY <2>2 DEF Pauses
<1> QED
  BY <1>1, <1>2, <1>3

-----------------------------------------------------------------------------
LEMMA BleStartInv ==
  ASSUME NEW b \in BOOLEAN, NEW k \in [Dev -> BOOLEAN], BleStart(b, k)
  PROVE  BleInv
<1>1. BleTypeOK
  BY PauseType, ManagerAssumption DEF BleStart, BleTypeOK, All, Dev
<1>2. Blocked /\ Subscribed /\ Events /\ ScanEndsWhenFound
  BY ManagerAssumption DEF BleStart, Blocked, Subscribed, Events, Visiting, ScanEndsWhenFound, All, Dev
<1> QED
  BY <1>1, <1>2 DEF BleInv
-----------------------------------------------------------------------------
(* The pieces of a step. *)

LEMMA SignalledType ==
  ASSUME BleTypeOK, NEW S \in SUBSET Dev
  PROVE  Signalled(S) \in [Dev -> BOOLEAN]
BY DEF Signalled, BleTypeOK

LEMMA NotifiesType ==
  ASSUME BleTypeOK, Notifies
  PROVE  /\ button' \in [Dev -> {0, 1, Unknown}]
         /\ \A i \in Dev : ~sub[i] => button'[i] = button[i]
BY DEF Notifies, on_btn_value, BleTypeOK

LEMMA PumpType ==
  ASSUME BleTypeOK, Pump
  PROVE  conn' \in [Dev -> BOOLEAN]
BY SignalledType DEF Pump

LEMMA EventType ==
  ASSUME BleTypeOK
  PROVE  /\ Len(events) \in Nat
         /\ \A k \in 1 .. Len(events) : events[k].dev \in Nat
<1>1. \A T, s : s \in Seq(T) => Len(s) \in Nat /\ \A k \in 1 .. Len(s) : s[k] \in T
  OBVIOUS
<1>2. \A k \in 1 .. Len(events) : events[k] \in [dev : Dev, online : BOOLEAN]
  BY <1>1 DEF BleTypeOK
<1>3. \A k \in 1 .. Len(events) : events[k].dev \in 1 .. N
  BY <1>2 DEF Dev
<1> QED
  BY <1>1, <1>3, ManagerAssumption DEF BleTypeOK

LEMMA EmitType ==
  ASSUME BleTypeOK, NEW i \in Dev, NEW b \in BOOLEAN, Emit(i, b)
  PROVE  events' \in Seq([dev : Dev, online : BOOLEAN])
<1>1. [dev |-> i, online |-> b] \in [dev : Dev, online : BOOLEAN]
  OBVIOUS
<1>2. \A T, s, e : s \in Seq(T) /\ e \in T => Append(s, e) \in Seq(T)
  OBVIOUS
<1> QED
  BY <1>1, <1>2 DEF Emit, BleTypeOK

-----------------------------------------------------------------------------
LEMMA VisitType ==
  ASSUME BleTypeOK, NEW i \in Dev, Visit(i)
  PROVE  BleTypeOK'
<1> USE ManagerAssumption, PauseType
<1>0. At(i) \/ cur = i => cur + 1 \in 1 .. N + 1
  BY DEF At, BleTypeOK, Dev
<1>1. CASE resolve_path(i)
  BY <1>0, <1>1 DEF resolve_path, BleTypeOK, At
<1>2. CASE start_discovery(i)
  BY <1>0, <1>2 DEF start_discovery, BleTypeOK, At
<1>3. CASE NothingToDo(i)
  BY <1>0, <1>3 DEF NothingToDo, BleTypeOK, At, mgrvars, envvars
<1>4. CASE LinkLost(i)
  <2>1. events' \in Seq([dev : Dev, online : BOOLEAN])
    BY <1>4, EmitType DEF LinkLost
  <2>2. sub' \in [Dev -> BOOLEAN]
    BY <1>4 DEF LinkLost, unsubscribe_button, BleTypeOK
  <2>3. attempt' \in [Dev -> 0 .. Width - 1] /\ wait' \in [Dev -> Pauses]
    BY <1>4 DEF LinkLost, BleTypeOK
  <2>4. link' \in [Dev -> {"off", "connecting", "online"}] /\ button' \in [Dev -> {0, 1, Unknown}]
    BY <1>4 DEF LinkLost, unsubscribe_button, BleTypeOK
  <2>5. cur' \in 1 .. N + 1 /\ mpc' = mpc
    BY <1>0, <1>4 DEF LinkLost
  <2>6. UNCHANGED <<hasBus, path, scanning, proxy, conn, linked, known, radio>>
    BY <1>4 DEF LinkLost, envvars
  <2> QED
    BY <2>1, <2>2, <2>3, <2>4, <2>5, <2>6 DEF BleTypeOK
<1>5. CASE Connect(i)
  BY <1>5 DEF Connect, BleTypeOK, envvars
<1>6. CASE Connected(i)
  BY <1>6 DEF Connected, BleTypeOK, mgrvars
<1>7. CASE Resolved(i)
  <2>1. events' \in Seq([dev : Dev, online : BOOLEAN])
    BY <1>7, EmitType DEF Resolved
  <2>2. button' \in [Dev -> {0, 1, Unknown}]
    BY <1>7, NotifiesType DEF Resolved
  <2>3. conn' \in [Dev -> BOOLEAN]
    <3>1. PICK c \in {TRUE, linked[i]}, S \in SUBSET (Dev \ {i}) :
            conn' = [Signalled(S) EXCEPT ![i] = c]
      BY <1>7 DEF Resolved
    <3>2. c \in BOOLEAN
      BY DEF BleTypeOK
    <3> QED
      BY <3>1, <3>2, SignalledType
  <2>4. sub' \in [Dev -> BOOLEAN]
    BY <1>7 DEF Resolved, BleTypeOK
  <2>5. attempt' \in [Dev -> 0 .. Width - 1] /\ wait' \in [Dev -> Pauses]
    BY <1>7 DEF Resolved, BleTypeOK
  <2>6. link' \in [Dev -> {"off", "connecting", "online"}]
    BY <1>7 DEF Resolved, BleTypeOK
  <2>7. cur' \in 1 .. N + 1 /\ mpc' = "visit"
    BY <1>0, <1>7 DEF Resolved
  <2>8. UNCHANGED <<hasBus, path, scanning, proxy, linked, known, radio>>
    BY <1>7 DEF Resolved, envvars
  <2> QED
    BY <2>1, <2>2, <2>3, <2>4, <2>5, <2>6, <2>7, <2>8 DEF BleTypeOK
<1>8. CASE ConnectFailed(i)
  <2>1. attempt' \in [Dev -> 0 .. Width - 1]
    <3>1. attempt[i] \in Nat
      BY DEF BleTypeOK
    <3>2. (attempt[i] + 1) % Width \in 0 .. Width - 1
      BY <3>1
    <3> QED
      BY <1>8, <3>2 DEF ConnectFailed, BleTypeOK
  <2>2. Delay(attempt'[i]) \in Pauses
    BY <2>1, DelayType
  <2> QED
    BY <1>0, <1>8, <2>1, <2>2 DEF ConnectFailed, BleTypeOK, envvars
<1> QED
  BY <1>1, <1>2, <1>3, <1>4, <1>5, <1>6, <1>7, <1>8 DEF Visit

LEMMA BleTypeStep ==
  ASSUME BleTypeOK, [BleNext]_blevars
  PROVE  BleTypeOK'
<1> USE ManagerAssumption, PauseType
<1>1. CASE PollStart
  <2>1. button' \in [Dev -> {0, 1, Unknown}] /\ conn' \in [Dev -> BOOLEAN]
    <3>1. CASE hasBus
      BY <1>1, <3>1, PumpType, NotifiesType DEF PollStart, Pump
    <3>2. CASE ~hasBus
      BY <1>1, <3>2 DEF PollStart, BleTypeOK
    <3> QED
      BY <3>1, <3>2
  <2> QED
    BY <1>1, <2>1 DEF PollStart, BleTypeOK, envvars
<1>2. CASE PollDone
  BY <1>2 DEF PollDone, BleTypeOK, mgrvars, envvars
<1>3. CASE TakeEvent
  BY <1>3 DEF TakeEvent, BleTypeOK, mgrvars, envvars
<1>4. ASSUME NEW t \in 0 .. MaxPass, NextPass(t)
      PROVE  BleTypeOK'
  <2>1. \A i \in Dev : (IF wait[i] > t THEN wait[i] - t ELSE 0) \in Pauses
    BY <1>4 DEF BleTypeOK
  <2>2. wait' \in [Dev -> Pauses]
    BY <1>4, <2>1 DEF NextPass
  <2> QED
    BY <1>4, <2>2 DEF NextPass, BleTypeOK, envvars
<1>5. ASSUME NEW i \in Dev, Visit(i)
      PROVE  BleTypeOK'
  BY <1>5, VisitType
<1>6. CASE hes_ble_mgr_close
  <2>1. linked' \in [Dev -> BOOLEAN]
    <3>1. PICK S \in SUBSET {i \in Dev : proxy[i]} : linked' = [i \in Dev |-> linked[i] /\ i \notin S]
      BY <1>6 DEF hes_ble_mgr_close
    <3> QED
      BY <3>1
  <2> QED
    BY <1>6, <2>1 DEF hes_ble_mgr_close, BleTypeOK, All
<1>7. ASSUME NEW i \in Dev, Advertised(i)
      PROVE  BleTypeOK'
  BY <1>7 DEF Advertised, BleTypeOK, mgrvars, passvars
<1>8. ASSUME NEW i \in Dev, Dropped(i)
      PROVE  BleTypeOK'
  BY <1>8 DEF Dropped, BleTypeOK, mgrvars, passvars
<1>9. CASE UNCHANGED blevars
  BY <1>9 DEF BleTypeOK, blevars, mgrvars, passvars, envvars
<1> QED
  BY <1>1, <1>2, <1>3, <1>4, <1>5, <1>6, <1>7, <1>8, <1>9 DEF BleNext, Pass
-----------------------------------------------------------------------------

(* Only the device at which the poll stands is being connected. *)
LEMMA BlockedStep ==
  ASSUME BleInv, [BleNext]_blevars
  PROVE  Blocked'
<1> USE ManagerAssumption DEF BleInv, Blocked
<1>1. CASE PollStart
  BY <1>1 DEF PollStart, Pump, BleTypeOK, mgrvars, envvars, passvars
<1>2. CASE PollDone
  BY <1>2 DEF PollDone, BleTypeOK, mgrvars, envvars, passvars
<1>3. CASE TakeEvent
  BY <1>3 DEF TakeEvent, BleTypeOK, mgrvars, envvars, passvars
<1>4. ASSUME NEW t \in 0 .. MaxPass, NextPass(t)
      PROVE  Blocked'
  BY <1>4 DEF NextPass, BleTypeOK, mgrvars, envvars, passvars
<1>5. ASSUME NEW i \in Dev, resolve_path(i)
      PROVE  Blocked'
  BY <1>5 DEF resolve_path, At, BleTypeOK, Dev, mgrvars, envvars, passvars
<1>6. ASSUME NEW i \in Dev, start_discovery(i)
      PROVE  Blocked'
  BY <1>6 DEF start_discovery, At, BleTypeOK, Dev, mgrvars, envvars, passvars
<1>7. ASSUME NEW i \in Dev, NothingToDo(i)
      PROVE  Blocked'
  BY <1>7 DEF NothingToDo, At, BleTypeOK, Dev, mgrvars, envvars, passvars
<1>8. ASSUME NEW i \in Dev, LinkLost(i)
      PROVE  Blocked'
  BY <1>8 DEF LinkLost, At, BleTypeOK, Dev, mgrvars, envvars, passvars, unsubscribe_button, Emit
<1>9. ASSUME NEW i \in Dev, Connect(i)
      PROVE  Blocked'
  BY <1>9 DEF Connect, At, Due, BleTypeOK, Dev, mgrvars, envvars, passvars
<1>10. ASSUME NEW i \in Dev, Connected(i)
      PROVE  Blocked'
  BY <1>10 DEF Connected, At, BleTypeOK, Dev, mgrvars, envvars, passvars
<1>11. ASSUME NEW i \in Dev, Resolved(i)
      PROVE  Blocked'
  BY <1>11 DEF Resolved, At, BleTypeOK, Dev, mgrvars, envvars, passvars, Emit
<1>12. ASSUME NEW i \in Dev, ConnectFailed(i)
      PROVE  Blocked'
  BY <1>12 DEF ConnectFailed, At, BleTypeOK, Dev, mgrvars, envvars, passvars
<1>13. CASE hes_ble_mgr_close
  BY <1>13 DEF hes_ble_mgr_close, All, BleTypeOK, mgrvars, envvars, passvars
<1>14. ASSUME NEW i \in Dev, Advertised(i)
      PROVE  Blocked'
  BY <1>14 DEF Advertised, BleTypeOK, mgrvars, envvars, passvars
<1>15. ASSUME NEW i \in Dev, Dropped(i)
      PROVE  Blocked'
  BY <1>15 DEF Dropped, BleTypeOK, mgrvars, envvars, passvars
<1>16. CASE UNCHANGED blevars
  BY <1>16 DEF blevars, mgrvars, envvars, passvars
<1> QED
  BY <1>1, <1>2, <1>3, <1>4, <1>5, <1>6, <1>7, <1>8, <1>9, <1>10, <1>11, <1>12, <1>13, <1>14, <1>15, <1>16 DEF BleNext, Pass, Visit

(* A subscription ends with its link, and a value with its subscription. *)
LEMMA SubscribedStep ==
  ASSUME BleInv, [BleNext]_blevars
  PROVE  Subscribed'
<1> USE ManagerAssumption DEF BleInv, Subscribed, Blocked
<1>1. CASE PollStart
  BY <1>1, NotifiesType DEF PollStart, Pump, BleTypeOK, mgrvars, envvars, passvars
<1>2. CASE PollDone
  BY <1>2 DEF PollDone, BleTypeOK, mgrvars, envvars, passvars
<1>3. CASE TakeEvent
  BY <1>3 DEF TakeEvent, BleTypeOK, mgrvars, envvars, passvars
<1>4. ASSUME NEW t \in 0 .. MaxPass, NextPass(t)
      PROVE  Subscribed'
  BY <1>4 DEF NextPass, BleTypeOK, mgrvars, envvars, passvars
<1>5. ASSUME NEW i \in Dev, resolve_path(i)
      PROVE  Subscribed'
  BY <1>5 DEF resolve_path, At, BleTypeOK, Dev, mgrvars, envvars, passvars
<1>6. ASSUME NEW i \in Dev, start_discovery(i)
      PROVE  Subscribed'
  BY <1>6 DEF start_discovery, At, BleTypeOK, Dev, mgrvars, envvars, passvars
<1>7. ASSUME NEW i \in Dev, NothingToDo(i)
      PROVE  Subscribed'
  BY <1>7 DEF NothingToDo, At, BleTypeOK, Dev, mgrvars, envvars, passvars
<1>8. ASSUME NEW i \in Dev, LinkLost(i)
      PROVE  Subscribed'
  BY <1>8 DEF LinkLost, At, BleTypeOK, Dev, mgrvars, envvars, passvars, unsubscribe_button, Emit
<1>9. ASSUME NEW i \in Dev, Connect(i)
      PROVE  Subscribed'
  BY <1>9 DEF Connect, At, BleTypeOK, Dev, mgrvars, envvars, passvars
<1>10. ASSUME NEW i \in Dev, Connected(i)
      PROVE  Subscribed'
  BY <1>10 DEF Connected, At, BleTypeOK, Dev, mgrvars, envvars, passvars
<1>11. ASSUME NEW i \in Dev, Resolved(i)
      PROVE  Subscribed'
  BY <1>11, NotifiesType DEF Resolved, At, BleTypeOK, Dev, mgrvars, envvars, passvars, Emit
<1>12. ASSUME NEW i \in Dev, ConnectFailed(i)
      PROVE  Subscribed'
  BY <1>12 DEF ConnectFailed, At, BleTypeOK, Dev, mgrvars, envvars, passvars
<1>13. CASE hes_ble_mgr_close
  BY <1>13 DEF hes_ble_mgr_close, All, BleTypeOK, mgrvars, envvars, passvars
<1>14. ASSUME NEW i \in Dev, Advertised(i)
      PROVE  Subscribed'
  BY <1>14 DEF Advertised, BleTypeOK, mgrvars, envvars, passvars
<1>15. ASSUME NEW i \in Dev, Dropped(i)
      PROVE  Subscribed'
  BY <1>15 DEF Dropped, BleTypeOK, mgrvars, envvars, passvars
<1>16. CASE UNCHANGED blevars
  BY <1>16 DEF blevars, mgrvars, envvars, passvars
<1> QED
  BY <1>1, <1>2, <1>3, <1>4, <1>5, <1>6, <1>7, <1>8, <1>9, <1>10, <1>11, <1>12, <1>13, <1>14, <1>15, <1>16 DEF BleNext, Pass, Visit

(* An event is about the device just passed. *)
LEMMA EventsStep ==
  ASSUME BleInv, [BleNext]_blevars
  PROVE  Events'
<1> USE ManagerAssumption DEF BleInv, Events, Visiting
<1>0. /\ Len(events) \in Nat /\ cur \in 1 .. N + 1
      /\ \A k \in 1 .. Len(events) : events[k].dev \in Nat
  BY EventType DEF BleTypeOK
<1>a. ASSUME NEW i \in Dev, NEW b \in BOOLEAN, cur = i, mpc \in {"visit", "resolve"}, Emit(i, b)
      PROVE  /\ Len(events') < cur + 1
             /\ \A k \in 1 .. Len(events') : events'[k].dev < cur + 1
  <2>1. CASE Len(events) < MaxDevs
    <3>1. /\ events' = Append(events, [dev |-> i, online |-> b])
          /\ events \in Seq([dev : Dev, online : BOOLEAN])
      BY <1>a, <2>1 DEF Emit, BleTypeOK
    <3>2. Len(events') = Len(events) + 1 /\ events'[Len(events) + 1].dev = i
      BY <3>1
    <3>3. \A k \in 1 .. Len(events) : events'[k] = events[k]
      BY <3>1
    <3> QED
      BY <1>0, <1>a, <3>2, <3>3
  <2>2. CASE ~(Len(events) < MaxDevs)
    BY <1>0, <1>a, <2>2 DEF Emit
  <2> QED
    BY <2>1, <2>2
<1>1. CASE PollStart
  BY <1>1 DEF PollStart, Pump, BleTypeOK, mgrvars, envvars, passvars
<1>2. CASE PollDone
  BY <1>2 DEF PollDone, BleTypeOK, mgrvars, envvars, passvars
<1>3. CASE TakeEvent
  BY <1>3 DEF TakeEvent, BleTypeOK, mgrvars, envvars, passvars
<1>4. ASSUME NEW t \in 0 .. MaxPass, NextPass(t)
      PROVE  Events'
  BY <1>4 DEF NextPass, BleTypeOK, mgrvars, envvars, passvars
<1>5. ASSUME NEW i \in Dev, resolve_path(i)
      PROVE  Events'
  BY <1>0, <1>5 DEF resolve_path, At, mgrvars, envvars, passvars
<1>6. ASSUME NEW i \in Dev, start_discovery(i)
      PROVE  Events'
  BY <1>0, <1>6 DEF start_discovery, At, mgrvars, envvars, passvars
<1>7. ASSUME NEW i \in Dev, NothingToDo(i)
      PROVE  Events'
  BY <1>0, <1>7 DEF NothingToDo, At, mgrvars, envvars, passvars
<1>8. ASSUME NEW i \in Dev, LinkLost(i)
      PROVE  Events'
  BY <1>0, <1>a, <1>8 DEF LinkLost, At
<1>9. ASSUME NEW i \in Dev, Connect(i)
      PROVE  Events'
  BY <1>0, <1>9 DEF Connect, At, mgrvars, envvars, passvars
<1>10. ASSUME NEW i \in Dev, Connected(i)
      PROVE  Events'
  BY <1>0, <1>10 DEF Connected, At, mgrvars, envvars, passvars
<1>11. ASSUME NEW i \in Dev, Resolved(i)
      PROVE  Events'
  BY <1>0, <1>a, <1>11 DEF Resolved
<1>12. ASSUME NEW i \in Dev, ConnectFailed(i)
      PROVE  Events'
  BY <1>0, <1>12 DEF ConnectFailed, At, mgrvars, envvars, passvars
<1>13. CASE hes_ble_mgr_close
  BY <1>13 DEF hes_ble_mgr_close, All, BleTypeOK, mgrvars, envvars, passvars
<1>14. ASSUME NEW i \in Dev, Advertised(i)
      PROVE  Events'
  BY <1>14 DEF Advertised, BleTypeOK, mgrvars, envvars, passvars
<1>15. ASSUME NEW i \in Dev, Dropped(i)
      PROVE  Events'
  BY <1>15 DEF Dropped, BleTypeOK, mgrvars, envvars, passvars
<1>16. CASE UNCHANGED blevars
  BY <1>16 DEF blevars, mgrvars, envvars, passvars
<1> QED
  BY <1>1, <1>2, <1>3, <1>4, <1>5, <1>6, <1>7, <1>8, <1>9, <1>10, <1>11, <1>12, <1>13, <1>14, <1>15, <1>16 DEF BleNext, Pass, Visit

(* Whoever finds its tag ends the scan. *)
LEMMA ScanStep ==
  ASSUME BleInv, [BleNext]_blevars
  PROVE  ScanEndsWhenFound'
<1> USE ManagerAssumption DEF BleInv, ScanEndsWhenFound
<1>1. CASE PollStart
  BY <1>1 DEF PollStart, Pump, BleTypeOK, mgrvars, envvars, passvars
<1>2. CASE PollDone
  BY <1>2 DEF PollDone, BleTypeOK, mgrvars, envvars, passvars
<1>3. CASE TakeEvent
  BY <1>3 DEF TakeEvent, BleTypeOK, mgrvars, envvars, passvars
<1>4. ASSUME NEW t \in 0 .. MaxPass, NextPass(t)
      PROVE  ScanEndsWhenFound'
  BY <1>4 DEF NextPass, BleTypeOK, mgrvars, envvars, passvars
<1>5. ASSUME NEW i \in Dev, resolve_path(i)
      PROVE  ScanEndsWhenFound'
  BY <1>5 DEF resolve_path, At, BleTypeOK, Dev, mgrvars, envvars, passvars
<1>6. ASSUME NEW i \in Dev, start_discovery(i)
      PROVE  ScanEndsWhenFound'
  BY <1>6 DEF start_discovery, At, BleTypeOK, Dev, mgrvars, envvars, passvars
<1>7. ASSUME NEW i \in Dev, NothingToDo(i)
      PROVE  ScanEndsWhenFound'
  BY <1>7 DEF NothingToDo, At, BleTypeOK, Dev, mgrvars, envvars, passvars
<1>8. ASSUME NEW i \in Dev, LinkLost(i)
      PROVE  ScanEndsWhenFound'
  BY <1>8 DEF LinkLost, At, BleTypeOK, Dev, mgrvars, envvars, passvars, unsubscribe_button, Emit
<1>9. ASSUME NEW i \in Dev, Connect(i)
      PROVE  ScanEndsWhenFound'
  BY <1>9 DEF Connect, At, BleTypeOK, Dev, mgrvars, envvars, passvars
<1>10. ASSUME NEW i \in Dev, Connected(i)
      PROVE  ScanEndsWhenFound'
  BY <1>10 DEF Connected, At, BleTypeOK, Dev, mgrvars, envvars, passvars
<1>11. ASSUME NEW i \in Dev, Resolved(i)
      PROVE  ScanEndsWhenFound'
  BY <1>11 DEF Resolved, At, BleTypeOK, Dev, mgrvars, envvars, passvars, Emit
<1>12. ASSUME NEW i \in Dev, ConnectFailed(i)
      PROVE  ScanEndsWhenFound'
  BY <1>12 DEF ConnectFailed, At, BleTypeOK, Dev, mgrvars, envvars, passvars
<1>13. CASE hes_ble_mgr_close
  BY <1>13 DEF hes_ble_mgr_close, All, BleTypeOK, mgrvars, envvars, passvars
<1>14. ASSUME NEW i \in Dev, Advertised(i)
      PROVE  ScanEndsWhenFound'
  BY <1>14 DEF Advertised, BleTypeOK, mgrvars, envvars, passvars
<1>15. ASSUME NEW i \in Dev, Dropped(i)
      PROVE  ScanEndsWhenFound'
  BY <1>15 DEF Dropped, BleTypeOK, mgrvars, envvars, passvars
<1>16. CASE UNCHANGED blevars
  BY <1>16 DEF blevars, mgrvars, envvars, passvars
<1> QED
  BY <1>1, <1>2, <1>3, <1>4, <1>5, <1>6, <1>7, <1>8, <1>9, <1>10, <1>11, <1>12, <1>13, <1>14, <1>15, <1>16 DEF BleNext, Pass, Visit

LEMMA BleInvStep == BleInv /\ [BleNext]_blevars => BleInv'
BY BleTypeStep, BlockedStep, SubscribedStep, EventsStep, ScanStep DEF BleInv

LEMMA BleInvariance == BleSpec => []BleInv
<1>1. BleInit => BleInv
  BY BleStartInv DEF BleInit
<1> QED
  BY <1>1, BleInvStep, PTL DEF BleSpec

-----------------------------------------------------------------------------
(* Every variable of the manager keeps its type and no pause is longer     *)
(* than the longest that hes_ble_bluez.c names, whatever the unbounded     *)
(* attempt counter does to the shift.                                      *)
THEOREM BleTypeCorrect == BleSpec => []BleTypeOK
BY BleInvariance, PTL DEF BleInv

(* hes_ble_mgr_button() serves only values notified on the link the device *)
(* has now.                                                                *)
THEOREM ButtonCurrent == BleSpec => []ButtonOfThisLink
<1>1. BleInv => ButtonOfThisLink
  BY DEF BleInv, Subscribed, ButtonOfThisLink
<1> QED
  BY <1>1, BleInvariance, PTL

(* The adapter scans only for a device that asked and is still not found,  *)
(* however many devices share it.                                          *)
THEOREM ScanEnds == BleSpec => []ScanEndsWhenFound
BY BleInvariance, PTL DEF BleInv

-----------------------------------------------------------------------------
(* The refinement.  A step of the manager that keeps every device on its   *)
(* side of "online" and leaves the events alone is a stutter.              *)
LEMMA Stutter ==
  ASSUME events' = events, \A i \in Dev : (link'[i] = "online") <=> (link[i] = "online")
  PROVE  UNCHANGED <<[i \in Dev |-> link[i] = "online"], events>>
OBVIOUS

(* Changing sides and telling it is one change of the contract: the device *)
(* was not told of in this poll, and there is room for the event.          *)
LEMMA Told ==
  ASSUME BleInv, NEW i \in Dev, NEW b \in BOOLEAN, cur = i, mpc \in {"visit", "resolve"},
         Emit(i, b), (link[i] = "online") <=> ~b,
         link' \in [Dev -> {"off", "connecting", "online"}], (link'[i] = "online") <=> b,
         \A j \in Dev \ {i} : link'[j] = link[j]
  PROVE  Contract!Change(i)
<1> USE ManagerAssumption
<1>1. Len(events) < i /\ \A k \in 1 .. Len(events) : events[k].dev < i
  BY DEF BleInv, Events, Visiting
<1>2. ~Contract!Told(i)
  BY <1>1 DEF Contract!Told, Dev
<1>3. events' = Append(events, [dev |-> i, online |-> b])
  <2>1. Len(events) < MaxDevs
    BY <1>1 DEF Dev, BleInv, BleTypeOK
  <2> QED
    BY <2>1 DEF Emit
<1>4. b = ~[j \in Dev |-> link[j] = "online"][i]
  OBVIOUS
<1>5. [j \in Dev |-> link'[j] = "online"]
        = [[j \in Dev |-> link[j] = "online"] EXCEPT ![i] = ~[j \in Dev |-> link[j] = "online"][i]]
  OBVIOUS
<1> QED
  BY <1>2, <1>3, <1>4, <1>5 DEF Contract!Change

(* Every step of the manager is a step of the contract or a stutter. *)
LEMMA ContractStep ==
  ASSUME BleInv, [BleNext]_blevars
  PROVE  [Contract!Next]_<<[i \in Dev |-> link[i] = "online"], events>>
<1> DEFINE Quiet == UNCHANGED <<[i \in Dev |-> link[i] = "online"], events>>
<1> USE DEF mgrvars, passvars, envvars
<1>0. link \in [Dev -> {"off", "connecting", "online"}] /\ link' \in [Dev -> {"off", "connecting", "online"}]
  BY BleTypeStep DEF BleInv, BleTypeOK
<1>1. CASE PollStart
  BY <1>1, Stutter DEF PollStart
<1>2. CASE PollDone
  BY <1>2, Stutter DEF PollDone
<1>3. CASE TakeEvent
  <2>1. link' = link
    BY <1>3 DEF TakeEvent
  <2>2. [i \in Dev |-> link'[i] = "online"] = [i \in Dev |-> link[i] = "online"]
    BY <2>1
  <2>3. Contract!Take
    BY <1>3, <2>2 DEF TakeEvent, Contract!Take
  <2> QED
    BY <2>3 DEF Contract!Next
<1>4. ASSUME NEW t \in 0 .. MaxPass, NextPass(t)
      PROVE  Quiet
  BY <1>4, Stutter DEF NextPass
<1>5. ASSUME NEW i \in Dev, resolve_path(i) \/ start_discovery(i) \/ NothingToDo(i) \/ Connected(i)
      PROVE  Quiet
  BY <1>5, Stutter DEF resolve_path, start_discovery, NothingToDo, Connected
<1>6. ASSUME NEW i \in Dev, Connect(i)
      PROVE  Quiet
  BY <1>0, <1>6, Stutter DEF Connect
<1>7. ASSUME NEW i \in Dev, ConnectFailed(i)
      PROVE  Quiet
  <2>1. link[i] # "online"
    BY <1>7 DEF ConnectFailed, BleInv, Blocked
  <2> QED
    BY <1>0, <1>7, <2>1, Stutter DEF ConnectFailed
<1>8. ASSUME NEW i \in Dev, LinkLost(i)
      PROVE  Contract!Change(i)
  BY <1>0, <1>8, Told DEF LinkLost, At
<1>9. ASSUME NEW i \in Dev, Resolved(i)
      PROVE  Contract!Change(i)
  <2>1. link[i] # "online"
    BY <1>9 DEF Resolved, BleInv, Blocked
  <2> QED
    BY <1>0, <1>9, <2>1, Told DEF Resolved
<1>10. CASE hes_ble_mgr_close
  BY <1>10, Stutter DEF hes_ble_mgr_close
<1>11. ASSUME NEW i \in Dev, Advertised(i) \/ Dropped(i)
       PROVE  Quiet
  BY <1>11, Stutter DEF Advertised, Dropped
<1>12. CASE UNCHANGED blevars
  BY <1>12, Stutter DEF blevars
<1> QED
  BY <1>1, <1>2, <1>3, <1>4, <1>5, <1>6, <1>7, <1>8, <1>9, <1>10, <1>11, <1>12
     DEF BleNext, Pass, Visit, Contract!Next

LEMMA ContractInit ==
  ASSUME NEW b, NEW k, BleStart(b, k)
  PROVE  Contract!Init
BY DEF BleStart, All, Contract!Init

(* The BlueZ backend implements the contract of hes_ble.h: whatever BlueZ, *)
(* the radio and the tags do, each change of a link is told once, in       *)
(* order, and none is dropped for want of room.                            *)
THEOREM Implements == BleSpec => KeepsContract
<1>1. BleInit => Contract!Init
  BY ContractInit DEF BleInit
<1>2. BleInv /\ [BleNext]_blevars => [Contract!Next]_<<[i \in Dev |-> link[i] = "online"], events>>
  BY ContractStep
<1> QED
  BY <1>1, <1>2, BleInvariance, PTL DEF BleSpec, KeepsContract, Contract!Spec

-----------------------------------------------------------------------------
(* How a pass gets on: what is left of it, stage by stage. *)
LEMMA PassStages ==
  BleTypeOK =>
  /\ mpc = "poll" => PassLeft = MaxDevs + 3 * N + 2
  /\ mpc = "visit" => PassLeft = MaxDevs + 1 + 3 * (N + 1 - cur)
  /\ mpc = "connect" => PassLeft = MaxDevs + 1 + 3 * (N + 1 - cur) - 1
  /\ mpc = "resolve" => PassLeft = MaxDevs + 1 + 3 * (N + 1 - cur) - 2
  /\ mpc = "events" => PassLeft = Len(events)
<1> USE ManagerAssumption
<1>1. mpc = "poll" => PassLeft = MaxDevs + 3 * N + 2
  BY DEF PassLeft
<1>2. mpc = "visit" => PassLeft = MaxDevs + 1 + 3 * (N + 1 - cur) - 0
  BY DEF PassLeft
<1>3. mpc = "connect" => PassLeft = MaxDevs + 1 + 3 * (N + 1 - cur) - 1
  BY DEF PassLeft
<1>4. mpc = "resolve" => PassLeft = MaxDevs + 1 + 3 * (N + 1 - cur) - 2
  BY DEF PassLeft
<1>5. mpc = "events" => PassLeft = Len(events)
  BY DEF PassLeft
<1>6. BleTypeOK => MaxDevs + 1 + 3 * (N + 1 - cur) - 0 = MaxDevs + 1 + 3 * (N + 1 - cur)
  BY DEF BleTypeOK
<1> QED
  BY <1>1, <1>2, <1>3, <1>4, <1>5, <1>6

(* Each step of a pass leaves less of it, until its last begins the next. *)
LEMMA PassStep ==
  ASSUME BleInv, BleNext, Pass
  PROVE  PassLeft' < PassLeft \/ (PassLeft = 0 /\ mpc' = "poll")
<1> USE ManagerAssumption
<1>0. BleTypeOK /\ BleTypeOK' /\ Blocked /\ Events /\ cur \in 1 .. N + 1
  BY BleInvStep DEF BleInv, BleTypeOK
<1>1. /\ mpc = "poll" => PassLeft = MaxDevs + 3 * N + 2
      /\ mpc = "visit" => PassLeft = MaxDevs + 1 + 3 * (N + 1 - cur)
      /\ mpc = "connect" => PassLeft = MaxDevs + 1 + 3 * (N + 1 - cur) - 1
      /\ mpc = "resolve" => PassLeft = MaxDevs + 1 + 3 * (N + 1 - cur) - 2
      /\ mpc = "events" => PassLeft = Len(events)
  BY <1>0, PassStages
<1>2. (/\ mpc = "visit" => PassLeft = MaxDevs + 1 + 3 * (N + 1 - cur)
       /\ mpc = "connect" => PassLeft = MaxDevs + 1 + 3 * (N + 1 - cur) - 1
       /\ mpc = "resolve" => PassLeft = MaxDevs + 1 + 3 * (N + 1 - cur) - 2
       /\ mpc = "events" => PassLeft = Len(events))'
  BY <1>0, PassStages, PTL
<1>3. CASE PollStart
  <2>1. mpc = "poll" /\ mpc' = "visit" /\ cur' = 1
    BY <1>3 DEF PollStart
  <2> QED
    BY <1>1, <1>2, <2>1
<1>4. CASE PollDone
  <2>1. mpc = "visit" /\ cur = N + 1 /\ mpc' = "events" /\ events' = events
    BY <1>4 DEF PollDone
  <2>2. Len(events) \in Nat /\ Len(events) < N + 1
    BY <1>0, <2>1, EventType DEF Events, Visiting
  <2> QED
    BY <1>1, <1>2, <2>1, <2>2
<1>5. CASE TakeEvent
  <2>1. mpc = "events" /\ mpc' = "events" /\ events # <<>> /\ events' = Tail(events)
    BY <1>5 DEF TakeEvent
  <2>2. \A T, s : s \in Seq(T) /\ s # <<>> => Len(Tail(s)) < Len(s)
    OBVIOUS
  <2>3. Len(events') < Len(events)
    BY <1>0, <2>1, <2>2 DEF BleTypeOK
  <2> QED
    BY <1>1, <1>2, <2>1, <2>3
<1>6. ASSUME NEW t \in 0 .. MaxPass, NextPass(t)
      PROVE  PassLeft = 0 /\ mpc' = "poll"
  <2>1. mpc = "events" /\ events = <<>> /\ mpc' = "poll"
    BY <1>6 DEF NextPass
  <2> QED
    BY <1>1, <2>1
<1>7. ASSUME NEW i \in Dev, Visit(i)
      PROVE  PassLeft' < PassLeft
  <2>1. CASE resolve_path(i) \/ start_discovery(i) \/ NothingToDo(i) \/ LinkLost(i)
    <3>1. mpc = "visit" /\ mpc' = "visit" /\ cur' = cur + 1
      BY <2>1 DEF resolve_path, start_discovery, NothingToDo, LinkLost, At
    <3> QED
      BY <1>0, <1>1, <1>2, <3>1
  <2>2. CASE Connect(i)
    <3>1. mpc = "visit" /\ mpc' = "connect" /\ cur' = cur
      BY <2>2 DEF Connect, At
    <3> QED
      BY <1>0, <1>1, <1>2, <3>1
  <2>3. CASE Connected(i)
    <3>1. mpc = "connect" /\ mpc' = "resolve" /\ cur' = cur
      BY <2>3 DEF Connected
    <3> QED
      BY <1>0, <1>1, <1>2, <3>1
  <2>4. CASE Resolved(i) \/ ConnectFailed(i)
    <3>1. mpc \in {"visit", "connect", "resolve"} /\ mpc' = "visit" /\ cur' = cur + 1
      BY <2>4 DEF Resolved, ConnectFailed, At
    <3>2. PassLeft' = MaxDevs + 1 + 3 * (N + 1 - (cur + 1))
      BY <1>2, <3>1
    <3>3. PassLeft \in {MaxDevs + 1 + 3 * (N + 1 - cur) - k : k \in 0 .. 2}
      BY <1>0, <1>1, <3>1
    <3> QED
      BY <1>0, <3>2, <3>3
  <2> QED
    BY <1>7, <2>1, <2>2, <2>3, <2>4 DEF Visit
<1> QED
  BY <1>3, <1>4, <1>5, <1>6, <1>7 DEF Pass

(* A pause grows in the turn of its device alone. *)
LEMMA PauseStep ==
  ASSUME BleInv, BleNext, NEW i \in Dev, wait'[i] > wait[i]
  PROVE  Visit(i) /\ (Due(i) \/ link[i] = "online") /\ wait'[i] \in Pauses
<1> USE ManagerAssumption
<1>0. wait \in [Dev -> Pauses] /\ wait[i] \in Nat /\ Blocked
  BY PauseType DEF BleInv, BleTypeOK
<1>1. wait' # wait
  BY <1>0
<1>2. ASSUME NEW t \in 0 .. MaxPass, NextPass(t) PROVE FALSE
  <2>1. wait'[i] = IF wait[i] > t THEN wait[i] - t ELSE 0
    BY <1>2 DEF NextPass
  <2> QED
    BY <1>0, <2>1
<1>3. PICK j \in Dev : Visit(j)
  BY <1>1, <1>2 DEF BleNext, Pass, PollStart, PollDone, TakeEvent, hes_ble_mgr_close,
     Advertised, Dropped, mgrvars
<1>4. \/ resolve_path(j) \/ start_discovery(j) \/ LinkLost(j) \/ Resolved(j) \/ ConnectFailed(j)
  BY <1>1, <1>3 DEF Visit, NothingToDo, Connect, Connected, mgrvars
<1>5. PICK p : wait' = [wait EXCEPT ![j] = p]
  BY <1>4 DEF resolve_path, start_discovery, LinkLost, Resolved, ConnectFailed
<1>6. j = i
  BY <1>0, <1>5
<1>7. CASE Resolved(i)
  BY <1>0, <1>7 DEF Resolved
<1>8. ASSUME resolve_path(i) \/ start_discovery(i) \/ LinkLost(i) \/ ConnectFailed(i)
      PROVE  Due(i) \/ link[i] = "online"
  BY <1>0, <1>8 DEF At, resolve_path, start_discovery, LinkLost, ConnectFailed, Due, Blocked
<1>9. wait'[i] \in Pauses
  BY BleInvStep DEF BleInv, BleTypeOK
<1> QED
  BY <1>3, <1>4, <1>6, <1>7, <1>8, <1>9

LEMMA PassAdvance ==
  BleInv /\ [BleNext]_blevars =>
    [/\ Pass => PassLeft' < PassLeft \/ (PassLeft = 0 /\ mpc' = "poll")
     /\ \A i \in Dev : wait'[i] > wait[i] =>
          Visit(i) /\ (Due(i) \/ link[i] = "online") /\ wait'[i] \in Pauses]_blevars
BY PassStep, PauseStep

(* hes_ble_mgr_poll() comes round to every device, for any number of them  *)
(* and any width of an int, and a device's pause is its own.               *)
THEOREM PassAdvances == BleSpec => PassProgress
BY PassAdvance, BleInvariance, PTL DEF BleSpec, PassProgress
===============================================================================
