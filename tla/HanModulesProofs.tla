---------------------------- MODULE HanModulesProofs ----------------------------
(***************************************************************************)
(* Proofs about HanModules, for every product profile, every set of BLE,   *)
(* WiFi and core processes, every queue capacity.                          *)
(*                                                                         *)
(* The invariant has three layers.  Control: a process that waits has its  *)
(* one live request at the end of its queue, of the kind its place in the  *)
(* code asks for, or a reply, never both; a module that serves has         *)
(* devices.  Presence: the newest notification of a module is what the     *)
(* registry holds, a good answer to a query still is, and a module whose   *)
(* reports have all been handled and echoes all merged agrees with it.     *)
(* Roster: a list of modules claims no more than the registry does.        *)
(***************************************************************************)
EXTENDS HanModules, FiniteSetTheorems, NaturalsInduction, WellFoundedInduction, TLAPS

(* The requests of a module. *)
Views(m) == [Own(m) -> BOOLEAN]
Requests(m) ==
  [cmd : {"query", "modules"}, mt : {Ident[m].mt}, mi : {Ident[m].mi}, devices : {<<>>}, live : BOOLEAN]
  \cup {q \in [cmd : {"report"}, mt : {Ident[m].mt}, mi : {Ident[m].mi}, devices : Views(m), live : BOOLEAN] :
           m \notin Core}

LastOf(s) == s[Len(s)]

Queue(m) ==
  /\ requests[m] \in Seq(Requests(m))
  /\ Len(requests[m]) <= MaxPending
  /\ \A k \in 1 .. Len(requests[m]) : requests[m][k].live => k = Len(requests[m])
  /\ ~Waiting(m) => Len(requests[m]) < MaxPending

(* The command a place in the code waits for. *)
Asked(label) ==
  IF label \in {"query", "requery"} THEN "query" ELSE IF label = "roster" THEN "modules" ELSE "report"

Exchange(m) ==
  /\ reply[m] \in Replies \cup {None}
  /\ pc[m] \in AwaitsReply <=> Waiting(m) \/ reply[m] # None
  /\ Waiting(m) => reply[m] = None /\ LastOf(requests[m]).cmd = Asked(pc[m])

Booted == {"report", "requery"} \cup Run

Place(m) ==
  /\ pc[m] \in Boot \cup Run \cup InCore \cup {"exit"}
  /\ m \in Core <=> pc[m] \in InCore
  /\ pc[m] \in Booted => Own(m) # {} /\ online[m] \in Views(m)
  /\ online[m] \in Views(m) \cup [{} -> BOOLEAN]
  /\ socks[m] \subseteq Own(m)
  /\ todo[m] \in Seq(Own(m))

Echoes == UNION {[DevsOf(i) -> Statuses] : i \in Slots}
Mail(m) ==
  /\ notices[m] \in Seq(Echoes) /\ Len(notices[m]) <= QueueMax
  /\ m \notin Core => \A k \in 1 .. Len(notices[m]) : DOMAIN notices[m][k] = Own(m)

Domains ==
  /\ registry \in [Slots -> Echoes] /\ \A i \in Slots : registry[i] \in [DevsOf(i) -> Statuses]
  /\ link \in [Devices -> BOOLEAN] /\ up \in [Devices -> BOOLEAN]
  /\ DOMAIN requests = Modules /\ DOMAIN reply = Modules /\ DOMAIN notices = Modules
  /\ pc = [m \in Modules |-> pc[m]] /\ DOMAIN online = Modules /\ DOMAIN todo = Modules
  /\ DOMAIN socks = Modules /\ DOMAIN roster = Core

Control == Domains /\ \A m \in Modules : Queue(m) /\ Exchange(m) /\ Place(m) /\ Mail(m)

NoReport(m) == \A k \in 1 .. Len(requests[m]) : requests[m][k].cmd # "report"

Presence(m) ==
  /\ notices[m] # <<>> => Slot(m) # 0 /\ LastOf(notices[m]) = registry[Slot(m)]
  /\ pc[m] \in {"query", "requery"} /\ reply[m] # None /\ ~reply[m].error =>
       requests[m] = <<>> /\ Slot(m) # 0 /\ reply[m].slice = registry[Slot(m)]
  /\ pc[m] \in Run /\ notices[m] = <<>> /\ NoReport(m) =>
       \A d \in Own(m) : online[m][d] <=> registry[Slot(m)][d] = "online"

Claims(list) == list \in [Slots -> BOOLEAN] /\ \A i \in Slots : list[i] => module_present(i)
RosterInv(m) ==
  /\ roster[m] # None => Claims(roster[m])
  /\ reply[m] # None /\ ~reply[m].error => Claims(reply[m].slice)

HanInv ==
  /\ Control
  /\ \A m \in Modules \ Core : Presence(m)
  /\ \A m \in Core : RosterInv(m)

-----------------------------------------------------------------------------
(* Sequences and sets *)

LEMMA Elements ==
  ASSUME NEW S, NEW s \in Seq(S)
  PROVE  Len(s) \in Nat /\ \A k \in 1 .. Len(s) : s[k] \in S
OBVIOUS

LEMMA Appended ==
  ASSUME NEW S, NEW s \in Seq(S), NEW x \in S
  PROVE  /\ Append(s, x) \in Seq(S)
         /\ Len(Append(s, x)) = Len(s) + 1
         /\ Append(s, x)[Len(s) + 1] = x
         /\ \A k \in 1 .. Len(s) : Append(s, x)[k] = s[k]
         /\ Append(s, x) # <<>>
OBVIOUS

LEMMA Tailed ==
  ASSUME NEW S, NEW s \in Seq(S), s # <<>>
  PROVE  /\ Tail(s) \in Seq(S)
         /\ Len(Tail(s)) = Len(s) - 1
         /\ Len(s) \in Nat \ {0}
         /\ Head(s) = s[1] /\ Head(s) \in S
         /\ \A k \in 1 .. Len(s) - 1 : Tail(s)[k] = s[k + 1]
         /\ Tail(s) = <<>> <=> Len(s) = 1
<1>1. Len(s) \in Nat \ {0}
  OBVIOUS
<1>2. Tail(s) \in Seq(S) /\ Len(Tail(s)) = Len(s) - 1
  BY <1>1
<1>3. Head(s) = s[1] /\ Head(s) \in S
  BY <1>1
<1>4. \A k \in 1 .. Len(s) - 1 : Tail(s)[k] = s[k + 1]
  BY <1>1
<1>5. \A t \in Seq(S) : t = <<>> <=> Len(t) = 0
  OBVIOUS
<1> QED
  BY <1>1, <1>2, <1>3, <1>4, <1>5

LEMMA NoElements ==
  ASSUME NEW S, NEW s \in Seq(S)
  PROVE  s = <<>> <=> Len(s) = 0
OBVIOUS

(* A nonempty set of naturals has a least element. *)
LEMMA LeastNat ==
  ASSUME NEW T, T \subseteq Nat, T # {}
  PROVE  \E i \in T : \A j \in T : i <= j
<1>1. PICK i \in T : \A j \in T : ~(<<j, i>> \in OpToRel(<, Nat))
  BY WFMin, NatLessThanWellFounded, Zenon
<1>2. \A j \in T : j < i => <<j, i>> \in OpToRel(<, Nat)
  BY DEF OpToRel
<1>3. \A j \in T : ~(j < i)
  BY <1>1, <1>2, Zenon
<1> QED
  BY <1>3

(* The devices of a finite set can be put in order. *)
Sorted(s, n) == \A i, j \in 1 .. n : i < j => s[i] < s[j]
Ordering(S) == {s \in [1 .. Cardinality(S) -> S] : Sorted(s, Cardinality(S))}

LEMMA InOrderExists ==
  \A S : IsFiniteSet(S) /\ S \subseteq Nat => Ordering(S) # {}
<1> DEFINE Bad == {n \in Nat : \E S : /\ IsFiniteSet(S) /\ S \subseteq Nat
                                       /\ Cardinality(S) = n /\ Ordering(S) = {}}
<1>1. SUFFICES ASSUME Bad # {} PROVE FALSE
  BY FS_CardinalityType
<1>2. PICK n \in Bad : \A k \in Bad : n <= k
  BY <1>1, LeastNat
<1>3. PICK S : IsFiniteSet(S) /\ S \subseteq Nat /\ Cardinality(S) = n /\ Ordering(S) = {}
  BY <1>2
<1>4. S # {}
  <2> SUFFICES ASSUME S = {} PROVE FALSE
    OBVIOUS
  <2>1. n = 0
    BY <1>3, FS_EmptySet
  <2>2. [i \in 1 .. 0 |-> 0] \in Ordering(S)
    BY <1>3, <2>1 DEF Ordering, Sorted
  <2> QED
    BY <1>3, <2>2
<1>5. PICK x \in S : \A y \in S : x <= y
  BY <1>3, <1>4, LeastNat
<1>6. IsFiniteSet(S \ {x}) /\ Cardinality(S \ {x}) = n - 1 /\ n - 1 \in Nat
  <2>1. IsFiniteSet(S \ {x}) /\ Cardinality(S \ {x}) = n - 1
    BY <1>3, <1>5, FS_RemoveElement
  <2>2. Cardinality(S \ {x}) \in Nat
    BY <2>1, FS_CardinalityType
  <2> QED
    BY <2>1, <2>2
<1>7. n - 1 \notin Bad
  BY <1>2, <1>6
<1>8. PICK s : s \in Ordering(S \ {x})
  BY <1>3, <1>6, <1>7
<1> DEFINE t == [i \in 1 .. n |-> IF i = 1 THEN x ELSE s[i - 1]]
<1>9. s \in [1 .. n - 1 -> S \ {x}] /\ Sorted(s, n - 1)
  BY <1>6, <1>8 DEF Ordering
<1>10. n \in Nat
  BY <1>2
<1>11. \A i \in 1 .. n : i # 1 => i - 1 \in 1 .. n - 1 /\ s[i - 1] \in S /\ x < s[i - 1]
  <2> SUFFICES ASSUME NEW i \in 1 .. n, i # 1
               PROVE  i - 1 \in 1 .. n - 1 /\ s[i - 1] \in S /\ x < s[i - 1]
    OBVIOUS
  <2>1. i - 1 \in 1 .. n - 1
    BY <1>10
  <2>2. s[i - 1] \in S /\ s[i - 1] # x
    BY <1>9, <2>1
  <2>3. x <= s[i - 1] /\ x \in Nat /\ s[i - 1] \in Nat
    BY <1>3, <1>5, <2>2
  <2> QED
    BY <2>1, <2>2, <2>3
<1>12. t \in [1 .. n -> S]
  BY <1>5, <1>11
<1>13. Sorted(t, n)
  <2> SUFFICES ASSUME NEW i \in 1 .. n, NEW j \in 1 .. n, i < j
               PROVE  t[i] < t[j]
    BY DEF Sorted
  <2>1. j # 1 /\ t[j] = s[j - 1]
    BY <1>10
  <2>2. CASE i = 1
    BY <1>11, <2>1, <2>2
  <2>3. CASE i # 1
    BY <1>9, <1>10, <1>11, <2>1, <2>3 DEF Sorted
  <2> QED
    BY <2>2, <2>3
<1> QED
  BY <1>3, <1>12, <1>13 DEF Ordering

LEMMA InOrderType ==
  ASSUME NEW S, IsFiniteSet(S), S \subseteq Nat
  PROVE  InOrder(S) \in Seq(S)
<1>1. PICK s : s \in Ordering(S)
  BY InOrderExists
<1>2. InOrder(S) \in [1 .. Cardinality(S) -> S]
  BY <1>1 DEF InOrder, Ordering, Sorted
<1>3. Cardinality(S) \in Nat
  BY FS_CardinalityType
<1> QED
  BY <1>2, <1>3

-----------------------------------------------------------------------------
(* Whose slice is whose *)

LEMMA ProfileFacts ==
  /\ Slots \subseteq Nat \ {0}
  /\ \A i \in Slots : DevsOf(i) \subseteq Nat /\ IsFiniteSet(DevsOf(i))
<1>1. Len(Profile) \in Nat /\ \A i \in 1 .. Len(Profile) : Profile[i] \in [mt : STRING, mi : Nat, devs : SUBSET Nat]
  BY ProfileAssumption, Elements
<1>2. \A i \in Slots : Profile[i].devs \in SUBSET Nat
  BY <1>1 DEF Slots
<1> QED
  BY <1>1, <1>2, ProfileAssumption DEF Slots, DevsOf

LEMMA SlotFacts ==
  ASSUME NEW m \in Modules, Slot(m) # 0
  PROVE  /\ Slot(m) \in Slots
         /\ Profile[Slot(m)].mi = Ident[m].mi
         /\ Ident[m].mt # "" => Profile[Slot(m)].mt = Ident[m].mt
<1> DEFINE Hit == {i \in Slots : Profile[i].mi = Ident[m].mi /\ (Ident[m].mt # "" => Profile[i].mt = Ident[m].mt)}
<1>1. Hit # {}
  BY DEF Slot, find_module
<1>2. Hit \subseteq Nat
  BY ProfileFacts
<1>3. \E i \in Hit : \A j \in Hit : i <= j
  BY <1>1, <1>2, LeastNat
<1>4. Slot(m) = CHOOSE i \in Hit : \A j \in Hit : i <= j
  BY <1>1 DEF Slot, find_module
<1>5. Slot(m) \in Hit
  BY <1>3, <1>4
<1> QED
  BY <1>5

LEMMA SlotUnique ==
  ASSUME NEW m \in Modules \ Core, NEW n \in Modules \ Core, Ident[m].mi = Ident[n].mi
  PROVE  m = n
<1>1. Ident[m].mt = Ident[n].mt
  BY KindAssumption
<1>2. Ident[m] \in [mt : STRING, mi : Nat] /\ Ident[n] \in [mt : STRING, mi : Nat]
  BY ProfileAssumption
<1>3. Ident[m] = Ident[n]
  BY <1>1, <1>2
<1> QED
  BY <1>3, ProfileAssumption

LEMMA OwnFacts ==
  ASSUME NEW m \in Modules
  PROVE  /\ IsFiniteSet(Own(m)) /\ Own(m) \subseteq Nat /\ Own(m) \subseteq Devices
         /\ Own(m) # {} => Slot(m) # 0
         /\ Slot(m) # 0 => Own(m) = DevsOf(Slot(m)) /\ Slot(m) \in Slots
<1>1. CASE Slot(m) = 0
  BY <1>1, FS_EmptySet DEF Own
<1>2. CASE Slot(m) # 0
  <2>1. Slot(m) \in Slots /\ Own(m) = DevsOf(Slot(m))
    BY <1>2, SlotFacts DEF Own
  <2> QED
    BY <1>2, <2>1, ProfileFacts DEF Devices
<1> QED
  BY <1>1, <1>2

-----------------------------------------------------------------------------
(* The request queue *)

LEMMA RequestFacts ==
  ASSUME NEW m \in Modules, NEW q \in Requests(m)
  PROVE  /\ q.mt = Ident[m].mt /\ q.mi = Ident[m].mi /\ q.live \in BOOLEAN
         /\ q.cmd \in {"query", "report", "modules"}
         /\ q.cmd = "report" => q.devices \in Views(m) /\ m \notin Core
         /\ [q EXCEPT !.live = FALSE] \in Requests(m)
         /\ [q EXCEPT !.live = FALSE].live = FALSE
         /\ [q EXCEPT !.live = FALSE].cmd = q.cmd
<1>1. CASE q \in [cmd : {"query", "modules"}, mt : {Ident[m].mt}, mi : {Ident[m].mi}, devices : {<<>>}, live : BOOLEAN]
  BY <1>1 DEF Requests
<1>2. CASE q \in [cmd : {"report"}, mt : {Ident[m].mt}, mi : {Ident[m].mi}, devices : Views(m), live : BOOLEAN] /\ m \notin Core
  BY <1>2 DEF Requests
<1> QED
  BY <1>1, <1>2 DEF Requests

LEMMA WaitingLast ==
  ASSUME NEW m \in Modules, Queue(m)
  PROVE  /\ Len(requests[m]) \in Nat
         /\ Waiting(m) <=> Len(requests[m]) > 0 /\ LastOf(requests[m]).live
<1>1. Len(requests[m]) \in Nat
  BY Elements DEF Queue
<1> QED
  BY <1>1 DEF Queue, Waiting, LastOf

LEMMA QueueSend ==
  ASSUME NEW m \in Modules, Queue(m), ~Waiting(m), NEW cmd, NEW dev,
         Request(m, cmd, dev) \in Requests(m),
         requests'[m] = Append(requests[m], Request(m, cmd, dev))
  PROVE  /\ Queue(m)' /\ Waiting(m)'
         /\ LastOf(requests[m])'.cmd = cmd
         /\ requests'[m] # <<>>
         /\ cmd = "report" => ~NoReport(m)'
<1> DEFINE q == Request(m, cmd, dev)
           n == Len(requests[m])
<1>1. q.live = TRUE /\ q.cmd = cmd
  BY DEF Request
<1>2. /\ n \in Nat /\ requests'[m] \in Seq(Requests(m)) /\ Len(requests'[m]) = n + 1
      /\ requests'[m][n + 1] = q /\ \A k \in 1 .. n : requests'[m][k] = requests[m][k]
      /\ requests'[m] # <<>>
  BY Appended, WaitingLast DEF Queue
<1>3. \A k \in 1 .. n : ~requests[m][k].live
  BY DEF Waiting
<1> HIDE DEF q, n
<1>4. Waiting(m)'
  BY <1>1, <1>2 DEF Waiting
<1>5. n < MaxPending
  BY DEF Queue, n
<1>6. Queue(m)'
  BY <1>1, <1>2, <1>3, <1>4, <1>5, ProfileAssumption DEF Queue
<1> QED
  BY <1>1, <1>2, <1>4, <1>6 DEF LastOf, NoReport

LEMMA QueuePop ==
  ASSUME NEW m \in Modules, Queue(m), requests[m] # <<>>, requests'[m] = Tail(requests[m])
  PROVE  /\ Queue(m)' /\ Head(requests[m]) \in Requests(m)
         /\ Head(requests[m]).live =>
              Waiting(m) /\ requests'[m] = <<>> /\ ~Waiting(m)' /\ Head(requests[m]) = LastOf(requests[m])
         /\ ~Head(requests[m]).live => (Waiting(m)' <=> Waiting(m))
         /\ Waiting(m)' => LastOf(requests[m])' = LastOf(requests[m])
         /\ NoReport(m) => NoReport(m)' /\ Head(requests[m]).cmd # "report"
         /\ Head(requests[m]).cmd # "report" /\ NoReport(m)' => NoReport(m)
<1> DEFINE n == Len(requests[m])
<1>1. /\ n \in Nat \ {0} /\ requests'[m] \in Seq(Requests(m)) /\ Len(requests'[m]) = n - 1
      /\ Head(requests[m]) = requests[m][1] /\ Head(requests[m]) \in Requests(m)
      /\ \A k \in 1 .. n - 1 : requests'[m][k] = requests[m][k + 1]
      /\ requests'[m] = <<>> <=> n = 1
  BY Tailed DEF Queue
<1>2. /\ n <= MaxPending
      /\ \A k \in 1 .. n : requests[m][k].live => k = n
  BY DEF Queue
<1>3. requests[m][1].live => n = 1
  BY <1>1, <1>2
<1>4. Waiting(m) <=> requests[m][n].live
  BY <1>1, <1>2 DEF Waiting
<1> HIDE DEF n
<1>5. Waiting(m)' <=> n > 1 /\ requests[m][n].live
  <2>1. ASSUME NEW k \in 1 .. n - 1, requests'[m][k].live
        PROVE  n > 1 /\ requests[m][n].live
    <3>1. k + 1 \in 1 .. n /\ requests[m][k + 1].live
      BY <1>1, <2>1
    <3>2. k + 1 = n
      BY <1>2, <3>1
    <3> QED
      BY <1>1, <3>1, <3>2
  <2>2. ASSUME n > 1, requests[m][n].live
        PROVE  n - 1 \in 1 .. n - 1 /\ requests'[m][n - 1].live
    BY <1>1, <2>2
  <2> QED
    BY <1>1, <2>1, <2>2 DEF Waiting
<1>6. Queue(m)'
  <2>1. \A k \in 1 .. n - 1 : requests'[m][k].live => k = n - 1
    <3> SUFFICES ASSUME NEW k \in 1 .. n - 1, requests'[m][k].live
                 PROVE  k = n - 1
      OBVIOUS
    <3>1. k + 1 \in 1 .. n /\ requests[m][k + 1].live
      BY <1>1
    <3> QED
      BY <1>1, <1>2, <3>1
  <2>2. n - 1 < MaxPending
    BY <1>1, <1>2, ProfileAssumption
  <2> QED
    BY <1>1, <2>1, <2>2, ProfileAssumption DEF Queue
<1>7. Waiting(m)' => LastOf(requests[m])' = LastOf(requests[m])
  BY <1>1, <1>5 DEF LastOf, n
<1>8. /\ NoReport(m) => NoReport(m)' /\ Head(requests[m]).cmd # "report"
      /\ Head(requests[m]).cmd # "report" /\ NoReport(m)' => NoReport(m)
  <2>1. NoReport(m) <=> \A k \in 1 .. n : requests[m][k].cmd # "report"
    BY DEF NoReport, n
  <2>2. NoReport(m)' <=> \A k \in 1 .. n - 1 : requests'[m][k].cmd # "report"
    BY <1>1 DEF NoReport
  <2>3. \A k \in 1 .. n - 1 : k + 1 \in 1 .. n
    BY <1>1
  <2>4. \A k \in 1 .. n : k = 1 \/ (k - 1 \in 1 .. n - 1 /\ requests'[m][k - 1] = requests[m][k])
    BY <1>1
  <2> QED
    BY <1>1, <2>1, <2>2, <2>3, <2>4
<1> QED
  BY <1>1, <1>3, <1>4, <1>5, <1>6, <1>7, <1>8 DEF LastOf, n

LEMMA QueueTimeout ==
  ASSUME NEW m \in Modules, Queue(m), Len(requests[m]) < MaxPending,
         requests'[m] = [k \in 1 .. Len(requests[m]) |-> [requests[m][k] EXCEPT !.live = FALSE]]
  PROVE  Queue(m)' /\ ~Waiting(m)' /\ (NoReport(m)' <=> NoReport(m))
<1> DEFINE n == Len(requests[m])
<1>1. n \in Nat /\ \A k \in 1 .. n : requests[m][k] \in Requests(m)
  BY Elements DEF Queue
<1>2. \A k \in 1 .. n : /\ requests'[m][k] \in Requests(m) /\ ~requests'[m][k].live
                        /\ requests'[m][k].cmd = requests[m][k].cmd
  BY <1>1, RequestFacts
<1>3. requests'[m] \in Seq(Requests(m)) /\ Len(requests'[m]) = n
  <2>1. \A S : \A f \in [1 .. n -> S] : f \in Seq(S) /\ Len(f) = n
    BY <1>1
  <2>2. requests'[m] \in [1 .. n -> Requests(m)]
    BY <1>2
  <2> QED
    BY <2>1, <2>2
<1> HIDE DEF n
<1> QED
  BY <1>1, <1>2, <1>3 DEF Queue, Waiting, NoReport, n

-----------------------------------------------------------------------------
(* What a step leaves alone *)

Same(n) ==
  /\ pc'[n] = pc[n] /\ requests'[n] = requests[n] /\ reply'[n] = reply[n]
  /\ notices'[n] = notices[n] /\ online'[n] = online[n]
  /\ todo'[n] = todo[n] /\ socks'[n] = socks[n]
  /\ n \in Core => roster'[n] = roster[n]

Local(m) ==
  /\ Queue(m) /\ Exchange(m) /\ Place(m) /\ Mail(m)
  /\ m \notin Core => Presence(m)
  /\ m \in Core => RosterInv(m)

LEMMA HanInvParts == HanInv <=> Domains /\ \A m \in Modules : Local(m)
BY KindAssumption DEF HanInv, Control, Local

LEMMA HanInvParts2 ==
  ASSUME Domains', \A m \in Modules : Local(m)'
  PROVE  HanInv'
BY KindAssumption DEF HanInv, Control, Local

LEMMA SameLocal ==
  ASSUME NEW n \in Modules, Local(n), Same(n),
         n \notin Core /\ Slot(n) # 0 => registry'[Slot(n)] = registry[Slot(n)],
         \A i \in Slots : module_present(i) => module_present(i)'
  PROVE  Local(n)'
<1>1. Queue(n)' /\ (Waiting(n)' <=> Waiting(n)) /\ (NoReport(n)' <=> NoReport(n))
  BY DEF Local, Same, Queue, Waiting, NoReport
<1>2. Exchange(n)'
  BY <1>1 DEF Local, Same, Exchange
<1>3. Place(n)' /\ Mail(n)'
  BY DEF Local, Same, Place, Mail
<1>4. n \notin Core => Presence(n)'
  BY <1>1, OwnFacts DEF Local, Same, Presence
<1>5. n \in Core => RosterInv(n)'
  BY DEF Local, Same, RosterInv, Claims
<1> QED
  BY <1>1, <1>2, <1>3, <1>4, <1>5 DEF Local

(* A step of a module concerns no other module and not the registry. *)
LEMMA ModuleFrame ==
  ASSUME Domains, NEW m \in Modules, ModuleStep(m)
  PROVE  Domains' /\ registry' = registry /\ \A n \in Modules \ {m} : Same(n)
<1> USE DEF Domains, Same, dmvars, Goto, Send, Consume
<1>1. CASE Start(m)
  BY <1>1 DEF Start
<1>2. CASE OpenFails(m)
  BY <1>2 DEF OpenFails
<1>3. CASE Refused(m)
  BY <1>3 DEF Refused
<1>4. CASE Register(m)
  BY <1>4 DEF Register
<1>5. CASE Requery(m)
  BY <1>5 DEF Requery
<1>6. CASE Serve(m)
  BY <1>6 DEF Serve
<1>7. CASE Merge(m)
  BY <1>7 DEF Merge
<1>8. CASE NoNotice(m)
  BY <1>8 DEF NoNotice
<1>9. CASE BlePoll(m)
  <2>1. up' \in [Devices -> BOOLEAN]
    BY <1>9 DEF BlePoll
  <2> QED
    BY <1>9, <2>1 DEF BlePoll
<1>10. CASE WifiPoll(m)
  BY <1>10 DEF WifiPoll
<1>11. CASE WifiNotDue(m)
  BY <1>11 DEF WifiNotDue
<1>12. CASE Transition(m)
  BY <1>12 DEF Transition
<1>13. CASE NoTransition(m)
  BY <1>13 DEF NoTransition
<1>14. CASE ReportDone(m)
  BY <1>14 DEF ReportDone
<1>15. CASE PassDone(m)
  BY <1>15 DEF PassDone
<1>16. CASE CoreRefresh(m)
  BY <1>16 DEF CoreRefresh
<1>17. CASE CoreRefreshed(m)
  BY <1>17 DEF CoreRefreshed
<1> QED
  BY <1>1, <1>2, <1>3, <1>4, <1>5, <1>6, <1>7, <1>8, <1>9, <1>10, <1>11, <1>12, <1>13, <1>14, <1>15, <1>16, <1>17 DEF ModuleStep

-----------------------------------------------------------------------------
(* What a step does to its own module *)

(* Nothing is asked and nothing awaited: only the place changes. *)
LEMMA Moves ==
  ASSUME HanInv, NEW m \in Modules,
         pc[m] \notin AwaitsReply, pc'[m] \notin AwaitsReply,
         requests'[m] = requests[m], reply'[m] = reply[m], notices'[m] = notices[m],
         online'[m] = online[m], registry' = registry, m \in Core => roster'[m] = roster[m],
         pc'[m] \in Run => pc[m] \in Run, Place(m)'
  PROVE  Local(m)'
<1>1. Local(m)
  BY HanInvParts
<1>2. Queue(m)' /\ (Waiting(m)' <=> Waiting(m)) /\ (NoReport(m)' <=> NoReport(m))
  BY <1>1 DEF Local, Queue, Waiting, NoReport
<1>3. Exchange(m)' /\ Mail(m)'
  BY <1>1, <1>2 DEF Local, Exchange, Mail
<1>4. m \notin Core => Presence(m)'
  BY <1>1, <1>2 DEF Local, Presence, AwaitsReply
<1>5. m \in Core => RosterInv(m)'
  BY <1>1 DEF Local, RosterInv, Claims, module_present
<1> QED
  BY <1>2, <1>3, <1>4, <1>5 DEF Local

(* A request goes out and its answer is awaited. *)
LEMMA Asks ==
  ASSUME HanInv, NEW m \in Modules, ~Waiting(m), NEW cmd, NEW dev,
         Request(m, cmd, dev) \in Requests(m),
         requests'[m] = Append(requests[m], Request(m, cmd, dev)),
         reply'[m] = None, notices'[m] = notices[m], registry' = registry,
         m \in Core => roster'[m] = roster[m],
         pc'[m] \in AwaitsReply, cmd = Asked(pc'[m]), pc'[m] \in Run => cmd = "report", Place(m)'
  PROVE  Local(m)'
<1>1. Local(m)
  BY HanInvParts
<1>2. /\ Queue(m)' /\ Waiting(m)' /\ LastOf(requests[m])'.cmd = cmd
      /\ cmd = "report" => ~NoReport(m)'
  BY <1>1, QueueSend DEF Local
<1>3. Exchange(m)'
  BY <1>2 DEF Exchange
<1>4. Mail(m)'
  BY <1>1 DEF Local, Mail
<1>5. m \notin Core => Presence(m)'
  BY <1>1, <1>2 DEF Local, Presence
<1>6. m \in Core => RosterInv(m)'
  BY <1>1 DEF Local, RosterInv, Claims, module_present
<1> QED
  BY <1>2, <1>3, <1>4, <1>5, <1>6 DEF Local

(* A reply is taken and nothing else asked. *)
LEMMA Takes ==
  ASSUME HanInv, NEW m \in Modules, reply[m] # None,
         requests'[m] = requests[m], reply'[m] = None, notices'[m] = notices[m], registry' = registry,
         (m \in Core /\ roster'[m] # None) => Claims(roster[m])',
         pc'[m] \notin AwaitsReply, Place(m)',
         m \notin Core /\ pc'[m] \in Run /\ notices[m] = <<>> /\ NoReport(m) =>
           \A d \in Own(m) : online'[m][d] <=> registry[Slot(m)][d] = "online"
  PROVE  Local(m)'
<1>1. Local(m)
  BY HanInvParts
<1>2. Queue(m)' /\ (Waiting(m)' <=> Waiting(m)) /\ (NoReport(m)' <=> NoReport(m))
  BY <1>1 DEF Local, Queue, Waiting, NoReport
<1>3. Exchange(m)' /\ Mail(m)'
  BY <1>1, <1>2 DEF Local, Exchange, Mail
<1>4. m \notin Core => Presence(m)'
  BY <1>1, <1>2 DEF Local, Presence, AwaitsReply
<1>5. m \in Core => RosterInv(m)'
  BY DEF RosterInv
<1> QED
  BY <1>2, <1>3, <1>4, <1>5 DEF Local

LEMMA RequestTypes ==
  ASSUME NEW m \in Modules
  PROVE  /\ Request(m, "query", <<>>) \in Requests(m)
         /\ Request(m, "modules", <<>>) \in Requests(m)
         /\ m \notin Core => \A v \in Views(m) : Request(m, "report", v) \in Requests(m)
BY DEF Request, Requests

(* The status a slice gives a device. *)
LEMMA ParseFacts ==
  ASSUME NEW slice
  PROVE  /\ hes_devreg_parse(slice) \in [DOMAIN slice -> BOOLEAN]
         /\ \A d \in DOMAIN slice : hes_devreg_parse(slice)[d] <=> slice[d] = "online"
BY DEF hes_devreg_parse

(* A good answer to a query is the module's own part of the registry. *)
LEMMA GoodAnswer ==
  ASSUME HanInv, NEW m \in Modules, pc[m] \in {"query", "requery"}, reply[m] # None, ~reply[m].error
  PROVE  /\ m \notin Core /\ Slot(m) # 0 /\ Slot(m) \in Slots
         /\ reply[m].slice = registry[Slot(m)]
         /\ registry[Slot(m)] \in [Own(m) -> Statuses]
         /\ DOMAIN reply[m].slice = Own(m)
<1>1. m \notin Core /\ Presence(m)
  BY HanInvParts DEF Local, Place, InCore
<1>2. Slot(m) # 0 /\ reply[m].slice = registry[Slot(m)]
  BY <1>1 DEF Presence
<1>3. Slot(m) \in Slots /\ Own(m) = DevsOf(Slot(m))
  BY <1>2, OwnFacts
<1>4. registry[Slot(m)] \in [Own(m) -> Statuses]
  BY <1>3, HanInvParts DEF Domains
<1> QED
  BY <1>1, <1>2, <1>3, <1>4

LEMMA BootSelf ==
  ASSUME HanInv, NEW m \in Modules,
         Start(m) \/ OpenFails(m) \/ Refused(m) \/ Register(m) \/ Requery(m) \/ Serve(m)
  PROVE  Local(m)'
<1> USE DEF Goto, Send, Consume, Answered, Boot, Run, InCore, AwaitsReply, Booted, dmvars
<1>0. /\ Domains /\ Exchange(m) /\ Place(m)
      /\ reply[m] # None => ~Waiting(m)
      /\ pc[m] \notin AwaitsReply => ~Waiting(m) /\ reply[m] = None
  BY HanInvParts DEF Local, Exchange
<1>1. CASE Start(m)
  <2>1. pc'[m] = "query" /\ requests'[m] = Append(requests[m], Request(m, "query", <<>>))
    BY <1>0, <1>1 DEF Start, Domains
  <2>2. Place(m)'
    BY <1>0, <1>1, <2>1 DEF Start, Place
  <2> QED
    BY <1>0, <1>1, <2>1, <2>2, Asks, RequestTypes DEF Start, Asked, Place
<1>2. CASE OpenFails(m)
  <2>1. pc'[m] = "exit"
    BY <1>0, <1>2 DEF OpenFails, Domains
  <2>2. Place(m)'
    BY <1>0, <1>2, <2>1 DEF OpenFails, Place
  <2> QED
    BY <1>0, <1>2, <2>1, <2>2, Moves DEF OpenFails, Place
<1>3. CASE Refused(m)
  <2>1. pc'[m] = "exit" /\ reply'[m] = None /\ reply[m] # None
    BY <1>0, <1>3 DEF Refused, Domains
  <2>2. Place(m)'
    BY <1>0, <1>3, <2>1 DEF Refused, Place
  <2> QED
    BY <1>0, <1>3, <2>1, <2>2, Takes DEF Refused, Place
<1>4. CASE Register(m)
  <2> DEFINE claim == Claimed(m, reply[m].slice)
  <2>1. DOMAIN reply[m].slice = Own(m) /\ Own(m) # {} /\ m \notin Core
    BY <1>4, GoodAnswer DEF Register
  <2>2. claim \in Views(m)
    BY <2>1, ParseFacts DEF Claimed, Views
  <2>3. /\ pc'[m] = "report" /\ reply'[m] = None /\ reply[m] # None /\ online'[m] = claim
        /\ requests'[m] = Append(requests[m], Request(m, "report", claim))
    BY <1>0, <1>4 DEF Register, Domains
  <2> HIDE DEF claim
  <2>4. Place(m)'
    BY <1>0, <1>4, <2>1, <2>2, <2>3 DEF Register, Place
  <2> QED
    BY <1>0, <1>4, <2>1, <2>2, <2>3, <2>4, Asks, RequestTypes DEF Register, Asked
<1>5. CASE Requery(m)
  <2>1. /\ pc'[m] = "requery" /\ reply'[m] = None /\ reply[m] # None
        /\ requests'[m] = Append(requests[m], Request(m, "query", <<>>))
    BY <1>0, <1>5 DEF Requery, Domains
  <2>2. Place(m)' /\ m \notin Core
    BY <1>0, <1>5, <2>1 DEF Requery, Place
  <2> QED
    BY <1>0, <1>5, <2>1, <2>2, Asks, RequestTypes DEF Requery, Asked
<1>6. CASE Serve(m)
  <2> DEFINE view == hes_devreg_parse(reply[m].slice)
  <2>1. /\ DOMAIN reply[m].slice = Own(m) /\ Own(m) # {} /\ m \notin Core
        /\ reply[m].slice = registry[Slot(m)]
    BY <1>0, <1>6, GoodAnswer DEF Serve, Place
  <2>2. /\ view \in Views(m)
        /\ \A d \in Own(m) : view[d] <=> registry[Slot(m)][d] = "online"
    BY <2>1, ParseFacts DEF Views
  <2>3. /\ pc'[m] \in {"loop", "exit"} /\ reply'[m] = None /\ reply[m] # None
        /\ online'[m] = view /\ socks'[m] \subseteq Own(m)
    <3>1. DOMAIN view = Own(m)
      BY <2>2 DEF Views
    <3> HIDE DEF view
    <3> QED
      BY <1>0, <1>6, <3>1 DEF Serve, Domains, view
  <2> HIDE DEF view
  <2>4. Place(m)'
    BY <1>0, <1>6, <2>1, <2>2, <2>3 DEF Serve, Place
  <2> QED
    BY <1>0, <1>6, <2>1, <2>2, <2>3, <2>4, Takes DEF Serve
<1> QED
  BY <1>1, <1>2, <1>3, <1>4, <1>5, <1>6

LEMMA LoopSelf ==
  ASSUME HanInv, NEW m \in Modules,
         \/ Merge(m) \/ NoNotice(m) \/ BlePoll(m) \/ WifiPoll(m) \/ WifiNotDue(m)
         \/ Transition(m) \/ NoTransition(m) \/ ReportDone(m) \/ PassDone(m)
  PROVE  Local(m)'
<1> USE DEF Goto, Send, Consume, Answered, Boot, Run, InCore, AwaitsReply, Booted, dmvars
<1>0. /\ Domains /\ Exchange(m) /\ Place(m)
      /\ reply[m] # None => ~Waiting(m)
      /\ pc[m] \notin AwaitsReply => ~Waiting(m) /\ reply[m] = None
  BY HanInvParts DEF Local, Exchange
<1>1. pc[m] \in Run /\ m \notin Core /\ Own(m) # {} /\ online[m] \in Views(m)
  BY <1>0 DEF Merge, NoNotice, BlePoll, WifiPoll, WifiNotDue, Transition, NoTransition,
     ReportDone, PassDone, Place
<1>2. CASE NoNotice(m) \/ WifiNotDue(m) \/ PassDone(m)
  <2>1. pc[m] \notin AwaitsReply /\ pc'[m] \in {"poll", "loop"}
    BY <1>0, <1>2 DEF NoNotice, WifiNotDue, PassDone, Domains
  <2>2. /\ requests'[m] = requests[m] /\ reply'[m] = reply[m] /\ notices'[m] = notices[m]
        /\ online'[m] = online[m] /\ registry' = registry /\ socks'[m] = socks[m] /\ todo'[m] = todo[m]
    BY <1>2 DEF NoNotice, WifiNotDue, PassDone
  <2>3. Place(m)'
    BY <1>0, <1>1, <2>1, <2>2 DEF Place
  <2> QED
    BY <1>0, <1>1, <2>1, <2>2, <2>3, Moves
<1>3. CASE BlePoll(m) \/ WifiPoll(m) \/ NoTransition(m)
  <2>1. todo'[m] \in Seq(Own(m))
    <3>1. CASE BlePoll(m)
      <4>1. PICK S \in SUBSET Own(m) : todo'[m] = InOrder(S)
        BY <1>0, <3>1 DEF BlePoll, Domains
      <4>2. IsFiniteSet(S) /\ S \subseteq Nat
        BY OwnFacts, FS_Subset
      <4>3. InOrder(S) \in Seq(S)
        BY <4>2, InOrderType
      <4> QED
        BY <4>1, <4>3
    <3>2. CASE WifiPoll(m)
      <4>1. todo'[m] = InOrder(socks[m]) /\ socks[m] \in SUBSET Own(m)
        BY <1>0, <3>2 DEF WifiPoll, Domains, Place
      <4>2. IsFiniteSet(socks[m]) /\ socks[m] \subseteq Nat
        BY <4>1, OwnFacts, FS_Subset
      <4>3. InOrder(socks[m]) \in Seq(socks[m])
        BY <4>2, InOrderType
      <4> QED
        BY <4>1, <4>3
    <3>3. CASE NoTransition(m)
      BY <1>0, <3>3, Tailed DEF NoTransition, Domains, Place
    <3> QED
      BY <1>3, <3>1, <3>2, <3>3
  <2>2. pc[m] \in {"poll", "pass"} /\ pc'[m] = "pass"
    BY <1>0, <1>3 DEF BlePoll, WifiPoll, NoTransition, Domains
  <2>3. /\ requests'[m] = requests[m] /\ reply'[m] = reply[m] /\ notices'[m] = notices[m]
        /\ online'[m] = online[m] /\ registry' = registry /\ socks'[m] = socks[m]
    BY <1>3 DEF BlePoll, WifiPoll, NoTransition
  <2>4. Place(m)'
    BY <1>0, <1>1, <2>1, <2>2, <2>3 DEF Place
  <2> QED
    BY <1>0, <1>1, <2>2, <2>3, <2>4, Moves
<1>4. CASE Merge(m)
  <2> DEFINE slice == Head(notices[m])
             merged == merge_slice(m, slice)
  <2>1. /\ notices[m] \in Seq(Echoes) /\ notices[m] # <<>> /\ Len(notices[m]) <= QueueMax
        /\ \A k \in 1 .. Len(notices[m]) : DOMAIN notices[m][k] = Own(m)
        /\ LastOf(notices[m]) = registry[Slot(m)]
    BY <1>1, <1>4, HanInvParts DEF Merge, Local, Mail, Presence
  <2>2. /\ Tail(notices[m]) \in Seq(Echoes)
        /\ Len(Tail(notices[m])) = Len(notices[m]) - 1 /\ Len(notices[m]) \in Nat \ {0}
        /\ slice = notices[m][1]
        /\ \A k \in 1 .. Len(notices[m]) - 1 : Tail(notices[m])[k] = notices[m][k + 1]
        /\ Tail(notices[m]) = <<>> <=> Len(notices[m]) = 1
    BY <2>1, Tailed
  <2>3. DOMAIN slice = Own(m)
    BY <2>1, <2>2
  <2>4. /\ merged \in Views(m)
        /\ \A d \in Own(m) : merged[d] <=> slice[d] = "online"
    <3>1. DOMAIN online[m] = Own(m)
      BY <1>1 DEF Views
    <3> HIDE DEF slice
    <3> QED
      BY <2>3, <3>1, ParseFacts DEF merge_slice, Views
  <2>5. /\ pc'[m] = "poll" /\ pc[m] = "loop" /\ online'[m] = merged /\ notices'[m] = Tail(notices[m])
        /\ requests'[m] = requests[m] /\ reply'[m] = reply[m] /\ registry' = registry
        /\ socks'[m] = socks[m] /\ todo'[m] = todo[m]
    BY <1>0, <1>4 DEF Merge, Domains
  <2> HIDE DEF merged
  <2>6. Place(m)'
    BY <1>0, <1>1, <2>4, <2>5 DEF Place
  <2>7. Queue(m)' /\ (Waiting(m)' <=> Waiting(m)) /\ (NoReport(m)' <=> NoReport(m))
    BY <2>5, HanInvParts DEF Local, Queue, Waiting, NoReport
  <2>8. Exchange(m)'
    BY <1>0, <2>5, <2>7 DEF Exchange
  <2>9. Mail(m)'
    <3>1. Len(Tail(notices[m])) <= QueueMax
      BY <2>1, <2>2, ProfileAssumption
    <3>2. \A k \in 1 .. Len(Tail(notices[m])) : DOMAIN Tail(notices[m])[k] = Own(m)
      BY <2>1, <2>2
    <3> QED
      BY <2>2, <2>5, <3>1, <3>2 DEF Mail
  <2>10. Presence(m)'
    <3>1. Tail(notices[m]) # <<>> => LastOf(Tail(notices[m])) = registry[Slot(m)]
      BY <2>1, <2>2 DEF LastOf
    <3>2. Tail(notices[m]) = <<>> => slice = registry[Slot(m)]
      BY <2>1, <2>2 DEF LastOf
    <3> HIDE DEF slice
    <3> QED
      BY <1>1, <2>4, <2>5, <3>1, <3>2, OwnFacts DEF Presence
  <2> QED
    BY <1>1, <2>6, <2>7, <2>8, <2>9, <2>10 DEF Local
<1>5. CASE Transition(m)
  <2> DEFINE d == Head(todo[m])
             view == [online[m] EXCEPT ![d] = Found(m, d)]
  <2>1. d \in Own(m)
    BY <1>0, <1>5, Tailed DEF Transition, Place
  <2>2. Found(m, d) \in BOOLEAN
    BY <1>0, <2>1, OwnFacts DEF Found, Domains
  <2>3. view \in Views(m)
    BY <1>1, <2>1, <2>2 DEF Views
  <2>4. /\ pc'[m] = "wait" /\ pc[m] = "pass" /\ online'[m] = view
        /\ requests'[m] = Append(requests[m], Request(m, "report", view))
        /\ reply'[m] = reply[m] /\ notices'[m] = notices[m] /\ registry' = registry
        /\ socks'[m] = socks[m] /\ todo'[m] = Tail(todo[m])
    BY <1>0, <1>5 DEF Transition, Domains
  <2> HIDE DEF view
  <2>5. Place(m)'
    <3>1. Tail(todo[m]) \in Seq(Own(m))
      BY <1>0, <1>5, Tailed DEF Transition, Place
    <3> QED
      BY <1>0, <1>1, <2>3, <2>4, <3>1 DEF Place
  <2> QED
    BY <1>0, <1>1, <2>3, <2>4, <2>5, Asks, RequestTypes DEF Asked
<1>6. CASE ReportDone(m)
  <2>1. /\ pc'[m] = "pass" /\ pc[m] = "wait" /\ reply'[m] = None /\ reply[m] # None
        /\ requests'[m] = requests[m] /\ notices'[m] = notices[m] /\ registry' = registry
        /\ online'[m] = online[m] /\ socks'[m] = socks[m] /\ todo'[m] = todo[m]
    BY <1>0, <1>6 DEF ReportDone, Domains
  <2>2. Place(m)'
    BY <1>0, <1>1, <2>1 DEF Place
  <2>3. Presence(m)
    BY <1>1, HanInvParts DEF Local
  <2> QED
    BY <1>0, <1>1, <2>1, <2>2, <2>3, Takes DEF Presence
<1> QED
  BY <1>2, <1>3, <1>4, <1>5, <1>6

LEMMA CoreSelf ==
  ASSUME HanInv, NEW m \in Modules, CoreRefresh(m) \/ CoreRefreshed(m)
  PROVE  Local(m)'
<1> USE DEF Goto, Send, Consume, Answered, Boot, Run, InCore, AwaitsReply, Booted, dmvars
<1>0. /\ Domains /\ Exchange(m) /\ Place(m) /\ m \in Core /\ RosterInv(m)
      /\ reply[m] # None => ~Waiting(m)
      /\ pc[m] \notin AwaitsReply => ~Waiting(m) /\ reply[m] = None
  BY HanInvParts DEF Local, Exchange, Place, CoreRefresh, CoreRefreshed
<1>1. CASE CoreRefresh(m)
  <2>1. pc'[m] = "roster" /\ requests'[m] = Append(requests[m], Request(m, "modules", <<>>))
    BY <1>0, <1>1 DEF CoreRefresh, Domains
  <2>2. Place(m)'
    BY <1>0, <1>1, <2>1 DEF CoreRefresh, Place
  <2> QED
    BY <1>0, <1>1, <2>1, <2>2, Asks, RequestTypes DEF CoreRefresh, Asked
<1>2. CASE CoreRefreshed(m)
  <2>1. /\ pc'[m] = "core" /\ reply'[m] = None /\ reply[m] # None
        /\ roster'[m] = IF reply[m].error THEN roster[m] ELSE reply[m].slice
    BY <1>0, <1>2 DEF CoreRefreshed, Domains
  <2>2. Place(m)'
    BY <1>0, <1>2, <2>1 DEF CoreRefreshed, Place
  <2>3. roster'[m] # None => Claims(roster[m])'
    BY <1>0, <1>2, <2>1 DEF RosterInv, Claims, CoreRefreshed, module_present
  <2> QED
    BY <1>0, <1>2, <2>1, <2>2, <2>3, Takes DEF CoreRefreshed
<1> QED
  BY <1>1, <1>2

LEMMA ModuleInv ==
  ASSUME HanInv, NEW m \in Modules, ModuleStep(m)
  PROVE  HanInv'
<1>1. Domains' /\ registry' = registry /\ \A n \in Modules \ {m} : Same(n)
  BY ModuleFrame, HanInvParts
<1>2. Local(m)'
  BY BootSelf, LoopSelf, CoreSelf DEF ModuleStep
<1>3. ASSUME NEW n \in Modules, n # m
      PROVE  Local(n)'
  BY <1>1, <1>3, SameLocal, HanInvParts DEF module_present
<1> QED
  BY <1>1, <1>2, <1>3, HanInvParts2

-----------------------------------------------------------------------------
(* What the service does *)

(* The answer ends the exchange, or the asker had given up. *)
LEMMA Answers ==
  ASSUME HanInv, NEW m \in Modules, requests[m] # <<>>, requests'[m] = Tail(requests[m]),
         NEW r \in Replies, reply'[m] = IF Head(requests[m]).live THEN r ELSE reply[m],
         pc'[m] = pc[m]
  PROVE  Queue(m)' /\ Exchange(m)'
<1>1. Queue(m) /\ Exchange(m)
  BY HanInvParts DEF Local
<1>2. Queue(m)'
  BY <1>1, QueuePop
<1>3. CASE Head(requests[m]).live
  <2>1. Waiting(m) /\ ~Waiting(m)' /\ reply'[m] = r
    BY <1>1, <1>3, QueuePop
  <2> QED
    BY <1>1, <1>2, <2>1, NoneAssumption DEF Exchange
<1>4. CASE ~Head(requests[m]).live
  <2>1. (Waiting(m)' <=> Waiting(m)) /\ reply'[m] = reply[m]
    BY <1>1, <1>4, QueuePop
  <2>2. Waiting(m)' => LastOf(requests[m])' = LastOf(requests[m])
    BY <1>1, QueuePop
  <2> QED
    BY <1>1, <1>2, <2>1, <2>2 DEF Exchange
<1> QED
  BY <1>2, <1>3, <1>4

LEMMA ReplyTypes ==
  /\ Reply(TRUE, <<>>) \in Replies /\ Reply(FALSE, <<>>) \in Replies
  /\ Domains => Reply(FALSE, build_modules_list) \in Replies
  /\ Domains => \A i \in Slots : Reply(FALSE, build_slice(i)) \in Replies
<1>1. \A e \in BOOLEAN : \A x \in Slices : Reply(e, x) \in Replies
  BY DEF Replies, Reply
<1>2. <<>> \in Slices
  BY DEF Slices
<1>3. build_modules_list \in Slices
  <2>1. \A i \in Slots : module_present(i) \in BOOLEAN
    BY DEF module_present
  <2>2. build_modules_list \in [Slots -> BOOLEAN]
    BY <2>1 DEF build_modules_list
  <2> QED
    BY <2>2 DEF Slices
<1>4. Domains => \A i \in Slots : registry[i] \in Slices
  BY DEF Slices, Domains
<1> QED
  BY <1>1, <1>2, <1>3, <1>4 DEF build_slice

LEMMA ClaimsNow == Claims(build_modules_list)
<1>1. \A i \in Slots : module_present(i) \in BOOLEAN
  BY DEF module_present
<1> QED
  BY <1>1 DEF Claims, build_modules_list

(* A full SUB buffer loses its oldest notification, never the new one. *)
LEMMA Delivered ==
  ASSUME NEW S, NEW s \in Seq(S), NEW x \in S, Len(s) <= QueueMax
  PROVE  /\ Deliver(s, x) \in Seq(S) /\ Len(Deliver(s, x)) <= QueueMax
         /\ Deliver(s, x) # <<>> /\ LastOf(Deliver(s, x)) = x
         /\ \A P \in SUBSET S : x \in P /\ (\A k \in 1 .. Len(s) : s[k] \in P) =>
              \A k \in 1 .. Len(Deliver(s, x)) : Deliver(s, x)[k] \in P
<1>1. PICK t \in Seq(S) :
        /\ Deliver(s, x) = Append(t, x) /\ Len(t) < QueueMax
        /\ \A k \in 1 .. Len(t) : \E j \in 1 .. Len(s) : t[k] = s[j]
  <2>1. Len(s) \in Nat
    OBVIOUS
  <2>2. CASE Len(s) < QueueMax
    BY <2>2 DEF Deliver
  <2>3. CASE ~(Len(s) < QueueMax)
    <3>1. s # <<>> /\ Len(s) = QueueMax
      BY <2>1, <2>3, ProfileAssumption
    <3>2. /\ Tail(s) \in Seq(S) /\ Len(Tail(s)) = Len(s) - 1
          /\ \A k \in 1 .. Len(s) - 1 : Tail(s)[k] = s[k + 1]
      BY <3>1, Tailed
    <3>3. \A k \in 1 .. Len(Tail(s)) : k + 1 \in 1 .. Len(s) /\ Tail(s)[k] = s[k + 1]
      BY <2>1, <3>2
    <3>4. Deliver(s, x) = Append(Tail(s), x)
      BY <2>3 DEF Deliver
    <3>5. Len(Tail(s)) < QueueMax
      BY <2>1, <3>1, <3>2, ProfileAssumption
    <3> QED
      BY <3>2, <3>3, <3>4, <3>5
  <2> QED
    BY <2>2, <2>3
<1>2. /\ Append(t, x) \in Seq(S) /\ Len(Append(t, x)) = Len(t) + 1 /\ Len(t) \in Nat
      /\ Append(t, x)[Len(t) + 1] = x /\ Append(t, x) # <<>>
      /\ \A k \in 1 .. Len(t) : Append(t, x)[k] = t[k]
  BY Appended
<1>3. ASSUME NEW P \in SUBSET S, x \in P, \A k \in 1 .. Len(s) : s[k] \in P,
             NEW k \in 1 .. Len(t) + 1
      PROVE  Append(t, x)[k] \in P
  <2>1. CASE k = Len(t) + 1
    BY <1>2, <1>3, <2>1
  <2>2. CASE k # Len(t) + 1
    <3>1. k \in 1 .. Len(t)
      BY <1>2, <2>2
    <3> QED
      BY <1>1, <1>2, <1>3, <3>1
  <2> QED
    BY <2>1, <2>2
<1>4. Len(Append(t, x)) <= QueueMax
  BY <1>1, <1>2, ProfileAssumption
<1> HIDE DEF Deliver
<1> QED
  BY <1>1, <1>2, <1>3, <1>4 DEF LastOf

LEMMA ReportedType ==
  ASSUME Domains, NEW i \in Slots, NEW devices
  PROVE  Reported(i, devices) \in [DevsOf(i) -> Statuses] /\ Reported(i, devices) \in Echoes
<1>1. registry[i] \in [DevsOf(i) -> Statuses]
  BY DEF Domains
<1>2. Reported(i, devices) \in [DevsOf(i) -> Statuses]
  BY <1>1 DEF Reported, Statuses
<1> QED
  BY <1>2 DEF Echoes

(* The queries: the registry and the notices stay. *)
LEMMA Queries ==
  ASSUME HanInv, NEW m \in Modules, ServiceStep(m), registry' = registry, notices' = notices
  PROVE  HanInv'
<1> DEFINE q == Head(requests[m])
           i == find_module(q.mt, q.mi)
<1>1. /\ Domains /\ Local(m) /\ requests[m] # <<>>
      /\ requests' = [requests EXCEPT ![m] = Tail(requests[m])]
      /\ UNCHANGED <<pc, online, up, todo, socks, roster, link>>
  BY HanInvParts DEF ServiceStep, handle_request, modvars
<1>2. q \in Requests(m) /\ Queue(m)
  BY <1>1, QueuePop DEF Domains, Local
<1>3. i = Slot(m) /\ q.cmd \in {"query", "report", "modules"} /\ q.live \in BOOLEAN
  BY <1>2, RequestFacts DEF Slot
<1>4. PICK r \in Replies :
        /\ reply' = IF q.live THEN [reply EXCEPT ![m] = r] ELSE reply
        /\ q.cmd = "modules" => r = Reply(FALSE, build_modules_list)
        /\ q.cmd = "query" => r.error \/ (i # 0 /\ r.slice = registry[i])
  <2> DEFINE To(r) == reply' = IF q.live THEN [reply EXCEPT ![m] = r] ELSE reply
  <2>1. \/ q.cmd = "modules" /\ To(Reply(FALSE, build_modules_list))
        \/ q.cmd # "modules" /\ To(Reply(TRUE, <<>>))
        \/ q.cmd = "query" /\ i # 0 /\ To(Reply(FALSE, build_slice(i)))
        \/ q.cmd = "report" /\ To(Reply(FALSE, <<>>))
    <3> HIDE DEF i
    <3> QED
      BY DEF ServiceStep, handle_request, reply_text, i
  <2>2. i # 0 => i \in Slots
    BY <1>3, OwnFacts
  <2>3. Reply(TRUE, <<>>).error /\ (i # 0 => Reply(FALSE, build_slice(i)).slice = registry[i])
    BY DEF Reply, build_slice
  <2> HIDE DEF q, i
  <2> QED
    BY <1>1, <2>1, <2>2, <2>3, ReplyTypes
<1> HIDE DEF q, i
<1>5. /\ requests'[m] = Tail(requests[m]) /\ reply'[m] = IF q.live THEN r ELSE reply[m]
      /\ \A n \in Modules \ {m} : Same(n)
      /\ Domains'
  BY <1>1, <1>4 DEF Domains, Same
<1>6. Queue(m)' /\ Exchange(m)'
  BY <1>1, <1>5, Answers DEF q
<1>7. Place(m)' /\ Mail(m)'
  BY <1>1 DEF Local, Place, Mail
<1>8. /\ q.live => /\ Waiting(m) /\ requests'[m] = <<>> /\ q.cmd = Asked(pc[m]) /\ pc[m] \in AwaitsReply
      /\ q.cmd # "report" /\ NoReport(m)' => NoReport(m)
  BY <1>1, <1>2, <1>5, QueuePop DEF Local, Exchange, q
<1>9. m \notin Core => Presence(m)'
  <2> SUFFICES ASSUME m \notin Core PROVE Presence(m)'
    OBVIOUS
  <2>1. Presence(m)
    BY <1>1 DEF Local
  <2>2. (notices[m] # <<>> => Slot(m) # 0 /\ LastOf(notices[m]) = registry[Slot(m)])'
    BY <2>1 DEF Presence
  <2>3. (pc[m] \in {"query", "requery"} /\ reply[m] # None /\ ~reply[m].error =>
         requests[m] = <<>> /\ Slot(m) # 0 /\ reply[m].slice = registry[Slot(m)])'
    <3> SUFFICES ASSUME pc[m] \in {"query", "requery"}, reply'[m] # None, ~reply'[m].error
                 PROVE  requests'[m] = <<>> /\ Slot(m) # 0 /\ reply'[m].slice = registry[Slot(m)]
      BY <1>1
    <3>1. q.live
      BY <1>1, <1>5, <2>1 DEF Presence
    <3>2. q.cmd = "query"
      BY <1>8, <3>1 DEF Asked
    <3> QED
      BY <1>3, <1>4, <1>5, <1>8, <3>1, <3>2
  <2>4. (pc[m] \in Run /\ notices[m] = <<>> /\ NoReport(m) =>
         \A d \in Own(m) : online[m][d] <=> registry[Slot(m)][d] = "online")'
    <3>1. CASE q.cmd # "report"
      BY <1>1, <1>8, <2>1, <3>1 DEF Presence
    <3>2. CASE q.cmd = "report"
      <4>1. i = 0 \/ Own(m) = {} \/ notices'[m] # <<>>
        <5> SUFFICES ASSUME i # 0, Own(m) # {} PROVE notices'[m] # <<>>
          OBVIOUS
        <5>1. q.devices \in Views(m) /\ Own(m) = DevsOf(i)
          BY <1>2, <1>3, <3>2, RequestFacts, OwnFacts
        <5>2. DOMAIN q.devices = Own(m)
          BY <5>1 DEF Views
        <5>3. publish_slice(i, Reported(i, q.devices))
          BY <3>2, <5>1, <5>2 DEF ServiceStep, handle_request, q, i
        <5>4. notices'[m] = Deliver(notices[m], Reported(i, q.devices))
          BY <1>3, <5>3, SlotFacts DEF publish_slice
        <5>5. notices[m] \in Seq(Echoes) /\ Len(notices[m]) <= QueueMax
          BY <1>1 DEF Local, Mail
        <5>6. Reported(i, q.devices) \in Echoes
          BY <1>1, <1>3, SlotFacts, ReportedType
        <5> QED
          BY <5>4, <5>5, <5>6, Delivered
      <4> QED
        BY <1>3, <4>1, OwnFacts DEF Own
    <3> QED
      BY <3>1, <3>2
  <2> QED
    BY <2>2, <2>3, <2>4 DEF Presence
<1>10. m \in Core => RosterInv(m)'
  <2> SUFFICES ASSUME m \in Core PROVE RosterInv(m)'
    OBVIOUS
  <2>1. RosterInv(m) /\ Place(m)
    BY <1>1 DEF Local
  <2>2. q.live => r = Reply(FALSE, build_modules_list)
    BY <1>4, <1>8, <2>1 DEF Place, InCore, AwaitsReply, Asked
  <2>3. reply'[m] # None /\ ~reply'[m].error => Claims(reply'[m].slice)
    BY <1>5, <2>1, <2>2, ClaimsNow DEF RosterInv, Reply
  <2> QED
    BY <1>1, <2>1, <2>3 DEF RosterInv, Claims, module_present
<1>11. Local(m)'
  BY <1>6, <1>7, <1>9, <1>10 DEF Local
<1>12. ASSUME NEW n \in Modules, n # m
       PROVE  Local(n)'
  BY <1>5, <1>12, SameLocal, HanInvParts DEF module_present
<1> QED
  BY <1>5, <1>11, <1>12, HanInvParts2

(* A report: the slice changes and every module of that index is told. *)
LEMMA Reports ==
  ASSUME HanInv, NEW m \in Modules, ServiceStep(m), Head(requests[m]).cmd = "report", Slot(m) # 0
  PROVE  HanInv'
<1> DEFINE q == Head(requests[m])
           i == Slot(m)
           slice == Reported(i, q.devices)
<1>1. /\ Domains /\ Local(m) /\ requests[m] # <<>>
      /\ requests' = [requests EXCEPT ![m] = Tail(requests[m])]
      /\ UNCHANGED <<pc, online, up, todo, socks, roster, link>>
  BY HanInvParts DEF ServiceStep, handle_request, modvars
<1>2. q \in Requests(m) /\ Queue(m)
  BY <1>1, QueuePop DEF Domains, Local
<1>3. /\ find_module(q.mt, q.mi) = i /\ q.live \in BOOLEAN /\ m \notin Core
      /\ q.devices \in Views(m) /\ DOMAIN q.devices = Own(m)
  BY <1>2, RequestFacts DEF Slot, Views
<1>4. i \in Slots /\ Own(m) = DevsOf(i) /\ Profile[i].mi = Ident[m].mi
  BY SlotFacts, OwnFacts
<1>5. /\ registry' = [registry EXCEPT ![i] = slice]
      /\ Own(m) # {} => publish_slice(i, slice)
      /\ Own(m) = {} => notices' = notices
      /\ reply' = IF q.live THEN [reply EXCEPT ![m] = Reply(FALSE, <<>>)] ELSE reply
  BY <1>3, <1>4 DEF ServiceStep, handle_request, reply_text
<1>6. slice \in [DevsOf(i) -> Statuses] /\ slice \in Echoes
  BY <1>1, <1>4, ReportedType
<1>7. \A d \in DevsOf(i) : slice[d] \in {"online", "offline"}
  BY <1>3, <1>4 DEF Reported, Views
<1>8. CASE Own(m) = {}
  <2>1. registry[i] \in [DevsOf(i) -> Statuses]
    BY <1>1, <1>4 DEF Domains
  <2>2. slice = registry[i]
    BY <1>4, <1>6, <1>8, <2>1
  <2>3. registry' = registry
    BY <1>1, <1>5, <2>2 DEF Domains
  <2> QED
    BY <1>5, <1>8, <2>3, Queries
<1>9. CASE Own(m) # {}
  <2> HIDE DEF q, i, slice
  <2>1. /\ registry' \in [Slots -> Echoes]
        /\ \A j \in Slots : registry'[j] \in [DevsOf(j) -> Statuses]
        /\ registry'[i] = slice /\ \A j \in Slots \ {i} : registry'[j] = registry[j]
    BY <1>1, <1>4, <1>5, <1>6 DEF Domains
  <2>2. \A j \in Slots : module_present(j) => module_present(j)'
    BY <1>7, <2>1 DEF module_present
  <2>3. /\ DOMAIN notices' = Modules
        /\ \A n \in Modules : notices'[n] = IF Ident[n].mi = Ident[m].mi THEN Deliver(notices[n], slice) ELSE notices[n]
    BY <1>4, <1>5, <1>9 DEF publish_slice
  <2>4. /\ Domains'
        /\ requests'[m] = Tail(requests[m])
        /\ reply'[m] = IF q.live THEN Reply(FALSE, <<>>) ELSE reply[m]
        /\ \A n \in Modules \ {m} : requests'[n] = requests[n] /\ reply'[n] = reply[n]
    BY <1>1, <1>5, <2>1, <2>3 DEF Domains
  <2>5. ASSUME NEW n \in Modules
        PROVE  Mail(n)' /\ (Ident[n].mi = Ident[m].mi => notices'[n] # <<>> /\ LastOf(notices'[n]) = slice)
    <3>1. Mail(n)
      BY HanInvParts DEF Local
    <3>2. CASE Ident[n].mi # Ident[m].mi
      BY <2>3, <3>1, <3>2 DEF Mail
    <3>3. CASE Ident[n].mi = Ident[m].mi
      <4>1. /\ Deliver(notices[n], slice) \in Seq(Echoes) /\ Len(Deliver(notices[n], slice)) <= QueueMax
            /\ Deliver(notices[n], slice) # <<>> /\ LastOf(Deliver(notices[n], slice)) = slice
        BY <1>6, <3>1, Delivered DEF Mail
      <4>2. notices'[n] = Deliver(notices[n], slice)
        BY <2>3, <3>3
      <4>3. n \notin Core => \A k \in 1 .. Len(Deliver(notices[n], slice)) :
                               DOMAIN Deliver(notices[n], slice)[k] = Own(n)
        <5> SUFFICES ASSUME n \notin Core
                     PROVE  \A k \in 1 .. Len(Deliver(notices[n], slice)) :
                              DOMAIN Deliver(notices[n], slice)[k] = Own(n)
          OBVIOUS
        <5>1. n = m
          BY <1>3, <3>3, SlotUnique
        <5> DEFINE P == {e \in Echoes : DOMAIN e = Own(n)}
        <5>2. slice \in P
          BY <1>4, <1>6, <5>1
        <5>3. \A k \in 1 .. Len(notices[n]) : notices[n][k] \in P
          BY <3>1, Elements DEF Mail
        <5>4. notices[n] \in Seq(Echoes) /\ Len(notices[n]) <= QueueMax /\ P \in SUBSET Echoes
          BY <3>1 DEF Mail
        <5>5. \A k \in 1 .. Len(Deliver(notices[n], slice)) : Deliver(notices[n], slice)[k] \in P
          <6> HIDE DEF P
          <6> QED
            BY <1>6, <5>2, <5>3, <5>4, Delivered
        <5> QED
          BY <5>5
      <4> QED
        BY <4>1, <4>2, <4>3 DEF Mail
    <3> QED
      BY <3>2, <3>3
  <2>6. Queue(m)' /\ Exchange(m)'
    BY <1>1, <2>4, Answers, ReplyTypes DEF q
  <2>7. Place(m)'
    BY <1>1 DEF Local, Place
  <2>8. Presence(m)'
    <3>1. Presence(m)
      BY <1>1, <1>3 DEF Local
    <3>2. q.live => q.cmd = Asked(pc[m])
      BY <1>1, <1>2, <2>4, QueuePop DEF Local, Exchange, q
    <3>3. q.live => pc[m] \notin {"query", "requery"}
      BY <3>2 DEF Asked, q
    <3>4. pc[m] \in {"query", "requery"} => reply[m] = None \/ reply[m].error
      BY <1>1, <3>1 DEF Presence
    <3>5. pc'[m] = pc[m] /\ (~q.live => reply'[m] = reply[m])
      BY <1>1, <2>4
    <3>6. notices'[m] # <<>> /\ LastOf(notices'[m]) = slice /\ registry'[Slot(m)] = slice
      BY <2>1, <2>5 DEF i
    <3> QED
      BY <3>3, <3>4, <3>5, <3>6 DEF Presence
  <2>9. Local(m)'
    BY <1>3, <2>5, <2>6, <2>7, <2>8 DEF Local
  <2>10. ASSUME NEW n \in Modules, n # m
         PROVE  Local(n)'
    <3>1. Local(n)
      BY HanInvParts
    <3>2. CASE n \notin Core
      <4>1. Ident[n].mi # Ident[m].mi
        BY <1>3, <2>10, <3>2, SlotUnique
      <4>2. Same(n)
        BY <1>1, <2>3, <2>4, <2>10, <3>2, <4>1 DEF Same
      <4>3. Slot(n) # 0 => Slot(n) \in Slots /\ Slot(n) # i
        BY <1>4, <4>1, SlotFacts
      <4> QED
        BY <2>1, <2>2, <3>1, <4>2, <4>3, SameLocal
    <3>3. CASE n \in Core
      <4>1. /\ pc'[n] = pc[n] /\ requests'[n] = requests[n] /\ reply'[n] = reply[n]
            /\ online'[n] = online[n] /\ todo'[n] = todo[n] /\ socks'[n] = socks[n]
            /\ roster'[n] = roster[n]
        BY <1>1, <2>4, <2>10
      <4>2. Queue(n)' /\ (Waiting(n)' <=> Waiting(n))
        BY <3>1, <4>1 DEF Local, Queue, Waiting
      <4>3. Exchange(n)'
        BY <3>1, <4>1, <4>2 DEF Local, Exchange
      <4>4. Place(n)'
        BY <3>1, <4>1 DEF Local, Place
      <4>5. RosterInv(n)'
        BY <2>2, <3>1, <3>3, <4>1 DEF Local, RosterInv, Claims
      <4> QED
        BY <2>5, <3>3, <4>2, <4>3, <4>4, <4>5 DEF Local
    <3> QED
      BY <3>2, <3>3
  <2> QED
    BY <2>4, <2>9, <2>10, HanInvParts2
<1> QED
  BY <1>8, <1>9

LEMMA ServiceInv ==
  ASSUME HanInv, NEW m \in Modules, ServiceStep(m)
  PROVE  HanInv'
<1> DEFINE q == Head(requests[m])
<1>1. Queue(m) /\ requests[m] # <<>>
  BY HanInvParts DEF Local, ServiceStep, handle_request
<1>2. q \in Requests(m)
  BY <1>1, Tailed DEF Queue
<1>3. find_module(q.mt, q.mi) = Slot(m)
  BY <1>2, RequestFacts DEF Slot
<1>4. CASE q.cmd = "report" /\ Slot(m) # 0
  BY <1>4, Reports
<1>5. CASE ~(q.cmd = "report" /\ Slot(m) # 0)
  <2>1. registry' = registry /\ notices' = notices
    BY <1>3, <1>5 DEF ServiceStep, handle_request
  <2> QED
    BY <2>1, Queries
<1> QED
  BY <1>4, <1>5

LEMMA TimeoutInv ==
  ASSUME HanInv, NEW m \in Modules, ClientTimeout(m)
  PROVE  HanInv'
<1>1. /\ Domains /\ Local(m) /\ Waiting(m) /\ Len(requests[m]) < MaxPending
      /\ UNCHANGED <<registry, notices, pc, online, up, todo, socks, roster, link>>
  BY HanInvParts DEF ClientTimeout, Timeout, modvars
<1>2. /\ requests'[m] = [k \in 1 .. Len(requests[m]) |-> [requests[m][k] EXCEPT !.live = FALSE]]
      /\ reply'[m] = Reply(TRUE, <<>>)
      /\ \A n \in Modules \ {m} : requests'[n] = requests[n] /\ reply'[n] = reply[n]
      /\ DOMAIN requests' = Modules /\ DOMAIN reply' = Modules
  BY <1>1 DEF ClientTimeout, Timeout, Domains
<1>3. Queue(m)' /\ ~Waiting(m)' /\ (NoReport(m)' <=> NoReport(m))
  BY <1>1, <1>2, QueueTimeout DEF Local
<1>4. Reply(TRUE, <<>>) \in Replies /\ Reply(TRUE, <<>>).error /\ Reply(TRUE, <<>>) # None
  BY ReplyTypes, NoneAssumption DEF Reply
<1>5. Domains' /\ \A n \in Modules \ {m} : Same(n)
  BY <1>1, <1>2 DEF Domains, Same
<1>6. Exchange(m)'
  BY <1>1, <1>2, <1>3, <1>4 DEF Local, Exchange
<1>7. Place(m)' /\ Mail(m)'
  BY <1>1 DEF Local, Place, Mail
<1>8. m \notin Core => Presence(m)'
  BY <1>1, <1>2, <1>3, <1>4 DEF Local, Presence
<1>9. m \in Core => RosterInv(m)'
  BY <1>1, <1>2, <1>4 DEF Local, RosterInv, Claims, module_present
<1>10. Local(m)'
  BY <1>3, <1>6, <1>7, <1>8, <1>9 DEF Local
<1>11. ASSUME NEW n \in Modules, n # m
       PROVE  Local(n)'
  BY <1>1, <1>5, <1>11, SameLocal, HanInvParts DEF module_present
<1> QED
  BY <1>5, <1>10, <1>11, HanInvParts2

LEMMA LinkInv ==
  ASSUME HanInv, (\E d \in Devices : LinkChanges(d)) \/ UNCHANGED vars
  PROVE  HanInv'
<1>1. UNCHANGED <<registry, requests, reply, notices, pc, online, up, todo, socks, roster>>
  BY DEF LinkChanges, vars, dmvars, modvars
<1>2. link' \in [Devices -> BOOLEAN]
  BY HanInvParts DEF Domains, LinkChanges, vars
<1>3. Domains'
  BY <1>1, <1>2, HanInvParts DEF Domains
<1>4. ASSUME NEW n \in Modules
      PROVE  Local(n)'
  BY <1>1, SameLocal, HanInvParts DEF Same, module_present
<1> QED
  BY <1>3, <1>4, HanInvParts2

LEMMA HanInvInit == Init => HanInv
<1> SUFFICES ASSUME Init PROVE HanInv
  OBVIOUS
<1>1. Domains
  <2>1. \A i \in Slots : registry[i] \in [DevsOf(i) -> Statuses]
    BY DEF Init, Statuses
  <2>2. registry \in [Slots -> Echoes]
    BY <2>1 DEF Init, Echoes
  <2> QED
    BY <2>1, <2>2 DEF Init, Domains
<1>2. ASSUME NEW m \in Modules
      PROVE  Local(m)
  <2>1. requests[m] = <<>> /\ reply[m] = None /\ notices[m] = <<>> /\ todo[m] = <<>> /\ socks[m] = {}
    BY DEF Init
  <2>2. pc[m] = IF m \in Core THEN "core" ELSE "start"
    BY DEF Init
  <2>3. online[m] \in [{} -> BOOLEAN]
    BY DEF Init
  <2>4. \A S : <<>> \in Seq(S) /\ Len(<<>>) = 0
    OBVIOUS
  <2>5. ~Waiting(m)
    BY <2>1 DEF Waiting
  <2>6. Queue(m)
    BY <2>1, <2>4, <2>5, ProfileAssumption DEF Queue
  <2>7. Exchange(m)
    BY <2>1, <2>2, <2>5 DEF Exchange, AwaitsReply
  <2>8. Place(m)
    BY <2>1, <2>2, <2>3, <2>4 DEF Place, Boot, Run, InCore, Booted
  <2>9. Mail(m)
    BY <2>1, <2>4, ProfileAssumption DEF Mail
  <2>10. Presence(m)
    BY <2>1, <2>2 DEF Presence, Run
  <2>11. m \in Core => RosterInv(m)
    BY <2>1 DEF Init, RosterInv
  <2> QED
    BY <2>6, <2>7, <2>8, <2>9, <2>10, <2>11 DEF Local
<1> QED
  BY <1>1, <1>2, HanInvParts

LEMMA HanInvStep == HanInv /\ [Next]_vars => HanInv'
BY ModuleInv, ServiceInv, TimeoutInv, LinkInv DEF Next

LEMMA HanInvariance == Spec => []HanInv
BY HanInvInit, HanInvStep, PTL DEF Spec

-----------------------------------------------------------------------------
(* The registry, the flags, sockets and event lists of each module, its   *)
(* queues and their capacities, and where it is, keep their types: the SUB *)
(* buffer never holds more than its capacity, and only the newest request  *)
(* of a client can still be answered.                                      *)
THEOREM HanTypeCorrect == Spec => []TypeOK
<1>1. ASSUME HanInv
      PROVE  TypeOK
  <2>1. /\ Domains /\ \A m \in Modules : Place(m) /\ Mail(m) /\ Queue(m)
    BY <1>1, HanInvParts DEF Local
  <2>2. pc \in [Modules -> Boot \cup Run \cup InCore \cup {"exit"}]
    BY <2>1 DEF Domains, Place
  <2>3. \A m \in Modules :
          /\ online[m] \in [Own(m) -> BOOLEAN] \cup [{} -> BOOLEAN]
          /\ socks[m] \subseteq Own(m) /\ todo[m] \in Seq(Own(m))
    BY <2>1 DEF Place, Views
  <2>4. \A m \in Modules :
          /\ Len(notices[m]) <= QueueMax
          /\ Len(requests[m]) <= MaxPending
          /\ \A k \in 1 .. Len(requests[m]) : requests[m][k].live => k = Len(requests[m])
    BY <2>1 DEF Mail, Queue
  <2> QED
    BY <2>1, <2>2, <2>3, <2>4 DEF TypeOK, Domains
<1> QED
  BY <1>1, HanInvariance, PTL

(* hes_mreg.c: a client waits exactly while its request is on its way or   *)
(* its reply has come.  The reply to a request it gave up on (req_reply's  *)
(* timeout) is never taken for the answer to the next one.                 *)
THEOREM NoOrphan == Spec => []NoOrphanWait
<1>1. HanInv => NoOrphanWait
  BY HanInvParts DEF NoOrphanWait, Local, Exchange
<1> QED
  BY <1>1, HanInvariance, PTL

(* ble.c, wifi.c, dm.c: reports handled late, after the module gave up on  *)
(* them, and echoes lost by a full SUB buffer never leave a module and the *)
(* service with different views once nothing is on its way.                *)
THEOREM ViewsConsistent == Spec => []ViewsAgree
<1>1. ASSUME HanInv
      PROVE  ViewsAgree
  <2> SUFFICES ASSUME NEW m \in Modules, pc[m] \in Run, Settled(m)
               PROVE  online[m] = hes_devreg_parse(build_slice(Slot(m)))
    BY DEF ViewsAgree
  <2>1. Place(m) /\ (m \notin Core => Presence(m)) /\ Domains
    BY <1>1, HanInvParts DEF Local
  <2>2. m \notin Core /\ Own(m) # {} /\ online[m] \in Views(m)
    BY <2>1 DEF Place, Run, InCore, Booted
  <2>3. NoReport(m)
    BY DEF Settled, NoReport
  <2>4. \A d \in Own(m) : online[m][d] <=> registry[Slot(m)][d] = "online"
    BY <2>1, <2>2, <2>3 DEF Presence, Settled
  <2>5. Slot(m) \in Slots /\ Own(m) = DevsOf(Slot(m))
    BY <2>2, OwnFacts
  <2>6. registry[Slot(m)] \in [Own(m) -> Statuses]
    BY <2>1, <2>5 DEF Domains
  <2> DEFINE view == hes_devreg_parse(registry[Slot(m)])
  <2>7. view \in [Own(m) -> BOOLEAN] /\ \A d \in Own(m) : view[d] <=> registry[Slot(m)][d] = "online"
    BY <2>6, ParseFacts
  <2> HIDE DEF view
  <2>8. \A d \in Own(m) : online[m][d] = view[d]
    BY <2>2, <2>4, <2>7 DEF Views
  <2>9. online[m] = view
    BY <2>2, <2>7, <2>8 DEF Views
  <2> QED
    BY <2>9 DEF view, build_slice
<1> QED
  BY <1>1, HanInvariance, PTL

(* core.c: the module list the core answers from, however old, claims only *)
(* modules that the service counts as present, because presence, once      *)
(* reported, is never taken back.                                          *)
THEOREM RosterIsSound == Spec => []RosterSound
<1>1. HanInv => RosterSound
  BY KindAssumption DEF HanInv, RosterInv, Claims, RosterSound, build_modules_list
<1> QED
  BY <1>1, HanInvariance, PTL

(* dm.c find_module(): a slice given to a module lists the devices of the  *)
(* profile module with its own type and index.                             *)
THEOREM SliceIsOwn == Spec => []OwnSlice
<1>1. ASSUME HanInv
      PROVE  OwnSlice
  <2> SUFFICES ASSUME NEW m \in Modules, NEW i \in Slots,
                      pc[m] \in {"query", "requery"}, reply[m] # None, ~reply[m].error,
                      Profile[i].mt = Ident[m].mt, Profile[i].mi = Ident[m].mi
               PROVE  DOMAIN reply[m].slice = Profile[i].devs
    BY DEF OwnSlice
  <2>1. m \notin Core /\ Slot(m) # 0 /\ DOMAIN reply[m].slice = Own(m)
    BY <1>1, GoodAnswer
  <2>2. Slot(m) \in Slots /\ Profile[Slot(m)].mi = Ident[m].mi /\ Profile[Slot(m)].mt = Ident[m].mt
    BY <2>1, SlotFacts, KindAssumption
  <2>3. Slot(m) = i
    BY <2>2, IdentityAssumption
  <2> QED
    BY <2>1, <2>3, OwnFacts DEF DevsOf
<1> QED
  BY <1>1, HanInvariance, PTL

-----------------------------------------------------------------------------
(* Agreement.  A WiFi module asks only the devices it has a socket for.    *)
Asking(m) == todo[m] \in Seq(socks[m]) /\ (pc[m] \in Boot => todo[m] = <<>>)
WifiTodo == \A m \in Modules \ (Ble \cup Core) : Asking(m)

LEMMA AskingSelf ==
  ASSUME HanInv, NEW m \in Modules \ (Ble \cup Core), Asking(m), ModuleStep(m)
  PROVE  Asking(m)'
<1> USE DEF Goto, Boot, dmvars
<1>0. Domains /\ Place(m) /\ m \in Modules
  BY HanInvParts DEF Local
<1>1. \A S : <<>> \in Seq(S)
  OBVIOUS
<1>2. CASE WifiPoll(m)
  <2>1. todo'[m] = InOrder(socks[m]) /\ socks'[m] = socks[m] /\ pc'[m] = "pass"
    BY <1>0, <1>2 DEF WifiPoll, Domains
  <2>2. IsFiniteSet(socks[m]) /\ socks[m] \subseteq Nat
    BY <1>0, OwnFacts, FS_Subset DEF Place
  <2>3. InOrder(socks[m]) \in Seq(socks[m])
    BY <2>2, InOrderType
  <2> QED
    BY <2>1, <2>3 DEF Asking
<1>3. CASE Transition(m) \/ NoTransition(m)
  <2>1. /\ todo[m] # <<>> /\ todo'[m] = Tail(todo[m]) /\ socks'[m] = socks[m]
        /\ pc'[m] \in {"wait", "pass"}
    BY <1>0, <1>3 DEF Transition, NoTransition, Domains
  <2>2. Tail(todo[m]) \in Seq(socks[m])
    BY <2>1, Tailed DEF Asking
  <2> QED
    BY <2>1, <2>2 DEF Asking
<1>4. CASE Serve(m)
  <2>1. pc[m] = "requery" /\ todo'[m] = todo[m] /\ pc'[m] \in {"loop", "exit"}
    BY <1>0, <1>4 DEF Serve, Answered, Domains
  <2> QED
    BY <1>1, <2>1 DEF Asking
<1>5. CASE Start(m) \/ OpenFails(m) \/ Refused(m) \/ Register(m) \/ Requery(m)
  <2>1. pc[m] \in Boot /\ todo'[m] = todo[m] /\ socks'[m] = socks[m]
    BY <1>5 DEF Start, OpenFails, Refused, Register, Requery, Answered
  <2> QED
    BY <2>1 DEF Asking
<1>6. CASE Merge(m) \/ NoNotice(m) \/ WifiNotDue(m) \/ ReportDone(m) \/ PassDone(m)
  <2>1. todo'[m] = todo[m] /\ socks'[m] = socks[m] /\ pc'[m] \notin Boot
    BY <1>0, <1>6 DEF Merge, NoNotice, WifiNotDue, ReportDone, PassDone, Domains
  <2> QED
    BY <2>1 DEF Asking
<1>7. ~BlePoll(m) /\ ~CoreRefresh(m) /\ ~CoreRefreshed(m)
  BY <1>0 DEF BlePoll, CoreRefresh, CoreRefreshed, Answered, Place, InCore
<1> QED
  BY <1>2, <1>3, <1>4, <1>5, <1>6, <1>7 DEF ModuleStep

LEMMA WifiTodoStep == HanInv /\ WifiTodo /\ [Next]_vars => WifiTodo'
<1> SUFFICES ASSUME HanInv, WifiTodo, [Next]_vars, NEW m \in Modules \ (Ble \cup Core)
             PROVE  Asking(m)'
  BY DEF WifiTodo
<1>0. Asking(m) /\ Domains
  BY HanInvParts DEF WifiTodo
<1>1. ASSUME NEW n \in Modules, ModuleStep(n) PROVE Asking(m)'
  <2>1. CASE n = m
    BY <1>0, <1>1, <2>1, AskingSelf
  <2>2. CASE n # m
    BY <1>0, <1>1, <2>2, ModuleFrame DEF Same, Asking
  <2> QED
    BY <2>1, <2>2
<1>2. CASE UNCHANGED <<pc, todo, socks>>
  BY <1>0, <1>2 DEF Asking
<1> QED
  BY <1>1, <1>2 DEF Next, ServiceStep, ClientTimeout, LinkChanges, modvars, vars

(* What the service does for one module it does not do to another. *)
LEMMA ServiceApart ==
  ASSUME HanInv, NEW n \in Modules, ServiceStep(n),
         NEW m \in Modules \ Core, n # m, Slot(m) # 0
  PROVE  /\ requests'[m] = requests[m] /\ notices'[m] = notices[m]
         /\ registry'[Slot(m)] = registry[Slot(m)]
<1> DEFINE q == Head(requests[n])
<1>0. Domains /\ Queue(n) /\ requests[n] # <<>>
  BY HanInvParts DEF Local, ServiceStep, handle_request
<1>1. requests' = [requests EXCEPT ![n] = Tail(requests[n])]
  BY DEF ServiceStep, handle_request
<1>2. q \in Requests(n)
  BY <1>0, Tailed DEF Queue
<1>3. find_module(q.mt, q.mi) = Slot(n) /\ (q.cmd = "report" => n \notin Core)
  BY <1>2, RequestFacts DEF Slot
<1>4. CASE ~(q.cmd = "report" /\ Slot(n) # 0)
  <2>1. registry' = registry /\ notices' = notices
    BY <1>3, <1>4 DEF ServiceStep, handle_request
  <2> QED
    BY <1>0, <1>1, <2>1 DEF Domains
<1>5. CASE q.cmd = "report" /\ Slot(n) # 0
  <2>1. Ident[n].mi # Ident[m].mi
    BY <1>3, <1>5, SlotUnique
  <2>2. Profile[Slot(n)].mi = Ident[n].mi /\ Profile[Slot(m)].mi = Ident[m].mi
    BY <1>5, SlotFacts
  <2>3. PICK slice :
          /\ registry' = [registry EXCEPT ![Slot(n)] = slice]
          /\ notices' = notices \/ publish_slice(Slot(n), slice)
    BY <1>3, <1>5 DEF ServiceStep, handle_request
  <2>4. Slot(m) \in Slots /\ Slot(m) # Slot(n)
    BY <2>1, <2>2, SlotFacts
  <2>5. registry'[Slot(m)] = registry[Slot(m)]
    BY <1>0, <2>3, <2>4 DEF Domains
  <2>6. notices'[m] = notices[m]
    BY <2>1, <2>2, <2>3 DEF publish_slice
  <2> QED
    BY <1>0, <1>1, <2>5, <2>6 DEF Domains
<1> QED
  BY <1>4, <1>5

LEMMA AgreementStep ==
  ASSUME HanInv, WifiTodo, Next, UNCHANGED link,
         NEW m \in Modules \ (Ble \cup Core), InAgreement(m)
  PROVE  InAgreement(m)'
<1>0. /\ Domains /\ Place(m) /\ Asking(m) /\ Queue(m)
      /\ pc[m] \in Run /\ requests[m] = <<>> /\ notices[m] = <<>>
  BY HanInvParts DEF Local, WifiTodo, InAgreement, Settled
<1>1. Slot(m) # 0 /\ socks[m] \subseteq Own(m)
  BY <1>0, OwnFacts DEF Place, Booted
<1>2. ASSUME pc'[m] \in Run, requests'[m] = requests[m], notices'[m] = notices[m],
             online'[m] = online[m], socks'[m] = socks[m],
             registry'[Slot(m)] = registry[Slot(m)]
      PROVE  InAgreement(m)'
  BY <1>0, <1>2 DEF InAgreement, Settled, Reg
<1>3. CASE ModuleStep(m)
  <2> USE DEF Goto, Consume, Run, dmvars, Answered
  <2>1. ~Transition(m)
    <3> SUFFICES ASSUME Transition(m) PROVE FALSE
      OBVIOUS
    <3>1. todo[m] # <<>> /\ Found(m, Head(todo[m])) # online[m][Head(todo[m])]
      BY DEF Transition
    <3>2. Head(todo[m]) \in socks[m]
      BY <1>0, <3>1, Tailed DEF Asking
    <3> QED
      BY <3>1, <3>2 DEF Found, InAgreement
  <2>2. \/ NoNotice(m) \/ WifiPoll(m) \/ WifiNotDue(m) \/ NoTransition(m)
        \/ ReportDone(m) \/ PassDone(m)
    BY <1>0, <1>3, <2>1 DEF ModuleStep, Start, OpenFails, Refused, Register, Requery, Serve,
       Merge, BlePoll, CoreRefresh, CoreRefreshed
  <2>3. /\ pc'[m] \in Run /\ requests' = requests /\ notices' = notices
        /\ online' = online /\ socks' = socks /\ registry' = registry
    BY <1>0, <2>2 DEF NoNotice, WifiPoll, WifiNotDue, NoTransition, ReportDone, PassDone, Domains
  <2> QED
    BY <1>2, <2>3
<1>4. ASSUME NEW n \in Modules, n # m, ModuleStep(n) PROVE InAgreement(m)'
  <2>1. Same(m) /\ registry' = registry
    BY <1>0, <1>4, ModuleFrame
  <2> QED
    BY <1>0, <1>2, <2>1 DEF Same
<1>5. ASSUME NEW n \in Modules, ServiceStep(n) PROVE InAgreement(m)'
  <2>1. n # m
    BY <1>0, <1>5 DEF ServiceStep, handle_request
  <2>2. UNCHANGED <<pc, online, socks>>
    BY <1>5 DEF ServiceStep, modvars
  <2> QED
    BY <1>0, <1>1, <1>2, <1>5, <2>1, <2>2, ServiceApart
<1>6. ASSUME NEW n \in Modules, ClientTimeout(n) PROVE InAgreement(m)'
  <2>1. n # m
    BY <1>0, <1>6, NoElements DEF ClientTimeout, Timeout, Waiting
  <2>2. /\ UNCHANGED <<pc, online, socks, registry, notices>>
        /\ requests'[m] = requests[m]
    BY <1>0, <1>6, <2>1 DEF ClientTimeout, Timeout, modvars, Domains
  <2> QED
    BY <1>0, <1>2, <2>2
<1>7. ASSUME NEW d \in Devices, LinkChanges(d) PROVE InAgreement(m)'
  BY <1>0, <1>2, <1>7 DEF LinkChanges, dmvars, modvars
<1> QED
  BY <1>3, <1>4, <1>5, <1>6, <1>7 DEF Next

(* wifi.c: for every profile and set of modules, a WiFi module that has    *)
(* come to agree with its devices stays so until one comes or goes.        *)
THEOREM AgreementStays == Spec => AgreementKept
<1> DEFINE Step ==
      UNCHANGED link =>
        \A m \in Modules \ (Ble \cup Core) : InAgreement(m) => InAgreement(m)'
<1>1. Init => WifiTodo
  BY DEF Init, WifiTodo, Asking
<1>2. Spec => []WifiTodo
  BY <1>1, WifiTodoStep, HanInvariance, PTL DEF Spec
<1>3. HanInv /\ WifiTodo /\ [Next]_vars => [Step]_vars
  BY AgreementStep
<1> QED
  BY <1>2, <1>3, HanInvariance, PTL DEF Spec, AgreementKept
===============================================================================
