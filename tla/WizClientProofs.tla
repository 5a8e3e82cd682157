----------------------------- MODULE WizClientProofs -----------------------------
(***************************************************************************)
(* Proofs about WizClient, for every number of attempts and of datagrams   *)
(* on their way, every set of operations and every firmware.               *)
(*                                                                         *)
(* The two properties are about calls that begin while nothing is on its   *)
(* way.  What makes them hold is that from then on only the call's own     *)
(* requests reach the bulb, so that every answer in the network or the     *)
(* socket was given to this call; the socket itself may hold older ones,   *)
(* until the first attempt has drained it.  It drains all of it unless the *)
(* bulb sends datagrams of length zero, which the properties exclude.      *)
(***************************************************************************)
EXTENDS WizClient, NaturalsInduction, WellFoundedInduction, TLAPS

(* What may be called, sent and stored. *)
AllCalls    == UNION {{Calls(op)[k] : k \in 1 .. Len(Calls(op))} : op \in Ops}
Req(c)      == [method |-> c.method, params |-> c.params]
AllRequests == {Req(c) : c \in AllCalls}
Given(p) == {p[f] : f \in DOMAIN p}
Values ==
  {Factory[f] : f \in Fields}
  \cup (UNION {Given(t) : t \in Touches})
  \cup (UNION {Given(q.params) : q \in AllRequests})
Settings  == [Fields -> Values]
Report(b, F) == [f \in F |-> b[f]]
Datagrams ==
  [method : {"setPilot"} \cup Strays, body : {<<>>}]
  \cup [method : {"getPilot"}, body : {Report(b, F) : b \in Settings, F \in Reports}]

Types ==
  /\ bulb \in Settings
  /\ to_bulb \in Seq(AllRequests) /\ Len(to_bulb) <= NetMax
  /\ to_client \in Seq(Datagrams) /\ Len(to_client) <= NetMax
  /\ inbox \in Seq(Datagrams) /\ Len(inbox) <= NetMax
  /\ pc \in {"idle", "send", "recv"}
  /\ script \in Seq(AllCalls) /\ (pc = "idle" <=> script = <<>>)
  /\ attempt \in 0 .. Attempts /\ (attempt = 0 <=> pc = "idle")
  /\ ignored \in 0 .. MaxIgnored
  /\ quiet \in BOOLEAN /\ (pc = "idle" => ~quiet)

(* A datagram that is the call's answer, given what the bulb executed and  *)
(* what its settings were; or nobody's.                                    *)
Mine(d, call, done, past) ==
  /\ d.method = "setPilot" => call.method = "setPilot" /\ call.params \in done
  /\ d.method = "getPilot" => \E b \in past : \E F \in Reports : d.body = Report(b, F)

Draining == pc = "send" /\ attempt = 1

(* drop_stale() never meets a datagram that ends its loop. *)
Sure == quiet /\ Blank \notin Strays

Current == Sure =>
  /\ bulb \in seen
  /\ Draining => to_bulb = <<>>
  /\ \A k \in 1 .. Len(to_bulb) : to_bulb[k] = Req(script[1])
  /\ \A k \in 1 .. Len(to_client) : Mine(to_client[k], script[1], applied, seen)
  /\ ~Draining => \A k \in 1 .. Len(inbox) : Mine(inbox[k], script[1], applied, seen)

WizInv == Types /\ Current

-----------------------------------------------------------------------------
(* Sequences *)

LEMMA Appended ==
  ASSUME NEW S, NEW s \in Seq(S), NEW x \in S
  PROVE  /\ Append(s, x) \in Seq(S)
         /\ Len(s) \in Nat /\ Len(Append(s, x)) = Len(s) + 1
         /\ \A k \in 1 .. Len(s) + 1 : Append(s, x)[k] = IF k \in 1 .. Len(s) THEN s[k] ELSE x
OBVIOUS

LEMMA Tailed ==
  ASSUME NEW S, NEW s \in Seq(S), s # <<>>
  PROVE  /\ Tail(s) \in Seq(S)
         /\ Len(Tail(s)) = Len(s) - 1 /\ Len(s) \in Nat \ {0}
         /\ Head(s) = s[1] /\ Head(s) \in S
         /\ \A k \in 1 .. Len(s) - 1 : Tail(s)[k] = s[k + 1]
         /\ Tail(s) = <<>> <=> Len(s) = 1
<1>1. Len(s) \in Nat \ {0}
  OBVIOUS
<1>2. Tail(s) \in Seq(S) /\ Len(Tail(s)) = Len(s) - 1
  BY <1>1
<1>3. Head(s) = s[1] /\ Head(s) \in S
  BY <1>1
<1>4. \A k \in 1 .. Len(s) - 1 : Tail(s)[k] = s[k + 1]
  BY <1>1
<1>5. \A t \in Seq(S) : t = <<>> <=> Len(t) = 0
  OBVIOUS
<1> QED
  BY <1>1, <1>2, <1>3, <1>4, <1>5

LEMMA Emptied == \A S : <<>> \in Seq(S) /\ Len(<<>>) = 0
OBVIOUS

LEMMA FirstIn ==
  ASSUME NEW S, NEW s \in Seq(S), s # <<>>
  PROVE  Head(s) \in S /\ Head(s) = s[1] /\ 1 \in 1 .. Len(s)
<1>1. Len(s) \in Nat \ {0} /\ Head(s) = s[1] /\ Head(s) \in S
  BY Tailed
<1> QED
  BY <1>1

LEMMA TailFrom ==
  ASSUME NEW S, NEW s \in Seq(S), s # <<>>
  PROVE  \A k \in 1 .. Len(Tail(s)) : \E j \in 1 .. Len(s) : Tail(s)[k] = s[j]
<1>1. \A k \in 1 .. Len(s) - 1 : k + 1 \in 1 .. Len(s) /\ Tail(s)[k] = s[k + 1]
  BY Tailed
<1> QED
  BY <1>1, Tailed

(* A nonempty set of naturals has a least element. *)
LEMMA LeastNat ==
  ASSUME NEW T, T \subseteq Nat, T # {}
  PROVE  \E i \in T : \A j \in T : i <= j
<1>1. PICK i \in T : \A j \in T : ~(<<j, i>> \in OpToRel(<, Nat))
  BY WFMin, NatLessThanWellFounded, Zenon
<1>2. \A j \in T : j < i => <<j, i>> \in OpToRel(<, Nat)
  BY DEF OpToRel
<1>3. \A j \in T : ~(j < i)
  BY <1>1, <1>2, Zenon
<1> QED
  BY <1>3

LEMMA DatagramMethods == \A d \in Datagrams : d.method \in {"setPilot", "getPilot"} \cup Strays
BY DEF Datagrams

(* Every operation makes at least one call. *)
LEMMA CallsType ==
  ASSUME NEW op \in Ops
  PROVE  Calls(op) \in Seq(AllCalls) /\ Calls(op) # <<>>
<1>1. op[1] \in {"light", "level", "colour"} /\ op[2] \in {"PUT", "GET"}
  BY WizAssumption
<1>2. (\E a : Calls(op) = <<a>>) \/ (\E a, b : Calls(op) = <<a, b>>)
  BY <1>1 DEF Calls
<1>3. \A k \in 1 .. Len(Calls(op)) : Calls(op)[k] \in AllCalls
  BY DEF AllCalls
<1>4. CASE \E a : Calls(op) = <<a>>
  <2>1. PICK a : Calls(op) = <<a>>
    BY <1>4
  <2>2. a \in AllCalls
    BY <1>3, <2>1
  <2> QED
    BY <2>1, <2>2
<1>5. CASE \E a, b : Calls(op) = <<a, b>>
  <2>1. PICK a, b : Calls(op) = <<a, b>>
    BY <1>5
  <2>2. a \in AllCalls /\ b \in AllCalls
    BY <1>3, <2>1
  <2> QED
    BY <2>1, <2>2
<1> QED
  BY <1>2, <1>4, <1>5

-----------------------------------------------------------------------------
(* The steps *)

LEMMA InitInv == Init => WizInv
<1> SUFFICES ASSUME Init PROVE WizInv
  OBVIOUS
<1>1. bulb \in Settings
  <2>1. \A f \in Fields : Factory[f] \in Values
    BY DEF Values
  <2> QED
    BY <2>1, WizAssumption DEF Init, Settings
<1>2. Types
  <2>1. to_bulb \in Seq(AllRequests) /\ to_client \in Seq(Datagrams) /\ inbox \in Seq(Datagrams)
        /\ script \in Seq(AllCalls)
    BY Emptied DEF Init
  <2>2. Len(to_bulb) <= NetMax /\ Len(to_client) <= NetMax /\ Len(inbox) <= NetMax
    BY Emptied, WizAssumption DEF Init
  <2>3. attempt \in 0 .. Attempts /\ ignored \in 0 .. MaxIgnored
    BY WizAssumption DEF Init
  <2> QED
    BY <1>1, <2>1, <2>2, <2>3 DEF Init, Types
<1> QED
  BY <1>2 DEF WizInv, Current, Sure, Init

LEMMA StartInv ==
  ASSUME WizInv, NEW op \in Ops, Start(op)
  PROVE  WizInv'
<1>1. Types'
  BY CallsType, WizAssumption DEF WizInv, Types, Start, net, Quiet
<1>2. Current'
  <2> SUFFICES ASSUME Sure'
               PROVE  /\ bulb' \in seen'
                      /\ Draining' /\ to_bulb' = <<>> /\ to_client' = <<>>
    BY DEF Current, Sure
  <2> QED
    BY DEF Start, Quiet, net, Draining, Sure
<1> QED
  BY <1>1, <1>2 DEF WizInv

LEMMA ReturnInv ==
  ASSUME WizInv, pc # "idle", Return, inbox' \in Seq(Datagrams), Len(inbox') <= NetMax
  PROVE  WizInv'
<1>1. script \in Seq(AllCalls) /\ script # <<>>
  BY DEF WizInv, Types
<1>2. Tail(script) \in Seq(AllCalls) /\ (Tail(script) = <<>> <=> Len(script) = 1)
  BY <1>1, Tailed
<1>3. Types'
  <2>1. CASE Len(script) = 1
    <3>1. quiet' = FALSE /\ quiet' \in BOOLEAN /\ pc' = "idle" /\ attempt' = 0 /\ ignored' = 0 /\ script' = Tail(script)
      BY <2>1 DEF Return
    <3>2. 0 \in 0 .. Attempts /\ 0 \in 0 .. MaxIgnored
      BY WizAssumption
    <3>3. UNCHANGED <<bulb, to_bulb, to_client>>
      BY DEF Return, net
    <3> QED
      BY <1>2, <2>1, <3>1, <3>2, <3>3 DEF WizInv, Types
  <2>2. CASE Len(script) # 1
    <3>1. quiet' \in BOOLEAN
      BY <2>2 DEF Return, Quiet
    <3> QED
      BY <1>2, <2>2, <3>1, WizAssumption DEF WizInv, Types, Return, net
  <2> QED
    BY <2>1, <2>2
<1>4. Current'
  <2> SUFFICES ASSUME Sure'
               PROVE  /\ bulb' \in seen'
                      /\ Draining' /\ to_bulb' = <<>> /\ to_client' = <<>>
    BY DEF Current, Sure
  <2> QED
    BY DEF Return, Quiet, net, Draining, Sure
<1> QED
  BY <1>3, <1>4 DEF WizInv

(* drop_stale() *)
LEMMA Drained ==
  ASSUME WizInv
  PROVE  /\ drop_stale \in Seq(Datagrams) /\ Len(drop_stale) <= NetMax
         /\ attempt = 1 /\ Blank \notin Strays => drop_stale = <<>>
         /\ attempt # 1 => drop_stale = inbox
<1> DEFINE blanks == {k \in 1 .. Len(inbox) : inbox[k].method = Blank}
           first  == CHOOSE k \in blanks : \A j \in blanks : k <= j
<1>1. /\ inbox \in Seq(Datagrams) /\ Len(inbox) \in Nat /\ Len(inbox) <= NetMax
      /\ \A k \in 1 .. Len(inbox) : inbox[k] \in Datagrams
  BY DEF WizInv, Types
<1>2. CASE attempt # 1
  BY <1>1, <1>2 DEF drop_stale
<1>3. CASE attempt = 1 /\ blanks = {}
  <2>1. drop_stale = <<>>
    BY <1>3 DEF drop_stale
  <2> QED
    BY <1>3, <2>1, Emptied, WizAssumption
<1>4. CASE attempt = 1 /\ blanks # {}
  <2>1. blanks \subseteq Nat
    BY <1>1
  <2>2. \E k \in blanks : \A j \in blanks : k <= j
    BY <1>4, <2>1, LeastNat
  <2>3. first \in blanks
    BY <2>2
  <2>4. drop_stale = SubSeq(inbox, first + 1, Len(inbox))
    BY <1>4 DEF drop_stale
  <2>5. first \in 1 .. Len(inbox) /\ inbox[first].method = Blank
    BY <2>3
  <2> HIDE DEF first
  <2>6. /\ SubSeq(inbox, first + 1, Len(inbox)) \in Seq(Datagrams)
        /\ Len(SubSeq(inbox, first + 1, Len(inbox))) <= Len(inbox)
    BY <1>1, <2>5
  <2>7. Blank \in Strays
    <3>1. Blank \in {"setPilot", "getPilot"} \cup Strays
      BY <1>1, <2>5, DatagramMethods
    <3> QED
      BY <3>1 DEF Blank
  <2> QED
    BY <1>1, <1>4, <2>4, <2>6, <2>7, WizAssumption
<1> QED
  BY <1>2, <1>3, <1>4

LEMMA SendInv ==
  ASSUME WizInv, Send
  PROVE  WizInv'
<1>1. /\ Types /\ Current /\ pc = "send" /\ pc' = "recv"
      /\ UNCHANGED <<bulb, to_client, script, attempt, ignored, applied, seen, quiet>>
      /\ inbox' = drop_stale
      /\ to_bulb' = IF Len(to_bulb) < NetMax THEN Append(to_bulb, Req(script[1])) ELSE to_bulb
  BY DEF WizInv, Send, hist, Req
<1>2. script[1] \in AllCalls
  BY <1>1, Tailed DEF Types
<1>3. Req(script[1]) \in AllRequests
  BY <1>2 DEF AllRequests
<1>4. /\ to_bulb' \in Seq(AllRequests) /\ Len(to_bulb') <= NetMax
      /\ Len(to_bulb') \in Nat
      /\ \A k \in 1 .. Len(to_bulb') : to_bulb'[k] = Req(script[1]) \/ (k \in 1 .. Len(to_bulb) /\ to_bulb'[k] = to_bulb[k])
  <2>1. CASE Len(to_bulb) < NetMax
    <3>1. /\ Append(to_bulb, Req(script[1])) \in Seq(AllRequests)
          /\ Len(to_bulb) \in Nat /\ Len(Append(to_bulb, Req(script[1]))) = Len(to_bulb) + 1
          /\ \A k \in 1 .. Len(to_bulb) + 1 : Append(to_bulb, Req(script[1]))[k] = IF k \in 1 .. Len(to_bulb) THEN to_bulb[k] ELSE Req(script[1])
      BY <1>1, <1>3, Appended DEF Types
    <3>2. to_bulb' = Append(to_bulb, Req(script[1]))
      BY <1>1, <2>1
    <3> QED
      BY <2>1, <3>1, <3>2, WizAssumption
  <2>2. CASE ~(Len(to_bulb) < NetMax)
    BY <1>1, <2>2 DEF Types
  <2> QED
    BY <2>1, <2>2
<1>5. Types'
  BY <1>1, <1>4, Drained DEF Types
<1>6. Current'
  <2> SUFFICES ASSUME Sure PROVE Current'
    BY <1>1 DEF Current, Sure
  <2>2. \A k \in 1 .. Len(inbox') : Mine(inbox'[k], script[1], applied, seen)
    BY <1>1, Drained, Emptied DEF Current, Draining, Sure
  <2>3. \A k \in 1 .. Len(to_bulb') : to_bulb'[k] = Req(script[1])
    BY <1>1, <1>4 DEF Current, Sure
  <2> QED
    BY <1>1, <2>2, <2>3 DEF Current, Draining, Sure
<1> QED
  BY <1>5, <1>6 DEF WizInv

LEMMA ClientInv ==
  ASSUME WizInv, SendFails \/ ReceiveFails \/ Answer \/ Ignore \/ TimedOut
  PROVE  WizInv'
<1>1. Types /\ Current
  BY DEF WizInv
<1>3. inbox # <<>> => Tail(inbox) \in Seq(Datagrams) /\ Len(Tail(inbox)) <= NetMax
  BY <1>1, Tailed, WizAssumption DEF Types
<1>4. CASE SendFails
  BY <1>4, Drained, ReturnInv DEF SendFails
<1>5. CASE ReceiveFails
  BY <1>1, <1>5, ReturnInv DEF ReceiveFails, Types
<1>6. CASE Answer
  BY <1>3, <1>6, ReturnInv DEF Answer
<1>7. CASE Ignore
  <2>1. CASE ignored = MaxIgnored
    BY <1>3, <1>7, <2>1, ReturnInv DEF Ignore
  <2>2. CASE ignored # MaxIgnored
    <3>1. /\ pc = "recv" /\ inbox # <<>> /\ inbox' = Tail(inbox) /\ ignored' = ignored + 1
          /\ UNCHANGED <<bulb, to_bulb, to_client, pc, script, attempt, applied, seen, quiet>>
      BY <1>7, <2>2 DEF Ignore, net, hist
    <3>2. Types'
      BY <1>1, <1>3, <2>2, <3>1, WizAssumption DEF Types
    <3>3. Current'
      <4> SUFFICES ASSUME Sure PROVE Current'
        BY <3>1 DEF Current, Sure
      <4>2. \A k \in 1 .. Len(inbox) : Mine(inbox[k], script[1], applied, seen)
        BY <1>1, <3>1 DEF Current, Draining, Sure
      <4>3. \A k \in 1 .. Len(Tail(inbox)) : Mine(Tail(inbox)[k], script[1], applied, seen)
        BY <1>1, <3>1, <4>2, TailFrom DEF Types
      <4> QED
        BY <1>1, <3>1, <4>3 DEF Current, Draining, Sure
    <3> QED
      BY <3>2, <3>3 DEF WizInv
  <2> QED
    BY <2>1, <2>2
<1>8. CASE TimedOut
  <2>1. CASE attempt = Attempts
    BY <1>1, <1>8, <2>1, ReturnInv DEF TimedOut, Types
  <2>2. CASE attempt # Attempts
    <3>1. /\ pc = "recv" /\ pc' = "send" /\ attempt' = attempt + 1
          /\ UNCHANGED <<bulb, to_bulb, to_client, inbox, script, ignored, applied, seen, quiet>>
      BY <1>8, <2>2 DEF TimedOut, net, hist
    <3>2. Types' /\ attempt' # 1
      BY <1>1, <2>2, <3>1, WizAssumption DEF Types
    <3>3. Current'
      <4> QED
        BY <1>1, <3>1, <3>2 DEF Current, Draining, Sure
    <3> QED
      BY <3>2, <3>3 DEF WizInv
  <2> QED
    BY <2>1, <2>2
<1> QED
  BY <1>4, <1>5, <1>6, <1>7, <1>8

-----------------------------------------------------------------------------
(* The network and the bulb *)

(* What the bulb sends is queued, or lost when too much is on its way. *)
LEMMA Sent ==
  ASSUME Types, NEW d \in Datagrams, BulbSends(d)
  PROVE  /\ to_client' \in Seq(Datagrams) /\ Len(to_client') <= NetMax
         /\ \A k \in 1 .. Len(to_client') :
              to_client'[k] = d \/ (k \in 1 .. Len(to_client) /\ to_client'[k] = to_client[k])
<1>1. CASE Len(to_client) < NetMax
  <2>1. /\ Append(to_client, d) \in Seq(Datagrams)
        /\ Len(to_client) \in Nat /\ Len(Append(to_client, d)) = Len(to_client) + 1
        /\ \A k \in 1 .. Len(to_client) + 1 :
             Append(to_client, d)[k] = IF k \in 1 .. Len(to_client) THEN to_client[k] ELSE d
    BY Appended DEF Types
  <2>2. to_client' = Append(to_client, d)
    BY <1>1 DEF BulbSends
  <2> QED
    BY <1>1, <2>1, <2>2, WizAssumption
<1>2. CASE ~(Len(to_client) < NetMax)
  BY <1>2 DEF BulbSends, Types
<1> QED
  BY <1>1, <1>2

LEMMA BecomesType ==
  ASSUME Types, NEW params, \A f \in DOMAIN params : params[f] \in Values, Becomes(params)
  PROVE  bulb' \in Settings
BY DEF Types, Settings, Becomes

(* What was this call's stays so while its history grows. *)
LEMMA MineStays ==
  ASSUME NEW d, NEW call, NEW done, NEW past, Mine(d, call, done, past),
         NEW more, NEW longer, done \subseteq more, past \subseteq longer
  PROVE  Mine(d, call, more, longer)
BY DEF Mine

LEMMA TakesInv ==
  ASSUME WizInv, BulbTakes
  PROVE  WizInv'
<1> DEFINE q == Head(to_bulb)
<1>1. /\ Types /\ Current /\ to_bulb # <<>> /\ to_bulb' = Tail(to_bulb)
      /\ UNCHANGED <<inbox, pc, script, attempt, ignored, quiet>>
  BY DEF WizInv, BulbTakes
<1>2. /\ q \in AllRequests /\ q = to_bulb[1] /\ 1 \in 1 .. Len(to_bulb)
      /\ Tail(to_bulb) \in Seq(AllRequests) /\ Len(Tail(to_bulb)) <= NetMax
      /\ \A k \in 1 .. Len(Tail(to_bulb)) : \E j \in 1 .. Len(to_bulb) : Tail(to_bulb)[k] = to_bulb[j]
  BY <1>1, Tailed, TailFrom, WizAssumption DEF Types
<1>3. \E d \in Datagrams :
        /\ BulbSends(d)
        /\ bulb' \in Settings
        /\ Sure => /\ bulb' \in seen' /\ seen \subseteq seen' /\ applied \subseteq applied'
                    /\ Mine(d, script'[1], applied', seen')
  <2>1. Sure => pc # "idle" /\ bulb \in seen /\ q = Req(script[1])
    BY <1>1, <1>2 DEF Types, Current, Sure
  <2>2. CASE q.method = "setPilot"
    <3>1. Datagram("setPilot", <<>>) \in Datagrams
      BY DEF Datagram, Datagrams
    <3>2. /\ BulbSends(Datagram("setPilot", <<>>)) /\ Becomes(q.params)
          /\ applied' = IF pc = "idle" THEN applied ELSE applied \cup {q.params}
      BY <2>2 DEF BulbTakes
    <3>3. \A f \in DOMAIN q.params : q.params[f] \in Values
      <4>1. \A f \in DOMAIN q.params : q.params[f] \in Given(q.params)
        BY DEF Given
      <4>2. Given(q.params) \in {Given(r.params) : r \in AllRequests}
        BY <1>2
      <4> QED
        <5> HIDE DEF q, Given
        <5>1. Given(q.params) \subseteq Values
          BY <4>2 DEF Values
        <5> QED
          BY <4>1, <5>1
    <3>4. bulb' \in Settings
      <4> HIDE DEF q
      <4> QED
        BY <1>1, <3>2, <3>3, BecomesType
    <3>5. Sure => seen' = seen \cup {bulb'} /\ applied' = applied \cup {q.params}
      BY <2>1, <3>2 DEF Becomes
    <3>6. Sure => Mine(Datagram("setPilot", <<>>), script'[1], applied', seen')
      <4> SUFFICES ASSUME Sure PROVE Mine(Datagram("setPilot", <<>>), script'[1], applied', seen')
        OBVIOUS
      <4>1. script'[1].method = "setPilot" /\ script'[1].params \in applied'
        BY <1>1, <2>1, <2>2, <3>5 DEF Req
      <4> QED
        BY <4>1 DEF Mine, Datagram
    <3> QED
      BY <3>1, <3>2, <3>4, <3>5, <3>6
  <2>3. CASE q.method # "setPilot"
    <3>1. PICK F \in Reports : BulbSends(Datagram("getPilot", Report(bulb, F)))
      BY <2>3 DEF BulbTakes, Report
    <3>2. UNCHANGED <<bulb, seen, applied>>
      BY <2>3 DEF BulbTakes
    <3>3. Datagram("getPilot", Report(bulb, F)) \in Datagrams
      BY <1>1 DEF Datagram, Datagrams, Types
    <3>4. Sure => Mine(Datagram("getPilot", Report(bulb, F)), script'[1], applied', seen')
      <4> SUFFICES ASSUME Sure PROVE Mine(Datagram("getPilot", Report(bulb, F)), script'[1], applied', seen')
        OBVIOUS
      <4>1. bulb \in seen'
        BY <2>1, <3>2
      <4> HIDE DEF Report
      <4> QED
        BY <4>1 DEF Mine, Datagram
    <3> QED
      BY <1>1, <2>1, <3>1, <3>2, <3>3, <3>4 DEF Types
  <2> QED
    BY <2>2, <2>3
<1>4. PICK d \in Datagrams :
        /\ BulbSends(d)
        /\ bulb' \in Settings
        /\ Sure => /\ bulb' \in seen' /\ seen \subseteq seen' /\ applied \subseteq applied'
                    /\ Mine(d, script'[1], applied', seen')
  BY <1>3
<1>5. /\ to_client' \in Seq(Datagrams) /\ Len(to_client') <= NetMax
      /\ \A k \in 1 .. Len(to_client') :
           to_client'[k] = d \/ (k \in 1 .. Len(to_client) /\ to_client'[k] = to_client[k])
  BY <1>1, <1>4, Sent
<1>6. Types'
  BY <1>1, <1>2, <1>4, <1>5 DEF Types
<1>7. Current'
  <2> SUFFICES ASSUME Sure PROVE Current'
    BY <1>1 DEF Current, Sure
  <2>1. ~Draining /\ ~Draining'
    BY <1>1 DEF Current, Draining, Sure
  <2>2. \A e : Mine(e, script[1], applied, seen) => Mine(e, script'[1], applied', seen')
    <3>1. script'[1] = script[1] /\ applied \subseteq applied' /\ seen \subseteq seen'
      BY <1>1, <1>4
    <3> QED
      BY <3>1, MineStays
  <2>3. \A k \in 1 .. Len(to_client') : Mine(to_client'[k], script'[1], applied', seen')
    BY <1>1, <1>4, <1>5, <2>2 DEF Current, Sure
  <2>4. \A k \in 1 .. Len(inbox') : Mine(inbox'[k], script'[1], applied', seen')
    BY <1>1, <2>1, <2>2 DEF Current, Sure
  <2>5. \A k \in 1 .. Len(to_bulb') : to_bulb'[k] = Req(script'[1])
    BY <1>1, <1>2 DEF Current, Sure
  <2> QED
    BY <1>4, <2>1, <2>3, <2>4, <2>5 DEF Current, Sure
<1> QED
  BY <1>6, <1>7 DEF WizInv

LEMMA NetworkInv ==
  ASSUME WizInv, \/ LoseRequest \/ LoseAnswer \/ Arrive \/ (\E m \in Strays : Notify(m)) \/ UNCHANGED vars
  PROVE  WizInv'
<1>1. /\ Types /\ Current
      /\ UNCHANGED <<bulb, pc, script, attempt, ignored, applied, seen, quiet>>
  BY DEF WizInv, LoseRequest, LoseAnswer, Arrive, Notify, vars, hist
<1>3. /\ to_bulb # <<>> => /\ Tail(to_bulb) \in Seq(AllRequests) /\ Len(Tail(to_bulb)) <= NetMax
                           /\ \A k \in 1 .. Len(Tail(to_bulb)) : \E j \in 1 .. Len(to_bulb) : Tail(to_bulb)[k] = to_bulb[j]
      /\ to_client # <<>> => /\ Tail(to_client) \in Seq(Datagrams) /\ Len(Tail(to_client)) <= NetMax
                             /\ Head(to_client) = to_client[1] /\ 1 \in 1 .. Len(to_client) /\ Head(to_client) \in Datagrams
                             /\ \A k \in 1 .. Len(Tail(to_client)) : \E j \in 1 .. Len(to_client) : Tail(to_client)[k] = to_client[j]
  BY <1>1, Tailed, TailFrom, WizAssumption DEF Types
<1>4. CASE LoseRequest
  <2>1. to_bulb # <<>> /\ to_bulb' = Tail(to_bulb) /\ UNCHANGED <<to_client, inbox>>
    BY <1>4 DEF LoseRequest
  <2>2. Types'
    BY <1>1, <1>3, <2>1 DEF Types
  <2>3. Current'
    BY <1>1, <1>3, <2>1 DEF Current, Draining, Sure
  <2> QED
    BY <2>2, <2>3 DEF WizInv
<1>5. CASE LoseAnswer
  <2>1. to_client # <<>> /\ to_client' = Tail(to_client) /\ UNCHANGED <<to_bulb, inbox>>
    BY <1>5 DEF LoseAnswer
  <2>2. Types'
    BY <1>1, <1>3, <2>1 DEF Types
  <2>3. Current'
    BY <1>1, <1>3, <2>1 DEF Current, Draining, Sure
  <2> QED
    BY <2>2, <2>3 DEF WizInv
<1>6. CASE Arrive
  <2>1. /\ to_client # <<>> /\ to_client' = Tail(to_client) /\ UNCHANGED to_bulb
        /\ Len(inbox) < NetMax /\ inbox' = Append(inbox, Head(to_client))
    BY <1>6 DEF Arrive
  <2>2. /\ Append(inbox, Head(to_client)) \in Seq(Datagrams)
        /\ Len(inbox) \in Nat /\ Len(Append(inbox, Head(to_client))) = Len(inbox) + 1
        /\ \A k \in 1 .. Len(inbox) + 1 :
             Append(inbox, Head(to_client))[k] = IF k \in 1 .. Len(inbox) THEN inbox[k] ELSE Head(to_client)
    BY <1>1, <1>3, <2>1, Appended DEF Types
  <2>3. Len(Append(inbox, Head(to_client))) <= NetMax
    BY <2>1, <2>2, WizAssumption
  <2>4. Types'
    BY <1>1, <1>3, <2>1, <2>2, <2>3 DEF Types
  <2>5. Current'
    <3> SUFFICES ASSUME Sure PROVE Current'
      BY <1>1 DEF Current, Sure
    <3>1. Mine(Head(to_client), script[1], applied, seen)
      BY <1>1, <1>3, <2>1 DEF Current, Sure
    <3>2. \A k \in 1 .. Len(to_client') : Mine(to_client'[k], script[1], applied, seen)
      BY <1>1, <1>3, <2>1 DEF Current, Sure
    <3>3. ~Draining => \A k \in 1 .. Len(inbox') : Mine(inbox'[k], script[1], applied, seen)
      BY <1>1, <2>1, <2>2, <3>1 DEF Current, Sure
    <3> QED
      BY <1>1, <2>1, <3>2, <3>3 DEF Current, Draining, Sure
  <2> QED
    BY <2>4, <2>5 DEF WizInv
<1>7. CASE \E m \in Strays : Notify(m)
  <2>1. PICK m \in Strays : Notify(m)
    BY <1>7
  <2> DEFINE d == Datagram(m, <<>>)
  <2>2. d \in Datagrams /\ d.method \notin {"setPilot", "getPilot"}
    BY WizAssumption DEF Datagram, Datagrams
  <2>3. BulbSends(d) /\ UNCHANGED <<to_bulb, inbox>>
    BY <2>1 DEF Notify
  <2> HIDE DEF d
  <2>4. /\ to_client' \in Seq(Datagrams) /\ Len(to_client') <= NetMax
        /\ \A k \in 1 .. Len(to_client') :
             to_client'[k] = d \/ (k \in 1 .. Len(to_client) /\ to_client'[k] = to_client[k])
    BY <1>1, <2>2, <2>3, Sent
  <2>5. Types'
    BY <1>1, <2>3, <2>4 DEF Types
  <2>6. Mine(d, script[1], applied, seen)
    BY <2>2 DEF Mine
  <2>7. Current'
    BY <1>1, <2>3, <2>4, <2>6 DEF Current, Draining, Sure
  <2> QED
    BY <2>5, <2>7 DEF WizInv
<1>8. CASE UNCHANGED vars
  <2>1. UNCHANGED <<to_bulb, to_client, inbox>>
    BY <1>8 DEF vars, net
  <2> QED
    BY <1>1, <2>1 DEF WizInv, Types, Current, Draining, Sure
<1> QED
  BY <1>4, <1>5, <1>6, <1>7, <1>8

LEMMA TouchInv ==
  ASSUME WizInv, NEW t \in Touches, Touch(t)
  PROVE  WizInv'
<1>1. /\ Types /\ Current /\ Becomes(t)
      /\ UNCHANGED <<to_bulb, to_client, inbox, pc, script, attempt, ignored, applied, quiet>>
  BY DEF WizInv, Touch, net
<1>2. bulb' \in Settings
  <2>1. \A f \in DOMAIN t : t[f] \in Values
    <3>1. \A f \in DOMAIN t : t[f] \in Given(t)
      BY DEF Given
    <3>2. Given(t) \in {Given(u) : u \in Touches}
      OBVIOUS
    <3> QED
      BY <3>1, <3>2 DEF Values
  <2> QED
    BY <1>1, <2>1, BecomesType
<1>3. Types'
  BY <1>1, <1>2 DEF Types
<1>4. Current'
  <2> SUFFICES ASSUME Sure PROVE Current'
    BY <1>1 DEF Current, Sure
  <2>1. seen' = seen \cup {bulb'}
    BY <1>1 DEF Types, Becomes, Sure
  <2>2. \A d : Mine(d, script[1], applied, seen) => Mine(d, script'[1], applied', seen')
    <3>1. script'[1] = script[1] /\ applied \subseteq applied' /\ seen \subseteq seen'
      BY <1>1, <2>1
    <3> QED
      BY <3>1, MineStays
  <2> QED
    BY <1>1, <2>1, <2>2 DEF Current, Draining, Sure
<1> QED
  BY <1>3, <1>4 DEF WizInv

LEMMA WizInvStep == WizInv /\ [Next]_vars => WizInv'
BY StartInv, SendInv, ClientInv, TakesInv, NetworkInv, TouchInv DEF Next, Client, Environment

LEMMA WizInvariance == Spec => []WizInv
BY InitInv, WizInvStep, PTL DEF Spec

-----------------------------------------------------------------------------
(* wiz_send_recv() never tries more often, skips more datagrams or runs    *)
(* outside a call than it allows itself.                                   *)
THEOREM WizTypeCorrect == Spec => []TypeOK
<1>1. WizInv => TypeOK
  BY DEF WizInv, Types, TypeOK, Settings
<1> QED
  BY <1>1, WizInvariance, PTL

(* read_object(): the value a getter returns is one the bulb had during    *)
(* the call, unparsable datagrams, resends and other controllers included, *)
(* provided nothing was on its way when the call began and the bulb sends  *)
(* no datagram of length zero: drop_stale() stops at one.                  *)
THEOREM ReadCurrent == ASSUME Blank \notin Strays PROVE Spec => ReadIsCurrent
<1> DEFINE Val == Value(script[1], Head(inbox).body)
           Step == Got /\ quiet /\ Val # None =>
                     \E b \in seen : \E F \in Reports : Val = Value(script[1], [f \in F |-> b[f]])
<1>1. ASSUME WizInv, Got, quiet, Val # None
      PROVE  \E b \in seen : \E F \in Reports : Val = Value(script[1], [f \in F |-> b[f]])
  <2> DEFINE d == Head(inbox)
  <2>1. /\ Types /\ Current /\ inbox # <<>> /\ ~Draining /\ d.method \in {"", Blank, "getPilot"}
        /\ script[1].method = "getPilot"
    BY <1>1 DEF WizInv, Got, Answer, reply_is_answer, Draining
  <2>2. d \in Datagrams /\ Mine(d, script[1], applied, seen)
    <3>0. inbox \in Seq(Datagrams)
      BY <2>1 DEF Types
    <3>1. d \in Datagrams /\ d = inbox[1] /\ 1 \in 1 .. Len(inbox)
      BY <2>1, <3>0, FirstIn
    <3> QED
      BY <1>1, <2>1, <3>1 DEF Current, Sure
  <2> HIDE DEF d
  <2>3. CASE d.method = "getPilot"
    <3>1. PICK b \in seen, F \in Reports : d.body = Report(b, F)
      BY <2>2, <2>3 DEF Mine
    <3>2. Val = Value(script[1], [f \in F |-> b[f]])
      BY <3>1 DEF Report, d
    <3> QED
      BY <3>2
  <2>4. CASE d.method # "getPilot"
    <3>1. d.body = <<>>
      BY <2>2, <2>4 DEF Datagrams
    <3>2. \A x : x \notin DOMAIN <<>>
      OBVIOUS
    <3>3. Val = None
      BY <2>1, <3>1, <3>2 DEF Value, d
    <3> QED
      BY <1>1, <3>3
  <2> QED
    BY <2>3, <2>4
<1>2. WizInv => Step
  BY <1>1
<1>3. WizInv /\ [Next]_vars => [Step]_vars
  BY <1>2
<1> QED
  BY <1>3, WizInvariance, PTL DEF Spec, ReadIsCurrent

(* write_object(): the bulb has executed what a setter reports as done,    *)
(* provided nothing was on its way when the call began and the bulb sends  *)
(* nothing that cannot be classified: reply_is_answer() accepts such a     *)
(* datagram as the acknowledgement.                                        *)
THEOREM AckSound == ASSUME {"", Blank} \cap Strays = {} PROVE Spec => AckedMeansApplied
<1> DEFINE Step == Acked /\ quiet => script[1].params \in applied
<1>1. ASSUME WizInv, Acked, quiet
      PROVE  script[1].params \in applied
  <2> DEFINE d == Head(inbox)
  <2>1. /\ Types /\ Current /\ inbox # <<>> /\ ~Draining /\ d.method \in {"", Blank, "setPilot"}
        /\ script[1].method = "setPilot"
    BY <1>1 DEF WizInv, Acked, Answer, reply_is_answer, Draining
  <2>2. d \in Datagrams /\ Mine(d, script[1], applied, seen)
    <3>0. inbox \in Seq(Datagrams)
      BY <2>1 DEF Types
    <3>1. d \in Datagrams /\ d = inbox[1] /\ 1 \in 1 .. Len(inbox)
      BY <2>1, <3>0, FirstIn
    <3> QED
      BY <1>1, <2>1, <3>1 DEF Current, Sure
  <2> HIDE DEF d
  <2>3. d.method = "setPilot"
    <3>1. d.method \in {"setPilot", "getPilot"} \cup Strays
      BY <2>2, DatagramMethods, Zenon
    <3>2. d.method # "getPilot" /\ (d.method \in {"", Blank} => d.method \notin Strays)
      BY <2>1 DEF Blank
    <3> QED
      BY <2>1, <3>1, <3>2 DEF Blank
  <2> QED
    BY <2>1, <2>2, <2>3 DEF Mine
<1>2. WizInv => Step
  BY <1>1
<1>3. WizInv /\ [Next]_vars => [Step]_vars
  BY <1>2
<1> QED
  BY <1>3, WizInvariance, PTL DEF Spec, AckedMeansApplied

(* wiz_send_recv() gets on whatever the network does: for any number of    *)
(* attempts and of skipped datagrams, a call ends within 2 * Attempts +    *)
(* MaxIgnored of its own steps.                                            *)
THEOREM CallAdvances == Spec => CallProgress
<1> DEFINE Step ==
      pc # "idle" =>
        IF Client
        THEN \/ script' = Tail(script)
             \/ script' = script /\ Budget' \in 0 .. Budget - 1
        ELSE UNCHANGED <<pc, script, attempt, ignored>>
<1>1. ASSUME WizInv, Client
      PROVE  script' = Tail(script) \/ (script' = script /\ Budget' \in 0 .. Budget - 1)
  <2>0. /\ Attempts \in Nat /\ MaxIgnored \in Nat
        /\ attempt \in 0 .. Attempts /\ ignored \in 0 .. MaxIgnored
    BY <1>1, WizAssumption DEF WizInv, Types
  <2>1. CASE Return
    BY <2>1 DEF Return
  <2>2. CASE Send
    <3>1. pc = "send" /\ pc' = "recv" /\ UNCHANGED <<script, attempt, ignored>>
      BY <2>2 DEF Send, hist
    <3> QED
      BY <2>0, <3>1 DEF Budget
  <2>3. CASE Ignore /\ ~Return
    <3>1. /\ pc = "recv" /\ ignored # MaxIgnored /\ ignored' = ignored + 1
          /\ UNCHANGED <<pc, script, attempt>>
      BY <2>3 DEF Ignore, hist
    <3> QED
      BY <2>0, <3>1 DEF Budget
  <2>4. CASE TimedOut /\ ~Return
    <3>1. /\ pc = "recv" /\ pc' = "send" /\ attempt # Attempts /\ attempt' = attempt + 1
          /\ UNCHANGED <<script, ignored>>
      BY <2>4 DEF TimedOut, hist
    <3> QED
      BY <2>0, <3>1 DEF Budget
  <2> QED
    BY <1>1, <2>1, <2>2, <2>3, <2>4 DEF Client, SendFails, ReceiveFails, Answer
<1>2. ASSUME Next, pc # "idle", ~Client PROVE UNCHANGED <<pc, script, attempt, ignored>>
  BY <1>2 DEF Next, Start, Environment, BulbTakes, LoseRequest, LoseAnswer, Arrive, Notify, Touch
<1>3. WizInv /\ [Next]_vars => [Step]_vars
  BY <1>1, <1>2
<1> QED
  BY <1>3, WizInvariance, PTL DEF Spec, CallProgress
===============================================================================
