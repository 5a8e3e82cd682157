------------------------------- MODULE WizClient -------------------------------
(***************************************************************************)
(* The WiFi module's commands to a WiZ bulb: read_object() and             *)
(* write_object() of src/han/wifi/wifi.c over the UDP client               *)
(* src/han/wifi/wiz_client.c, the datagrams on their way, and the bulb.    *)
(*                                                                         *)
(* A datagram may be lost or late; one that another overtakes counts as    *)
(* lost or late.  An answer carries the method of its request and nothing  *)
(* else that tells one exchange from another.                              *)
(*                                                                         *)
(* The bulb's settings are a function from field to value: "state",        *)
(* "dimming", and "rgb" for the three colour channels together.            *)
(***************************************************************************)
EXTENDS Integers, Sequences

CONSTANTS
  Attempts,    \* WIZ_SEND_ATTEMPTS
  MaxIgnored,  \* WIZ_MAX_IGNORED_REPLIES
  NetMax,      \* bound: datagrams on their way in one direction
  Ops,         \* what the module asks of the client: <<path, verb, argument>>
  Factory,     \* the bulb's settings at the start
  Reports,     \* field sets a getPilot answer may carry (firmware dependent)
  Strays,      \* methods of datagrams the bulb sends unasked ("": no JSON; Blank)
  Touches,     \* settings other controllers may give the bulb
  None         \* no value

Fields == {"state", "dimming", "rgb"}
Blank == "blank"   \* a datagram of length zero

ASSUME WizAssumption ==
  /\ Attempts \in Nat \ {0} /\ MaxIgnored \in Nat
  /\ NetMax \in Nat \ {0}
  /\ Factory = [f \in Fields |-> Factory[f]]
  /\ \A op \in Ops : op[1] \in {"light", "level", "colour"} /\ op[2] \in {"PUT", "GET"}
  /\ \A F \in Reports : F \subseteq Fields
  /\ {"getPilot", "setPilot"} \cap Strays = {}
  /\ \A t \in Touches : DOMAIN t \subseteq Fields

VARIABLES
  bulb,      \* the bulb's settings
  to_bulb,   \* requests on their way
  to_client, \* answers and notifications on their way
  inbox,     \* datagrams in the client's socket
  pc,        \* "idle", "send" or "recv"
  script,    \* client calls left in the operation, the running one first
  attempt, ignored,   \* wiz_send_recv()'s counters
  applied,   \* history: parameters the bulb executed in this operation
  seen,      \* history: the bulb's settings since the running call began
  quiet      \* history: nothing was on its way when the running call began

net  == <<to_bulb, to_client>>
hist == <<applied, seen, quiet>>
vars == <<bulb, net, inbox, pc, script, attempt, ignored, hist>>

-----------------------------------------------------------------------------
(* The client's calls. *)

One(field, v) == [f \in {field} |-> v]
Set(params) == [method |-> "setPilot", params |-> params, field |-> "ack"]
Get(field)  == [method |-> "getPilot", params |-> <<>>, field |-> field]

Clamp(v, lo, hi) == IF v < lo THEN lo ELSE IF v > hi THEN hi ELSE v
Clamp255(c) == [i \in 1 .. 3 |-> Clamp(c[i], 0, 255)]
Peak(c) == CHOOSE v \in {c[1], c[2], c[3]} : \A i \in 1 .. 3 : c[i] <= v

wiz_client_set_state(on)      == Set(One("state", on))
wiz_client_set_rgb(c)         == Set(One("rgb", Clamp255(c)))
wiz_client_set_brightness(l)  == Set(One("dimming", Clamp(l, 10, 100)))

(* reply_field() and the getters: the value read, None if it is not there. *)
Value(call, body) ==
  IF call.method = "setPilot" THEN "ack"
  ELSE IF call.field \in DOMAIN body
       THEN IF call.field = "dimming" THEN Clamp(body["dimming"], 0, 100) ELSE body[call.field]
  ELSE IF call.field = "dimming" /\ "rgb" \in DOMAIN body
       THEN (Peak(body["rgb"]) * 100 + 127) \div 255
  ELSE None

(* payload_to_bool() *)
payload_to_bool(payload) == payload \in {"1", "on", "true"}

(* write_object() and read_object(): the calls an operation makes, in      *)
(* order.  Only the last one's result is returned.  The colour calls have  *)
(* no object path; they are the client's remaining interface.              *)
Calls(op) ==
  CASE op[1] = "light" /\ op[2] = "PUT" -> <<wiz_client_set_state(payload_to_bool(op[3]))>>
    [] op[1] = "level" /\ op[2] = "PUT" ->
         IF op[3] <= 0 THEN <<wiz_client_set_state(FALSE)>>
         ELSE <<wiz_client_set_state(TRUE), wiz_client_set_brightness(op[3])>>
    [] op[1] = "colour" /\ op[2] = "PUT" -> <<wiz_client_set_rgb(op[3])>>
    [] op[1] = "light" /\ op[2] = "GET" -> <<Get("state")>>
    [] op[1] = "level" /\ op[2] = "GET" -> <<Get("dimming")>>
    [] op[1] = "colour" /\ op[2] = "GET" -> <<Get("rgb")>>

-----------------------------------------------------------------------------
Init ==
  /\ bulb = Factory
  /\ to_bulb = <<>> /\ to_client = <<>> /\ inbox = <<>>
  /\ pc = "idle" /\ script = <<>>
  /\ attempt = 0 /\ ignored = 0
  /\ applied = {} /\ seen = {} /\ quiet = FALSE

Quiet == to_bulb = <<>> /\ to_client = <<>>

(* The module is handed a PUT or GET, or polls. *)
Start(op) ==
  /\ pc = "idle"
  /\ pc' = "send" /\ script' = Calls(op)
  /\ attempt' = 1 /\ ignored' = 0
  /\ applied' = {} /\ seen' = {bulb} /\ quiet' = Quiet
  /\ UNCHANGED <<bulb, net, inbox>>

(* Mutant: the socket is not drained. *)
drop_stale_none == inbox

(* drop_stale(): before the first attempt only.  The loop ends when        *)
(* recvfrom() returns 0, so what stands behind a Blank datagram stays.     *)
drop_stale ==
  LET blanks == {k \in 1 .. Len(inbox) : inbox[k].method = Blank}
      first  == CHOOSE k \in blanks : \A j \in blanks : k <= j
  IN  CASE attempt # 1 -> inbox
        [] attempt = 1 /\ blanks = {} -> <<>>
        [] attempt = 1 /\ blanks # {} -> SubSeq(inbox, first + 1, Len(inbox))

(* sendto().  A request beyond NetMax is lost on the way. *)
Send ==
  /\ pc = "send"
  /\ inbox' = drop_stale
  /\ to_bulb' = IF Len(to_bulb) < NetMax
                THEN Append(to_bulb, [method |-> script[1].method, params |-> script[1].params])
                ELSE to_bulb
  /\ pc' = "recv"
  /\ UNCHANGED <<bulb, to_client, script, attempt, ignored, hist>>

(* The call returns.  Whatever it returned, the next one of the operation  *)
(* follows: write_object() looks at the last result alone.                 *)
Return ==
  /\ script' = Tail(script)
  /\ IF Len(script) = 1
     THEN pc' = "idle" /\ attempt' = 0 /\ applied' = {} /\ seen' = {} /\ quiet' = FALSE
     ELSE pc' = "send" /\ attempt' = 1 /\ seen' = {bulb} /\ quiet' = Quiet /\ UNCHANGED applied
  /\ ignored' = 0
  /\ UNCHANGED <<bulb, net>>

(* A failed sendto(), after the draining, or a receive error. *)
SendFails ==
  /\ pc = "send"
  /\ inbox' = drop_stale
  /\ Return

ReceiveFails ==
  /\ pc = "recv"
  /\ Return
  /\ UNCHANGED inbox

(* Mutant: any datagram is the answer. *)
reply_is_answer_any(datagram, method) == TRUE

(* What cannot be classified is accepted. *)
reply_is_answer(datagram, method) == datagram.method \in {"", Blank, method}

(* The answer: a setter asks nothing more of it, a getter parses it and    *)
(* fails without its field.                                                *)
Answer ==
  /\ pc = "recv" /\ inbox # <<>>
  /\ reply_is_answer(Head(inbox), script[1].method)
  /\ inbox' = Tail(inbox)
  /\ Return

(* Mutant: unrelated datagrams are not counted. *)
Ignore_uncounted ==
  /\ pc = "recv" /\ inbox # <<>>
  /\ ~reply_is_answer(Head(inbox), script[1].method)
  /\ inbox' = Tail(inbox)
  /\ UNCHANGED <<bulb, net, pc, script, attempt, ignored, hist>>

(* Somebody else's datagram; one too many and the call fails. *)
Ignore ==
  /\ pc = "recv" /\ inbox # <<>>
  /\ ~reply_is_answer(Head(inbox), script[1].method)
  /\ inbox' = Tail(inbox)
  /\ IF ignored = MaxIgnored THEN Return
     ELSE /\ ignored' = ignored + 1
          /\ UNCHANGED <<bulb, net, pc, script, attempt, hist>>

(* Mutant: one attempt too many. *)
TimedOut_late ==
  /\ pc = "recv" /\ inbox = <<>>
  /\ IF attempt > Attempts THEN Return
     ELSE /\ pc' = "send" /\ attempt' = attempt + 1
          /\ UNCHANGED <<bulb, net, script, ignored, hist>>
  /\ UNCHANGED inbox

(* SO_RCVTIMEO: the request is sent again, or given up. *)
TimedOut ==
  /\ pc = "recv" /\ inbox = <<>>
  /\ IF attempt = Attempts THEN Return
     ELSE /\ pc' = "send" /\ attempt' = attempt + 1
          /\ UNCHANGED <<bulb, net, script, ignored, hist>>
  /\ UNCHANGED inbox

Client == Send \/ SendFails \/ ReceiveFails \/ Answer \/ Ignore \/ TimedOut

-----------------------------------------------------------------------------
(* The network and the bulb. *)

Datagram(method, body) == [method |-> method, body |-> body]

BulbSends(d) ==
  to_client' = IF Len(to_client) < NetMax THEN Append(to_client, d) ELSE to_client

Becomes(params) ==
  /\ bulb' = [f \in Fields |-> IF f \in DOMAIN params THEN params[f] ELSE bulb[f]]
  /\ seen' = IF pc = "idle" THEN seen ELSE seen \cup {bulb'}

(* The bulb executes a request and answers it. *)
BulbTakes ==
  /\ to_bulb # <<>>
  /\ to_bulb' = Tail(to_bulb)
  /\ LET q == Head(to_bulb)
     IN  IF q.method = "setPilot"
         THEN /\ Becomes(q.params)
              /\ applied' = IF pc = "idle" THEN applied ELSE applied \cup {q.params}
              /\ BulbSends(Datagram("setPilot", <<>>))
         ELSE /\ \E F \in Reports : BulbSends(Datagram("getPilot", [f \in F |-> bulb[f]]))
              /\ UNCHANGED <<bulb, seen, applied>>
  /\ UNCHANGED <<inbox, pc, script, attempt, ignored, quiet>>

LoseRequest ==
  /\ to_bulb # <<>>
  /\ to_bulb' = Tail(to_bulb)
  /\ UNCHANGED <<bulb, to_client, inbox, pc, script, attempt, ignored, hist>>

LoseAnswer ==
  /\ to_client # <<>>
  /\ to_client' = Tail(to_client)
  /\ UNCHANGED <<bulb, to_bulb, inbox, pc, script, attempt, ignored, hist>>

Arrive ==
  /\ to_client # <<>>
  /\ Len(inbox) < NetMax
  /\ to_client' = Tail(to_client)
  /\ inbox' = Append(inbox, Head(to_client))
  /\ UNCHANGED <<bulb, to_bulb, pc, script, attempt, ignored, hist>>

(* A notification nobody asked for. *)
Notify(method) ==
  /\ Len(to_client) < NetMax
  /\ BulbSends(Datagram(method, <<>>))
  /\ UNCHANGED <<bulb, to_bulb, inbox, pc, script, attempt, ignored, hist>>

(* Another controller, or the wall switch. *)
Touch(params) ==
  /\ Becomes(params)
  /\ UNCHANGED <<net, inbox, pc, script, attempt, ignored, applied, quiet>>

Environment ==
  \/ BulbTakes \/ LoseRequest \/ Arrive \/ LoseAnswer
  \/ \E m \in Strays : Notify(m)
  \/ \E t \in Touches : Touch(t)

Next == (\E op \in Ops : Start(op)) \/ Client \/ Environment

(* A receive returns at the latest when its timeout expires. *)
Spec == Init /\ [][Next]_vars /\ WF_vars(Client)

-----------------------------------------------------------------------------
(* Properties *)

(* The counters of wiz_send_recv() stay within the attempts and the        *)
(* unrelated answers it allows itself, and a call runs when it waits.      *)
TypeOK ==
  /\ DOMAIN bulb = Fields
  /\ pc \in {"idle", "send", "recv"}
  /\ pc = "idle" <=> script = <<>>
  /\ attempt \in 0 .. Attempts /\ (attempt = 0 <=> pc = "idle")
  /\ ignored \in 0 .. MaxIgnored
  /\ Len(to_bulb) <= NetMax /\ Len(to_client) <= NetMax /\ Len(inbox) <= NetMax

Acked == Answer /\ script[1].method = "setPilot"
Got   == Answer /\ script[1].method = "getPilot"

(* A set call that began while nothing was on its way, and reports         *)
(* success, has been executed by the bulb during the operation: draining   *)
(* the socket, matching the method and sending twice never turn an old     *)
(* acknowledgement or a notification into this one's.                      *)
AckedMeansApplied == [][Acked /\ quiet => script[1].params \in applied]_vars

(* A get call that began while nothing was on its way returns what the     *)
(* bulb's settings were at some moment of the call, or fails.              *)
ReadIsCurrent ==
  [][(Got /\ quiet /\ Value(script[1], Head(inbox).body) # None) =>
       \E b \in seen : \E F \in Reports :
         Value(script[1], Head(inbox).body) = Value(script[1], [f \in F |-> b[f]])]_vars

(* Every call returns, whatever the network and the bulb do: the module's  *)
(* loop gets back to its bus.                                              *)
CallsReturn == pc # "idle" ~> pc = "idle"

(* What is left of the running call: the attempts, each a sending and a    *)
(* waiting, and the datagrams it may still pass over.                      *)
Budget == 2 * (Attempts - attempt) + (MaxIgnored - ignored) + (IF pc = "send" THEN 1 ELSE 0)

(* Each step of wiz_send_recv()'s loop ends the call or uses up a part of  *)
(* its budget, which a datagram passed over never gives back, and nothing  *)
(* that arrives, is lost or is switched by others adds to it: a call takes *)
(* at most 2 * Attempts + MaxIgnored steps of its own.                     *)
CallProgress ==
  [][pc # "idle" =>
       IF Client
       THEN \/ script' = Tail(script)
            \/ script' = script /\ Budget' \in 0 .. Budget - 1
       ELSE UNCHANGED <<pc, script, attempt, ignored>>]_vars

(* What wiz_send_recv()'s comment says: it "waits for ITS reply".  A set   *)
(* call that reports success has been executed.                            *)
WaitsForItsReply == [][Acked => script[1].params \in applied]_vars
================================================================================
