------------------------------ MODULE BindingMap ------------------------------
(***************************************************************************)
(* The binding map of a service module (src/bm/bm.c): the controller that  *)
(* subscribes to the sources an operation table reads, and the processor   *)
(* that takes reports into a value cache, evaluates the table's rows and   *)
(* sends the PUTs they describe.                                           *)
(*                                                                         *)
(* evaluate_op() and bm_evaluate_all() call each other.  The recursion is  *)
(* modelled step by step: pos is the row the innermost bm_evaluate_all()   *)
(* has reached (0 when none is running) and calls holds the evaluate_op()  *)
(* activations suspended below it, each still owing the PUT of its row,    *)
(* because the PUT is sent after the nested evaluation returns.            *)
(*                                                                         *)
(* Readings are doubles in the code and integers here, plus NaN, which     *)
(* compares different from every value and from itself.                    *)
(***************************************************************************)
EXTENDS Integers, Sequences

CONSTANTS
  Docs,       \* the documents bm_load_xml() may be given, as parsed rows
  MaxOps,     \* BM_MAX_OPS
  MaxInputs,  \* BM_MAX_INPUTS
  MaxAddrs,   \* BM_MAX_ADDRS
  GLimit,     \* least integer that does not fit the digits "%g" prints
  Messages,   \* the bus messages the processor may be handed
  Permits,    \* <<credential, address>> pairs the authorization hook grants
  Policies,   \* <<address, authorType>> pairs the policy may write
  HookSets,   \* which host hooks may be wired: subsets of {"app", "auth"}
  AppResults, \* results the app may compute for an 'ap' row
  NaN,        \* the not-a-number double
  None        \* absence: no output yet, no message yet, no result

Value   == Int \cup {NaN}
Dis     == 1 .. MaxAddrs
OpCodes == {"gt", "lt", "eq", "ad", "su", "mu", "dv", "no", "ap", "xx"}
Conds   == {"", "pt", "bk", "av", "ng"}
Authors == {"", "bk", "fl", "pa"}
ModTypes == {"hi", "wi", "sm", "it", "none"}

Input == [di : Nat, so : STRING, co : Conds, at : Authors, ap : {"", "pt", "bk", "au"}]
Param == [live : BOOLEAN, v : Int]
Output == [di : Nat, dest : STRING, ad : Conds, at : Authors]
Operation == [enabled : BOOLEAN, operation : OpCodes, code : STRING,
              inputs : Seq(Input), params : Seq(Param), out : Output]
Addr == [di : Nat, mt : ModTypes]
Datum == [code : STRING, v : Value]   \* code "" is a record without '='
Message == [verb : {"EVENT", "GET", "PUT", "SUBSCRIBE"}, path : STRING, di : Nat,
            payload : Seq(Datum), cred : STRING]

ASSUME LimitsAssumption ==
  /\ MaxOps \in Nat /\ MaxInputs \in Nat \ {0} /\ MaxAddrs \in Nat \ {0}
  /\ GLimit \in Nat \ {0}
  /\ NaN \notin Int /\ None \notin Int /\ None # NaN
  /\ AppResults \subseteq Value
  /\ None \notin Message

ASSUME InputAssumption ==
  /\ \A d \in Docs : d.ops \in Seq(Operation) /\ d.addrs \in Seq(Addr)
  /\ Messages \subseteq Message
  /\ \A p \in Policies : p[1] \in STRING /\ p[2] \in Authors
  /\ \A h \in HookSets : h \subseteq {"app", "auth"}

VARIABLES
  phase,          \* "load" -> "policy" -> "subscribe" -> "run": core_main's order
  ops,            \* the operation rows, in document order
  addrs,          \* the addressing rows, in document order
  at,             \* out_author_type of each row, written by bm_set_at()
  authz_disabled, \* bm_disable_authorization() was called
  hooks,          \* the host hooks wired into the map
  subs,           \* SUBSCRIBEs sent by the controller, in order
  cursor,         \* row and input the controller has reached
  value_cache,    \* last value seen per device index
  value_valid,    \* device indexes whose cache entry is meaningful
  last_operands,  \* per row: operands of the last evaluation (<<>>: none yet)
  last_output,    \* per row: last committed result (None: none yet)
  current_msg,    \* the message being processed
  pos,            \* row reached by the innermost bm_evaluate_all(); 0 when idle
  calls,          \* suspended evaluate_op() activations, innermost last
  out,            \* PUTs sent since the current message was taken
  told            \* per device index: payload of the last PUT sent to it

config == <<phase, ops, addrs, at, authz_disabled, hooks, subs, cursor>>
cache  == <<value_cache, value_valid>>
vars   == <<config, cache, last_operands, last_output, current_msg, pos, calls, out, told>>

Rows  == 1 .. Len(ops)
n_ops == Len(ops)

-----------------------------------------------------------------------------
(* Loading: rows, inputs and addressing rows beyond the limits are dropped. *)

Clip(s, n) == SubSeq(s, 1, IF Len(s) < n THEN Len(s) ELSE n)

parse_operation_table(r) ==
  [r EXCEPT !.inputs = Clip(@, MaxInputs), !.params = Clip(@, MaxInputs)]

parse_operation_tables(doc) ==
  LET kept == Clip(doc.ops, MaxOps)
  IN  [i \in 1 .. Len(kept) |-> parse_operation_table(kept[i])]

parse_addressing_tables(doc) == Clip(doc.addrs, MaxAddrs)

(* bm_find_addr(): the first addressing row of that device, None if absent. *)
bm_find_addr(di) ==
  IF \E i \in 1 .. Len(addrs) : addrs[i].di = di
  THEN addrs[CHOOSE i \in 1 .. Len(addrs) :
               /\ addrs[i].di = di
               /\ \A j \in 1 .. i - 1 : addrs[j].di # di].mt
  ELSE "none"

-----------------------------------------------------------------------------
(* Doubles: comparison and arithmetic with NaN. *)

(* Mutant: a zero counts as no value. *)
Same_nonzero(a, b) == a # NaN /\ a # 0 /\ a = b

Same(a, b) == a # NaN /\ a = b            \* the C '=='
Neg(v) == IF v = NaN THEN NaN ELSE -v
Less(a, b) == a # NaN /\ b # NaN /\ a < b
Quotient(a, b) == IF b > 0 THEN a \div b ELSE (-a) \div (-b)
Flag(test) == IF test THEN 1 ELSE 0
Arith(a, b, exact) == IF a = NaN \/ b = NaN THEN NaN ELSE exact

(* apply_operation(): the built-in operation set of 18012-3 Table 26. *)
apply_operation(code, a, b) ==
  CASE code = "gt" -> Flag(Less(b, a))
    [] code = "lt" -> Flag(Less(a, b))
    [] code = "eq" -> Flag(Same(a, b))
    [] code = "ad" -> Arith(a, b, a + b)
    [] code = "su" -> Arith(a, b, a - b)
    [] code = "mu" -> Arith(a, b, a * b)
    [] code = "dv" -> IF b = 0 THEN 0 ELSE Arith(a, b, Quotient(a, b))
    [] code = "no" -> Flag(a = 0)
    [] OTHER -> 0

(* apply_condition(), the codes other than 'bk': unknown codes pass through. *)
apply_condition(code, v) ==
  CASE code = "av" -> IF Less(v, 0) THEN Neg(v) ELSE v
    [] code = "ng" -> Neg(v)
    [] OTHER -> v

(* snprintf("%g"): GLimit = 10^6, six significant digits, halves to even. *)
Magnitude(v) == IF v < 0 THEN -v ELSE v
RoundTo(m, u) ==
  LET q == m \div u  r == 2 * (m % u)
  IN  u * (IF r > u \/ (r = u /\ q % 2 = 1) THEN q + 1 ELSE q)
Unit(m) ==    \* weight of the last digit printed of m, up to nine digits
  IF m < GLimit THEN 1
  ELSE IF m < 10 * GLimit THEN 10
  ELSE IF m < 100 * GLimit THEN 100
  ELSE 1000
FormatG(v) ==
  IF v = NaN THEN NaN
  ELSE LET m == RoundTo(Magnitude(v), Unit(Magnitude(v)))
       IN  IF v < 0 THEN -m ELSE m

(* bm_datum_value(): the first record named want; 0 if the payload is a    *)
(* table without it; the bare number if it is no table.                    *)
bm_datum_value(payload, want) ==
  LET At == {i \in 1 .. Len(payload) : payload[i].code = want}
  IN  IF At # {} THEN payload[CHOOSE i \in At : \A j \in At : i <= j].v
      ELSE IF \E i \in 1 .. Len(payload) : payload[i].code # "" THEN 0
      ELSE payload[1].v

-----------------------------------------------------------------------------
(* One row: readiness, operands, result, gates. *)

op_ready(op) ==
  /\ op.inputs # <<>>
  /\ \A j \in 1 .. Len(op.inputs) :
       /\ authz_disabled \/ op.inputs[j].at # "bk"
       /\ op.inputs[j].di \in value_valid

InputBlocked(op) == \E j \in 1 .. Len(op.inputs) : op.inputs[j].co = "bk"

Runnable(op) == op.enabled /\ op_ready(op) /\ ~InputBlocked(op)

Operands(op) ==
  [j \in 1 .. Len(op.inputs) |->
     apply_condition(op.inputs[j].co, value_cache[op.inputs[j].di])]

inputs_changed(last, operands) ==
  ~(/\ Len(last) = Len(operands)
    /\ \A j \in 1 .. Len(operands) : Same(last[j], operands[j]))

SecondOperand(op, operands) ==
  IF Len(operands) >= 2 THEN operands[2]
  ELSE IF Len(op.params) >= 2 /\ ~op.params[2].live THEN op.params[2].v
  ELSE 0

BuiltInResult(op, operands) ==
  apply_condition(op.out.ad,
    apply_operation(op.operation, operands[1], SecondOperand(op, operands)))

(* The adjusted results an evaluation may compute; None: the app has no     *)
(* bridge or could not perform the operation.                              *)
Results(op, operands) ==
  IF op.operation # "ap" THEN {BuiltInResult(op, operands)}
  ELSE IF "app" \in hooks THEN {apply_condition(op.out.ad, v) : v \in AppResults} \cup {None}
  ELSE {None}

op_requires_authorization(op) ==
  \E j \in 1 .. Len(op.inputs) : op.inputs[j].ap = "au"

output_authorized(r) ==
  \/ authz_disabled
  \/ /\ at[r] \notin {"bk", "pa"}
     /\ op_requires_authorization(ops[r]) =>
          /\ "auth" \in hooks
          /\ current_msg # None
          /\ <<current_msg.cred, ops[r].code>> \in Permits

(* Mutant: a row authorized once is not asked again. *)
Suppressed_once(r, result) ==
  \/ result = None
  \/ ops[r].out.ad = "bk"
  \/ last_output[r] # None /\ Same(result, last_output[r])
  \/ last_output[r] = None /\ ops[r].out.dest # "" /\ ~output_authorized(r)

(* The gates after the operation: adjustment, change detection on the      *)
(* output, authorization of a row that has a destination.                  *)
Suppressed(r, result) ==
  \/ result = None
  \/ ops[r].out.ad = "bk"
  \/ last_output[r] # None /\ Same(result, last_output[r])
  \/ ops[r].out.dest # "" /\ ~output_authorized(r)

-----------------------------------------------------------------------------
Init ==
  /\ phase = "load"
  /\ ops = <<>> /\ addrs = <<>>
  /\ at = [r \in Rows |-> ""]
  /\ authz_disabled = FALSE
  /\ hooks = {}
  /\ subs = <<>> /\ cursor = [i |-> 1, j |-> 1]
  /\ value_cache = [d \in Dis |-> 0]
  /\ value_valid = {}
  /\ last_operands = [r \in Rows |-> <<>>] /\ last_output = [r \in Rows |-> None]
  /\ current_msg = None
  /\ pos = 0 /\ calls = <<>>
  /\ out = <<>>
  /\ told = [d \in Dis |-> None]

(* bm_load_xml() on a readable document. *)
bm_load_xml(doc) ==
  /\ phase = "load"
  /\ phase' = "policy"
  /\ ops' = parse_operation_tables(doc)
  /\ addrs' = parse_addressing_tables(doc)
  /\ at' = [r \in 1 .. Len(ops') |-> ops'[r].out.at]
  /\ last_operands' = [r \in 1 .. Len(ops') |-> <<>>]
  /\ last_output' = [r \in 1 .. Len(ops') |-> None]
  /\ UNCHANGED <<authz_disabled, hooks, subs, cursor, cache, current_msg, pos, calls, out, told>>

(* bm_load_xml() returning -1: core_main continues with an empty map. *)
LoadFails ==
  /\ phase = "load"
  /\ phase' = "policy"
  /\ UNCHANGED <<ops, addrs, at, authz_disabled, hooks, subs, cursor, cache, last_operands,
                 last_output, current_msg, pos, calls, out, told>>

(* bm_disable_authorization(): --no-authz. *)
bm_disable_authorization ==
  /\ phase = "policy"
  /\ authz_disabled' = TRUE
  /\ UNCHANGED <<phase, ops, addrs, at, hooks, subs, cursor, cache, last_operands, last_output,
                 current_msg, pos, calls, out, told>>

(* bm_set_at(): only the first row carrying the address is written; an     *)
(* address no row carries changes nothing.                                 *)
FirstRowAt(address) ==
  {r \in Rows : ops[r].code = address /\ \A q \in 1 .. r - 1 : ops[q].code # address}

bm_set_at(address, value) ==
  /\ phase = "policy"
  /\ at' = [r \in Rows |-> IF r \in FirstRowAt(address) THEN value ELSE at[r]]
  /\ UNCHANGED <<phase, ops, addrs, authz_disabled, hooks, subs, cursor, cache, last_operands,
                 last_output, current_msg, pos, calls, out, told>>

-----------------------------------------------------------------------------
(* bm_controller_start(): the walk over every input of every enabled row,  *)
(* one input per step; cursor is the walk's loop indexes.                  *)

External(in) == in.so # "" /\ bm_find_addr(in.di) \in {"hi", "wi", "sm"}

bm_controller_start ==
  /\ phase = "policy"
  /\ phase' = "subscribe"
  /\ UNCHANGED <<ops, addrs, at, authz_disabled, hooks, subs, cursor, cache, last_operands,
                 last_output, current_msg, pos, calls, out, told>>

(* Mutant: subscriptions are told apart by path alone. *)
AlreadySent_path(key) == \E k \in 1 .. Len(Clip(subs, MaxAddrs)) : subs[k][1] = key[1]

(* sent[] has MaxAddrs entries: later SUBSCRIBEs are sent but not recorded. *)
AlreadySent(key) == \E k \in 1 .. Len(Clip(subs, MaxAddrs)) : subs[k] = key

SubscribeInput ==
  /\ phase = "subscribe"
  /\ cursor.i \in Rows /\ ops[cursor.i].enabled
  /\ cursor.j \in 1 .. Len(ops[cursor.i].inputs)
  /\ LET in  == ops[cursor.i].inputs[cursor.j]
         key == <<in.so, in.di>>
     IN  subs' = IF External(in) /\ ~AlreadySent(key) THEN Append(subs, key) ELSE subs
  /\ cursor' = [cursor EXCEPT !.j = @ + 1]
  /\ UNCHANGED <<phase, ops, addrs, at, authz_disabled, hooks, cache, last_operands, last_output,
                 current_msg, pos, calls, out, told>>

(* A disabled row must not cause a subscription. *)
SubscribeNextRow ==
  /\ phase = "subscribe"
  /\ cursor.i \in Rows
  /\ ops[cursor.i].enabled => cursor.j > Len(ops[cursor.i].inputs)
  /\ cursor' = [i |-> cursor.i + 1, j |-> 1]
  /\ UNCHANGED <<phase, ops, addrs, at, authz_disabled, hooks, subs, cache, last_operands,
                 last_output, current_msg, pos, calls, out, told>>

(* The walk is over; core_main wires the hooks and enters its loop. *)
EnterLoop(h) ==
  /\ phase = "subscribe"
  /\ cursor.i = n_ops + 1
  /\ phase' = "run"
  /\ hooks' = h
  /\ UNCHANGED <<ops, addrs, at, authz_disabled, subs, cursor, cache, last_operands, last_output,
                 current_msg, pos, calls, out, told>>

-----------------------------------------------------------------------------
(* bm_processor_handle() up to its call of bm_evaluate_all(). *)

Reports(m) == m.verb \in {"EVENT", "GET"} /\ m.payload # <<>>

Matches(in, m) == in.so # "" /\ in.so = m.path /\ (m.di = 0 \/ in.di = m.di)

(* Mutant: the device index is not checked against the cache. *)
Updated_unchecked(m) ==
  UNION {{ops[r].inputs[j].di : j \in {k \in 1 .. Len(ops[r].inputs) :
                                         Matches(ops[r].inputs[k], m)}} : r \in Rows}

(* The device indexes the message is attributed to, disabled rows included. *)
Updated(m) ==
  {d \in Dis : \E r \in Rows : \E j \in 1 .. Len(ops[r].inputs) :
      ops[r].inputs[j].di = d /\ Matches(ops[r].inputs[j], m)}

bm_processor_handle(m) ==
  /\ phase = "run" /\ pos = 0
  /\ out' = <<>>
  /\ IF Reports(m)
     THEN /\ current_msg' = m
          /\ value_cache' = [d \in Dis |-> IF d \in Updated(m) THEN bm_datum_value(m.payload, "va")
                                           ELSE value_cache[d]]
          /\ value_valid' = value_valid \cup Updated(m)
          /\ pos' = IF Updated(m) # {} THEN 1 ELSE 0
     ELSE UNCHANGED <<current_msg, cache, pos>>
  /\ UNCHANGED <<config, last_operands, last_output, calls, told>>

-----------------------------------------------------------------------------
(* evaluate_op() on the row at pos, and the loop of bm_evaluate_all(). *)

Put(r, result) == [row |-> r, di |-> ops[r].out.di, payload |-> FormatG(result)]

(* The end of evaluate_op(): a row with a destination sends its PUT. *)
SendPut(r, result) ==
  IF ops[r].out.dest # ""
  THEN /\ out' = Append(out, Put(r, result))
       /\ told' = [d \in Dis |-> IF d = ops[r].out.di THEN FormatG(result) ELSE told[d]]
  ELSE UNCHANGED <<out, told>>

AtRow == phase = "run" /\ pos \in Rows

RecordOperands == last_operands' = [last_operands EXCEPT ![pos] = Operands(ops[pos])]

(* Mutant: the row index is not advanced. *)
NextRow_stuck(r) == r

NextRow(r) == r + 1

(* A disabled, unready or blocked row is left alone. *)
SkipRow ==
  /\ AtRow
  /\ ~Runnable(ops[pos])
  /\ pos' = NextRow(pos)
  /\ UNCHANGED <<config, cache, last_operands, last_output, current_msg, calls, out, told>>

(* Same operands as last time: nothing to compute. *)
UnchangedRow ==
  /\ AtRow
  /\ Runnable(ops[pos])
  /\ ~inputs_changed(last_operands[pos], Operands(ops[pos]))
  /\ RecordOperands
  /\ pos' = NextRow(pos)
  /\ UNCHANGED <<config, cache, last_output, current_msg, calls, out, told>>

(* Mutant: the result is cached before the gates are asked. *)
SuppressRow_caches ==
  /\ AtRow
  /\ Runnable(ops[pos])
  /\ inputs_changed(last_operands[pos], Operands(ops[pos]))
  /\ \E result \in Results(ops[pos], Operands(ops[pos])) :
       /\ Suppressed(pos, result) /\ result # None
       /\ value_cache' = [d \in Dis |-> IF d = ops[pos].out.di THEN result ELSE value_cache[d]]
       /\ value_valid' = value_valid \cup ({ops[pos].out.di} \cap Dis)
  /\ RecordOperands
  /\ pos' = NextRow(pos)
  /\ UNCHANGED <<config, last_output, current_msg, calls, out, told>>

(* New operands, but no result, or one a gate holds back. *)
SuppressRow ==
  /\ AtRow
  /\ Runnable(ops[pos])
  /\ inputs_changed(last_operands[pos], Operands(ops[pos]))
  /\ \E result \in Results(ops[pos], Operands(ops[pos])) : Suppressed(pos, result)
  /\ RecordOperands
  /\ pos' = NextRow(pos)
  /\ UNCHANGED <<config, cache, last_output, current_msg, calls, out, told>>

(* Mutants: the table is not re-evaluated; the PUT is sent both before and *)
(* after the re-evaluation.                                                *)
Commit_once(result) ==
  /\ last_output' = [last_output EXCEPT ![pos] = result]
  /\ value_cache' = [d \in Dis |-> IF d = ops[pos].out.di THEN result ELSE value_cache[d]]
  /\ value_valid' = value_valid \cup ({ops[pos].out.di} \cap Dis)
  /\ SendPut(pos, result)
  /\ pos' = NextRow(pos)
  /\ UNCHANGED calls
Commit_twice(result) ==
  /\ last_output' = [last_output EXCEPT ![pos] = result]
  /\ value_cache' = [d \in Dis |-> IF d = ops[pos].out.di THEN result ELSE value_cache[d]]
  /\ value_valid' = value_valid \cup ({ops[pos].out.di} \cap Dis)
  /\ SendPut(pos, result)
  /\ calls' = Append(calls, [row |-> pos, result |-> result])
  /\ pos' = 1

(* The result is committed; a cached one re-evaluates the whole table      *)
(* before its PUT is sent.                                                 *)
Commit(result) ==
  /\ last_output' = [last_output EXCEPT ![pos] = result]
  /\ LET di == ops[pos].out.di
     IN  IF di \in Dis
         THEN /\ value_cache' = [value_cache EXCEPT ![di] = result]
              /\ value_valid' = value_valid \cup {di}
              /\ calls' = Append(calls, [row |-> pos, result |-> result])
              /\ pos' = 1
              /\ UNCHANGED <<out, told>>
         ELSE /\ SendPut(pos, result)
              /\ pos' = NextRow(pos)
              /\ UNCHANGED <<cache, calls>>

CommitRow ==
  /\ AtRow
  /\ Runnable(ops[pos])
  /\ inputs_changed(last_operands[pos], Operands(ops[pos]))
  /\ \E result \in Results(ops[pos], Operands(ops[pos])) :
       ~Suppressed(pos, result) /\ Commit(result)
  /\ RecordOperands
  /\ UNCHANGED <<config, current_msg>>

(* The nested bm_evaluate_all() returns into the evaluate_op() that called *)
(* it, which sends its PUT and returns into its own loop.                  *)
ReturnToRow ==
  /\ phase = "run" /\ pos = n_ops + 1
  /\ calls # <<>>
  /\ LET c == calls[Len(calls)]
     IN  SendPut(c.row, c.result) /\ pos' = NextRow(c.row)
  /\ calls' = SubSeq(calls, 1, Len(calls) - 1)
  /\ UNCHANGED <<config, cache, last_operands, last_output, current_msg>>

(* The outermost bm_evaluate_all() returns: the message is processed. *)
Finish ==
  /\ phase = "run" /\ pos = n_ops + 1
  /\ calls = <<>>
  /\ pos' = 0
  /\ UNCHANGED <<config, cache, last_operands, last_output, current_msg, calls, out, told>>

Step ==
  \/ SkipRow
  \/ UnchangedRow
  \/ SuppressRow
  \/ CommitRow
  \/ ReturnToRow
  \/ Finish

Boot ==
  \/ \E doc \in Docs : bm_load_xml(doc)
  \/ LoadFails
  \/ bm_disable_authorization
  \/ \E p \in Policies : bm_set_at(p[1], p[2])
  \/ bm_controller_start
  \/ SubscribeInput
  \/ SubscribeNextRow
  \/ \E h \in HookSets : EnterLoop(h)

Next == Boot \/ (\E m \in Messages : bm_processor_handle(m)) \/ Step

(* core_main is one thread: nothing else runs until the call returns, so   *)
(* a pending step of the evaluation is always taken.                       *)
Spec == Init /\ [][Next]_vars /\ WF_vars(Step)

-----------------------------------------------------------------------------
(* Properties *)

(* Every variable keeps its type; rows, inputs and cache indexes stay      *)
(* within the arrays of binding_map_t.                                     *)
TypeOK ==
  /\ phase \in {"load", "policy", "subscribe", "run"}
  /\ ops \in Seq(Operation) /\ addrs \in Seq(Addr)
  /\ at \in [Rows -> Authors]
  /\ authz_disabled \in BOOLEAN
  /\ hooks \subseteq {"app", "auth"}
  /\ subs \in Seq(STRING \X Nat) /\ cursor \in [i : 1 .. n_ops + 1, j : Nat \ {0}]
  /\ value_cache \in [Dis -> Value] /\ value_valid \subseteq Dis
  /\ last_operands \in [Rows -> Seq(Value)]
  /\ last_output \in [Rows -> Value \cup {None}]
  /\ current_msg \in Message \cup {None}
  /\ pos \in 0 .. n_ops + 1
  /\ calls \in Seq([row : Rows, result : Value])
  /\ out \in Seq([row : Rows, di : Nat, payload : Value])
  /\ told \in [Dis -> Value \cup {None}]

(* A row whose output no authorization gate can hold back. *)
Ungated(r) ==
  \/ ops[r].out.dest = ""
  \/ authz_disabled
  \/ at[r] \notin {"bk", "pa"} /\ ~op_requires_authorization(ops[r])

Idle == phase = "run" /\ pos = 0

(* Once a message is processed, every runnable built-in row whose output   *)
(* is not gated holds the result of its operation on the values cached     *)
(* now: no order of firing, chaining or change detection leaves a row      *)
(* computed from operands that are out of date (evaluate_op's operand      *)
(* recording against bm_evaluate_all's re-evaluation of the whole table).  *)
DataflowCorrect ==
  Idle => \A r \in Rows :
    (/\ Runnable(ops[r]) /\ ops[r].operation # "ap"
     /\ ops[r].out.ad # "bk" /\ Ungated(r))
    => last_output[r] = BuiltInResult(ops[r], Operands(ops[r]))

(* Every PUT sent while a message is processed, by rows fired deep in the  *)
(* recursion too, is one the authorization gates allow for that message.   *)
PutsAuthorized == \A k \in 1 .. Len(out) : output_authorized(out[k].row)

(* A device index no report feeds holds a value only because some row      *)
(* committed that very value as its output: a suppressed result leaves no  *)
(* trace in the value cache.                                               *)
Sourced(d) == \E r \in Rows : \E j \in 1 .. Len(ops[r].inputs) :
                ops[r].inputs[j].di = d /\ ops[r].inputs[j].so # ""
CachedOnlyIfCommitted ==
  \A d \in value_valid : ~Sourced(d) =>
    \E r \in Rows : ops[r].out.di = d /\ last_output[r] = value_cache[d]

(* Each device index has one producing row, which stands before its        *)
(* consumers: the order in which the repository's own tables are written.  *)
InOrder ==
  \A q, r \in Rows :
    /\ ops[q].out.di \in Dis /\ ops[q].out.di = ops[r].out.di => q = r
    /\ \A j \in 1 .. Len(ops[r].inputs) :
         ops[q].out.di \in Dis /\ ops[q].out.di = ops[r].inputs[j].di => q < r

(* Once a message is processed, a device of a table in order was last told *)
(* what the cache records for it, although the PUT leaves only after the   *)
(* recursion the cached value sets off.  (In a table out of order the row  *)
(* may fire again within that recursion, and its older PUT leave last.)    *)
DeviceAgreesWithCache ==
  InOrder /\ Idle =>
    \A d \in Dis : (told[d] # None /\ ~Sourced(d)) => told[d] = FormatG(value_cache[d])

(* A row of a table in order sends at most one PUT per message: no         *)
(* intermediate value of a chained input reaches the device.               *)
OnePutPerRow ==
  InOrder => \A j, k \in 1 .. Len(out) : out[j].row = out[k].row => j = k

(* Row q's output is an input of row r.  A table is acyclic when its rows  *)
(* can be ranked so that each feeds only rows of a higher rank, wherever   *)
(* they stand in the document and however many of them share a device.     *)
Feeds(q, r) ==
  /\ ops[q].out.di \in Dis
  /\ \E j \in 1 .. Len(ops[r].inputs) : ops[r].inputs[j].di = ops[q].out.di
Rankings ==
  {rank \in [Rows -> Rows] : \A q, r \in Rows :
     /\ rank[q] = rank[r] => q = r
     /\ Feeds(q, r) => rank[q] < rank[r]}
Acyclic == Rankings # {}

(* The number whose n binary digits are 1 at the positions in K, the first *)
(* one the most significant.                                               *)
Digits(K, n) ==
  LET V[k \in 0 .. n] == IF k = 0 THEN 0 ELSE 2 * V[k - 1] + Flag(k \in K) IN V
Binary(K, n) == Digits(K, n)[n]

(* What an evaluation has left to do: the rows with something new to read, *)
(* those of a low rank weighing more than all the rows they may feed.      *)
Due(r) == Runnable(ops[r]) /\ last_operands[r] # Operands(ops[r])
DueRanks(rank) == {k \in Rows : \E r \in Rows : rank[r] = k /\ Due(r)}
Work(rank) == Binary(DueRanks(rank), n_ops)
RowsLeft == IF pos = 0 THEN 0 ELSE n_ops + 2 - pos

(* Whatever the order of a table's rows, if it is acyclic every step of    *)
(* evaluate_op() and bm_evaluate_all() gets on: it takes work off, or      *)
(* leaves the work alone and returns from an activation, or leaves both    *)
(* alone and goes on to the next row.                                      *)
EvaluationProgress ==
  [][Step => \A rank \in Rankings :
       \/ Work(rank)' < Work(rank)
       \/ /\ Work(rank)' = Work(rank)
          /\ \/ Len(calls') < Len(calls)
             \/ Len(calls') = Len(calls) /\ RowsLeft' < RowsLeft]_vars

(* The recursion of an acyclic table is bounded: a row fires again only    *)
(* when a row of a lower rank changed an input of it, so fewer than        *)
(* 2^n_ops activations of evaluate_op() are ever suspended.                *)
RecursionBounded == Acyclic => Len(calls) <= Binary(Rows, n_ops)

(* When core_main enters its loop, every external source of an enabled row *)
(* has been subscribed to, and exactly once while sent[] has room.         *)
SourceOf(r, j) == <<ops[r].inputs[j].so, ops[r].inputs[j].di>>
Subscribable(r, j) == ops[r].enabled /\ External(ops[r].inputs[j])
SubscriptionsComplete ==
  phase = "run" =>
    /\ \A r \in Rows : \A j \in 1 .. Len(ops[r].inputs) :
         Subscribable(r, j) => \E k \in 1 .. Len(subs) : subs[k] = SourceOf(r, j)
    /\ \A k \in 1 .. Len(subs) : \E r \in Rows : \E j \in 1 .. Len(ops[r].inputs) :
         Subscribable(r, j) /\ subs[k] = SourceOf(r, j)
    /\ Len(subs) <= MaxAddrs =>
         \A j, k \in 1 .. Len(subs) : subs[j] = subs[k] => j = k

(* bm_evaluate_all() always returns: the core loop gets back to receiving. *)
EvaluationTerminates == (pos # 0) ~> (pos = 0)

(* What evaluate_op's comment says of a suppressed output: the next        *)
(* authorized report carrying the same value is not swallowed.  A row      *)
(* whose gate the current message opens, and which that message feeds,     *)
(* holds the result of its operation on the values cached now.             *)
AuthorizedNotSwallowed ==
  Idle /\ current_msg # None => \A r \in Rows :
    (/\ Runnable(ops[r]) /\ ops[r].operation # "ap" /\ ops[r].out.ad # "bk"
     /\ output_authorized(r)
     /\ \E j \in 1 .. Len(ops[r].inputs) : Matches(ops[r].inputs[j], current_msg))
    => last_output[r] = BuiltInResult(ops[r], Operands(ops[r]))
===============================================================================
