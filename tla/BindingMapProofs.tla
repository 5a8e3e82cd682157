--------------------------- MODULE BindingMapProofs ---------------------------
(***************************************************************************)
(* Proofs about the binding map, for every table, message set and limit:   *)
(* type correctness; the inductive invariants behind DataflowCorrect,      *)
(* PutsAuthorized and CachedOnlyIfCommitted; the controller's walk behind  *)
(* SubscriptionsComplete.  For readings that are numbers: OnePutPerRow and *)
(* DeviceAgreesWithCache of tables in order; RecursionBounded and          *)
(* EvaluationProgress of acyclic ones, by a measure of the work left.      *)
(***************************************************************************)
EXTENDS BindingMap, WellFoundedInduction, TLAPS

(* What the loader keeps of a table is a prefix of it. *)
LEMMA ClipType ==
  ASSUME NEW S, NEW s \in Seq(S), NEW n \in Nat
  PROVE  /\ Clip(s, n) \in Seq(S)
         /\ Len(Clip(s, n)) \in Nat
         /\ Len(Clip(s, n)) <= Len(s)
         /\ \A i \in 1 .. Len(Clip(s, n)) : Clip(s, n)[i] = s[i]
  BY DEF Clip

(* Conditioning and the built-in operations stay within the doubles. *)
LEMMA ConditionType ==
  ASSUME NEW code, NEW v \in Value
  PROVE  apply_condition(code, v) \in Value
  BY LimitsAssumption DEF apply_condition, Value, Neg, Less

LEMMA OperationType ==
  ASSUME NEW code, NEW a \in Value, NEW b \in Value
  PROVE  apply_operation(code, a, b) \in Value
<1>1. a # NaN /\ b # NaN /\ b # 0 => Quotient(a, b) \in Int
  BY DEF Quotient, Value
<1>2. /\ \A p \in BOOLEAN : Flag(p) \in Value
      /\ \A x : (a # NaN /\ b # NaN => x \in Int) => Arith(a, b, x) \in Value
  BY DEF Flag, Arith, Value
<1>3. /\ Less(a, b) \in BOOLEAN /\ Less(b, a) \in BOOLEAN
      /\ Same(a, b) \in BOOLEAN /\ (a = 0) \in BOOLEAN
  BY DEF Less, Same
<1>4. 0 \in Value
  BY DEF Value
<1>5. a # NaN /\ b # NaN => a + b \in Int /\ a - b \in Int /\ a * b \in Int
  BY DEF Value
<1>6. /\ Arith(a, b, a + b) \in Value /\ Arith(a, b, a - b) \in Value
      /\ Arith(a, b, a * b) \in Value
      /\ (IF b = 0 THEN 0 ELSE Arith(a, b, Quotient(a, b))) \in Value
  BY <1>1, <1>2, <1>4, <1>5
<1>7. QED
  BY <1>2, <1>3, <1>4, <1>6 DEF apply_operation

(* The %g payload of a value is a value. *)
LEMMA FormatType ==
  ASSUME NEW v \in Value
  PROVE  FormatG(v) \in Value
<1>1. CASE v = NaN
  BY <1>1 DEF FormatG, Value
<1>2. CASE v # NaN
  <2>1. v \in Int
    BY <1>2 DEF Value
  <2>2. Magnitude(v) \in Nat
    BY <2>1 DEF Magnitude
  <2>3. Unit(Magnitude(v)) \in {1, 10, 100, 1000}
    BY Z3 DEF Unit
  <2>4. RoundTo(Magnitude(v), Unit(Magnitude(v))) \in Int
    BY <2>2, <2>3, Z3 DEF RoundTo
  <2>5. QED
    BY <1>2, <2>1, <2>4 DEF FormatG, Value
<1>3. QED
  BY <1>1, <1>2

(* A nonempty set of naturals has a least element. *)
LEMMA LeastNat ==
  ASSUME NEW T, T \subseteq Nat, T # {}
  PROVE  \E i \in T : \A j \in T : i <= j
<1>1. PICK i \in T : \A j \in T : ~(<<j, i>> \in OpToRel(<, Nat))
  BY WFMin, NatLessThanWellFounded, Zenon
<1>2. \A j \in T : j < i => <<j, i>> \in OpToRel(<, Nat)
  BY DEF OpToRel
<1>3. \A j \in T : ~(j < i)
  BY <1>1, <1>2, Zenon
<1>4. QED
  BY <1>3

(* The value read out of a payload that carries anything is a value. *)
LEMMA DatumType ==
  ASSUME NEW payload \in Seq(Datum), payload # <<>>, NEW want
  PROVE  bm_datum_value(payload, want) \in Value
<1> DEFINE At == {i \in 1 .. Len(payload) : payload[i].code = want}
<1>1. \A i \in 1 .. Len(payload) : payload[i].v \in Value
  <2>1. \A i \in 1 .. Len(payload) : payload[i] \in Datum
    OBVIOUS
  <2>2. \A d \in Datum : d.v \in Value
    BY DEF Datum
  <2>3. QED
    BY <2>1, <2>2
<1>2. 1 \in 1 .. Len(payload) /\ 0 \in Value
  BY DEF Value
<1>3. At # {} => (CHOOSE i \in At : \A j \in At : i <= j) \in 1 .. Len(payload)
  <2>1. At \subseteq Nat
    OBVIOUS
  <2>2. At # {} => \E i \in At : \A j \in At : i <= j
    BY <2>1, LeastNat
  <2>3. QED
    BY <2>2
<1>4. QED
  BY <1>1, <1>2, <1>3 DEF bm_datum_value

-----------------------------------------------------------------------------
(* Rows, operands and results of a well-typed map. *)

LEMMA RowType ==
  ASSUME TypeOK, NEW r \in Rows
  PROVE  /\ ops[r] \in Operation
         /\ ops[r].inputs \in Seq(Input)
         /\ ops[r].params \in Seq(Param)
         /\ ops[r].out \in Output
         /\ ops[r].out.di \in Nat
         /\ ops[r].out.at \in Authors
<1>1. ops[r] \in Operation
  BY DEF TypeOK, Rows
<1>2. \A op \in Operation : /\ op.inputs \in Seq(Input) /\ op.params \in Seq(Param)
                            /\ op.out \in Output
  BY DEF Operation
<1>3. \A o \in Output : o.di \in Nat /\ o.at \in Authors
  BY DEF Output
<1>4. QED
  BY <1>1, <1>2, <1>3

LEMMA OperandsType ==
  ASSUME TypeOK, NEW r \in Rows, Runnable(ops[r])
  PROVE  /\ Operands(ops[r]) \in Seq(Value)
         /\ Len(Operands(ops[r])) = Len(ops[r].inputs)
         /\ Operands(ops[r]) # <<>>
         /\ Operands(ops[r])[1] \in Value
<1> DEFINE ins == ops[r].inputs
<1>1. ins \in Seq(Input) /\ ins # <<>>
  BY RowType DEF Runnable, op_ready
<1>2. \A j \in 1 .. Len(ins) : value_cache[ins[j].di] \in Value
  BY <1>1 DEF Runnable, op_ready, TypeOK
<1>3. \A j \in 1 .. Len(ins) : apply_condition(ins[j].co, value_cache[ins[j].di]) \in Value
  BY <1>2, ConditionType
<1> HIDE DEF ins
<1>4. Operands(ops[r]) = [j \in 1 .. Len(ins) |->
                            apply_condition(ins[j].co, value_cache[ins[j].di])]
  BY DEF Operands, ins
<1>5. QED
  BY <1>1, <1>3, <1>4 DEF ins

LEMMA SecondOperandType ==
  ASSUME NEW op \in Operation, NEW operands \in Seq(Value)
  PROVE  SecondOperand(op, operands) \in Value
<1>1. op.params \in Seq(Param)
  BY DEF Operation
<1>2. \A q \in Param : q.v \in Value
  BY DEF Param, Value
<1>3. 0 \in Value
  BY DEF Value
<1>4. QED
  BY <1>1, <1>2, <1>3 DEF SecondOperand

LEMMA ResultsType ==
  ASSUME TypeOK, NEW r \in Rows, Runnable(ops[r]),
         NEW result \in Results(ops[r], Operands(ops[r]))
  PROVE  result \in Value \cup {None}
<1> DEFINE operands == Operands(ops[r])
<1>1. operands \in Seq(Value) /\ operands[1] \in Value
  BY OperandsType
<1>2. SecondOperand(ops[r], operands) \in Value
  BY <1>1, RowType, SecondOperandType
<1>3. BuiltInResult(ops[r], operands) \in Value
  BY <1>1, <1>2, OperationType, ConditionType DEF BuiltInResult
<1>4. \A v \in AppResults : apply_condition(ops[r].out.ad, v) \in Value
  BY LimitsAssumption, ConditionType
<1>5. QED
  BY <1>3, <1>4 DEF Results

-----------------------------------------------------------------------------
(* Type correctness, action by action. *)

LEMMA EmptyInSeq == \A S : <<>> \in Seq(S)
  OBVIOUS

LEMMA AppendType ==
  ASSUME NEW S, NEW s \in Seq(S), NEW x \in S
  PROVE  /\ Append(s, x) \in Seq(S)
         /\ \A k \in 1 .. Len(Append(s, x)) :
              (k \in 1 .. Len(s) /\ Append(s, x)[k] = s[k]) \/ Append(s, x)[k] = x
  OBVIOUS

LEMMA ElementType ==
  ASSUME NEW S, NEW s \in Seq(S), NEW k \in 1 .. Len(s)
  PROVE  s[k] \in S
  OBVIOUS

LEMMA PopType ==
  ASSUME NEW S, NEW s \in Seq(S), s # <<>>
  PROVE  /\ s[Len(s)] \in S
         /\ Len(s) \in 1 .. Len(s)
         /\ SubSeq(s, 1, Len(s) - 1) \in Seq(S)
         /\ Len(SubSeq(s, 1, Len(s) - 1)) = Len(s) - 1
         /\ \A i \in 1 .. Len(s) - 1 : SubSeq(s, 1, Len(s) - 1)[i] = s[i]
<1>1. Len(s) \in Nat \ {0}
  OBVIOUS
<1>2. s[Len(s)] \in S /\ Len(s) \in 1 .. Len(s)
  BY <1>1
<1>3. PICK n \in Nat : n = Len(s) - 1
  BY <1>1
<1>4. n <= Len(s) /\ n \in Nat
  BY <1>1, <1>3
<1>5. /\ SubSeq(s, 1, n) \in Seq(S)
      /\ Len(SubSeq(s, 1, n)) = n
      /\ \A i \in 1 .. n : SubSeq(s, 1, n)[i] = s[i]
  BY <1>4
<1>6. QED
  BY <1>2, <1>3, <1>5

LEMMA TypeInit == Init => TypeOK
<1> SUFFICES ASSUME Init PROVE TypeOK
  OBVIOUS
<1>1. Rows = {} /\ n_ops = 0
  BY DEF Init, Rows, n_ops
<1>2. 0 \in Value
  BY DEF Value
<1>3. value_cache \in [Dis -> Value] /\ told \in [Dis -> Value \cup {None}]
  BY <1>2 DEF Init
<1>4. /\ at \in [Rows -> Authors] /\ last_operands \in [Rows -> Seq(Value)]
      /\ last_output \in [Rows -> Value \cup {None}]
  BY <1>1 DEF Init
<1>5. /\ cursor \in [i : 1 .. n_ops + 1, j : Nat \ {0}]
      /\ pos \in 0 .. n_ops + 1
  BY <1>1 DEF Init
<1>6. /\ ops \in Seq(Operation) /\ addrs \in Seq(Addr) /\ subs \in Seq(STRING \X Nat)
      /\ calls \in Seq([row : Rows, result : Value])
      /\ out \in Seq([row : Rows, di : Nat, payload : Value])
  BY EmptyInSeq, Zenon DEF Init
<1>7. QED
  BY <1>3, <1>4, <1>5, <1>6, Zenon DEF Init, TypeOK

LEMMA LoadedTables ==
  ASSUME NEW doc \in Docs
  PROVE  /\ parse_operation_tables(doc) \in Seq(Operation)
         /\ parse_addressing_tables(doc) \in Seq(Addr)
<1> DEFINE kept == Clip(doc.ops, MaxOps)
<1>1. doc.ops \in Seq(Operation) /\ doc.addrs \in Seq(Addr)
  BY InputAssumption
<1>2. kept \in Seq(Operation)
  BY <1>1, ClipType, LimitsAssumption
<1>3. ASSUME NEW op \in Operation
      PROVE  parse_operation_table(op) \in Operation
  <2>1. op.inputs \in Seq(Input) /\ op.params \in Seq(Param)
    BY DEF Operation
  <2>2. Clip(op.inputs, MaxInputs) \in Seq(Input) /\ Clip(op.params, MaxInputs) \in Seq(Param)
    BY <2>1, ClipType, LimitsAssumption
  <2>3. QED
    BY <2>2 DEF parse_operation_table, Operation
<1>4. \A i \in 1 .. Len(kept) : parse_operation_table(kept[i]) \in Operation
  BY <1>2, <1>3
<1> HIDE DEF kept
<1>5. [i \in 1 .. Len(kept) |-> parse_operation_table(kept[i])] \in Seq(Operation)
  BY <1>2, <1>4
<1>6. QED
  BY <1>1, <1>5, ClipType, LimitsAssumption
     DEF parse_operation_tables, parse_addressing_tables, kept

LEMMA TypeLoad ==
  ASSUME TypeOK, phase = "load" => calls = <<>> /\ out = <<>> /\ pos = 0 /\ cursor.i = 1,
         NEW doc \in Docs, bm_load_xml(doc)
  PROVE  TypeOK'
<1>1. ops' \in Seq(Operation) /\ addrs' \in Seq(Addr)
  BY LoadedTables DEF bm_load_xml
<1>2. Len(ops') \in Nat /\ Rows' = 1 .. Len(ops') /\ n_ops' = Len(ops')
  BY <1>1 DEF Rows, n_ops
<1>3. \A r \in Rows' : ops'[r].out.at \in Authors
  <2>1. \A r \in Rows' : ops'[r] \in Operation
    BY <1>1, <1>2
  <2>2. QED
    BY <2>1 DEF Operation, Output
<1>4. at' \in [Rows' -> Authors]
  BY <1>2, <1>3 DEF bm_load_xml
<1>5. last_operands' \in [Rows' -> Seq(Value)] /\ last_output' \in [Rows' -> Value \cup {None}]
  BY <1>2 DEF bm_load_xml
<1>6. calls' = <<>> /\ out' = <<>> /\ pos' = 0 /\ cursor'.i = 1 /\ cursor' = cursor
  BY DEF bm_load_xml
<1>7. cursor' \in [i : 1 .. n_ops' + 1, j : Nat \ {0}]
  BY <1>2, <1>6 DEF TypeOK
<1>8. pos' \in 0 .. n_ops' + 1
  BY <1>2, <1>6
<1>9. QED
  BY <1>1, <1>4, <1>5, <1>6, <1>7, <1>8 DEF bm_load_xml, TypeOK, cache

(* The boot actions after the load leave the engine's state alone. *)
LEMMA TypeBoot ==
  ASSUME TypeOK,
         \/ LoadFails \/ bm_disable_authorization \/ bm_controller_start
         \/ \E p \in Policies : bm_set_at(p[1], p[2])
         \/ SubscribeInput \/ SubscribeNextRow
         \/ \E h \in HookSets : EnterLoop(h)
  PROVE  TypeOK'
<1>1. CASE LoadFails \/ bm_disable_authorization \/ bm_controller_start
  BY <1>1 DEF LoadFails, bm_disable_authorization, bm_controller_start, TypeOK, Rows, n_ops, cache
<1>2. ASSUME NEW p \in Policies, bm_set_at(p[1], p[2])
      PROVE  TypeOK'
  <2>1. p[2] \in Authors
    BY InputAssumption
  <2>2. at' \in [Rows -> Authors]
    BY <1>2, <2>1 DEF bm_set_at, TypeOK
  <2>3. QED
    BY <1>2, <2>2 DEF bm_set_at, TypeOK, Rows, n_ops, cache
<1>3. CASE SubscribeInput
  <2> DEFINE in == ops[cursor.i].inputs[cursor.j]
  <2>1. in \in Input
    BY <1>3, RowType DEF SubscribeInput
  <2>2. in.so \in STRING /\ in.di \in Nat
    BY <2>1 DEF Input
  <2>3. <<in.so, in.di>> \in STRING \X Nat
    BY <2>2
  <2>4. subs' \in Seq(STRING \X Nat)
    <3>1. subs' = subs \/ subs' = Append(subs, <<in.so, in.di>>)
      BY <1>3, Zenon DEF SubscribeInput
    <3>2. subs \in Seq(STRING \X Nat)
      BY DEF TypeOK
    <3>3. Append(subs, <<in.so, in.di>>) \in Seq(STRING \X Nat)
      BY <2>3, <3>2, AppendType
    <3>4. QED
      BY <3>1, <3>2, <3>3, Zenon
  <2>5. cursor' \in [i : 1 .. n_ops + 1, j : Nat \ {0}]
    <3>1. cursor \in [i : 1 .. n_ops + 1, j : Nat \ {0}]
      BY DEF TypeOK
    <3>2. cursor' = [cursor EXCEPT !.j = @ + 1]
      BY <1>3 DEF SubscribeInput
    <3>3. QED
      BY <3>1, <3>2
  <2> HIDE DEF in
  <2>6. QED
    BY <1>3, <2>4, <2>5 DEF SubscribeInput, TypeOK, Rows, n_ops, cache
<1>4. CASE SubscribeNextRow
  <2>1. cursor' \in [i : 1 .. n_ops + 1, j : Nat \ {0}]
    BY <1>4 DEF SubscribeNextRow, TypeOK, Rows, n_ops
  <2>2. QED
    BY <1>4, <2>1 DEF SubscribeNextRow, TypeOK, Rows, n_ops, cache
<1>5. ASSUME NEW h \in HookSets, EnterLoop(h)
      PROVE  TypeOK'
  <2>1. h \subseteq {"app", "auth"}
    BY InputAssumption
  <2>2. QED
    BY <1>5, <2>1 DEF EnterLoop, TypeOK, Rows, n_ops, cache
<1>6. QED
  BY <1>1, <1>2, <1>3, <1>4, <1>5

LEMMA TypeHandle ==
  ASSUME TypeOK, NEW m \in Messages, bm_processor_handle(m)
  PROVE  TypeOK'
<1>1. m \in Message /\ m.payload \in Seq(Datum)
  BY InputAssumption DEF Message
<1>2. /\ UNCHANGED <<phase, ops, addrs, at, authz_disabled, hooks, subs, cursor,
                     last_operands, last_output, calls, told>>
      /\ out' = <<>>
  BY DEF bm_processor_handle, config
<1>3. /\ current_msg' \in Message \cup {None}
      /\ value_cache' \in [Dis -> Value] /\ value_valid' \subseteq Dis
      /\ pos' \in 0 .. n_ops + 1
  <2>1. CASE Reports(m)
    <3>1. bm_datum_value(m.payload, "va") \in Value
      BY <2>1, <1>1, DatumType DEF Reports
    <3>2. Updated(m) \subseteq Dis
      BY DEF Updated
    <3>3. value_cache' \in [Dis -> Value]
      BY <2>1, <3>1 DEF bm_processor_handle, TypeOK
    <3>4. value_valid' \subseteq Dis
      BY <2>1, <3>2 DEF bm_processor_handle, TypeOK
    <3>5. pos' \in 0 .. n_ops + 1 /\ current_msg' = m
      BY <2>1 DEF bm_processor_handle, TypeOK, n_ops
    <3>6. QED
      BY <1>1, <3>3, <3>4, <3>5
  <2>2. CASE ~Reports(m)
    BY <2>2 DEF bm_processor_handle, TypeOK, cache
  <2>3. QED
    BY <2>1, <2>2
<1>4. QED
  BY <1>2, <1>3, EmptyInSeq DEF TypeOK, Rows, n_ops

LEMMA SendPutType ==
  ASSUME TypeOK, NEW r \in Rows, NEW result \in Value, SendPut(r, result)
  PROVE  /\ out' \in Seq([row : Rows, di : Nat, payload : Value])
         /\ told' \in [Dis -> Value \cup {None}]
<1>1. FormatG(result) \in Value
  BY FormatType
<1>2. CASE ops[r].out.dest # ""
  <2>1. Put(r, result) \in [row : Rows, di : Nat, payload : Value]
    BY <1>1, RowType DEF Put
  <2>2. Append(out, Put(r, result)) \in Seq([row : Rows, di : Nat, payload : Value])
    BY <2>1, AppendType DEF TypeOK
  <2>3. told' = [d \in Dis |-> IF d = ops[r].out.di THEN FormatG(result) ELSE told[d]]
    BY <1>2 DEF SendPut
  <2>4. told' \in [Dis -> Value \cup {None}]
    BY <1>1, <2>3 DEF TypeOK
  <2>5. QED
    BY <1>2, <2>2, <2>4 DEF SendPut
<1>3. CASE ops[r].out.dest = ""
  BY <1>3 DEF SendPut, TypeOK
<1>4. QED
  BY <1>2, <1>3

LEMMA RecordType ==
  ASSUME TypeOK, AtRow, Runnable(ops[pos]), RecordOperands
  PROVE  last_operands' \in [Rows -> Seq(Value)]
<1>1. pos \in Rows
  BY DEF AtRow
<1>2. Operands(ops[pos]) \in Seq(Value)
  BY <1>1, OperandsType
<1>3. QED
  BY <1>1, <1>2 DEF RecordOperands, TypeOK

LEMMA NextRowType ==
  ASSUME TypeOK, NEW r \in Rows
  PROVE  NextRow(r) \in 1 .. n_ops + 1
  BY DEF NextRow, Rows, n_ops, TypeOK

LEMMA TypeQuietRow ==
  ASSUME TypeOK, SkipRow \/ UnchangedRow \/ SuppressRow \/ Finish
  PROVE  TypeOK'
<1>1. UNCHANGED <<config, cache, last_output, current_msg, calls, out, told>>
  BY DEF SkipRow, UnchangedRow, SuppressRow, Finish
<1>2. last_operands' \in [Rows -> Seq(Value)]
  <2>1. CASE SkipRow \/ Finish
    BY <2>1 DEF SkipRow, Finish, TypeOK
  <2>2. CASE UnchangedRow \/ SuppressRow
    BY <2>2, RecordType DEF UnchangedRow, SuppressRow
  <2>3. QED
    BY <2>1, <2>2
<1>3. pos' \in 0 .. n_ops + 1
  <2>1. CASE Finish
    BY <2>1 DEF Finish, n_ops, TypeOK
  <2>2. CASE SkipRow \/ UnchangedRow \/ SuppressRow
    <3>1. pos \in Rows /\ pos' = NextRow(pos)
      BY <2>2 DEF SkipRow, UnchangedRow, SuppressRow, AtRow
    <3>2. QED
      BY <3>1, NextRowType
  <2>3. QED
    BY <2>1, <2>2
<1>4. QED
  BY <1>1, <1>2, <1>3 DEF TypeOK, config, cache, Rows, n_ops

LEMMA TypeCommit ==
  ASSUME TypeOK, CommitRow
  PROVE  TypeOK'
<1>1. pos \in Rows /\ Runnable(ops[pos])
  BY DEF CommitRow, AtRow
<1>2. PICK result \in Results(ops[pos], Operands(ops[pos])) :
        ~Suppressed(pos, result) /\ Commit(result)
  BY DEF CommitRow
<1>3. result \in Value
  <2>1. result # None
    BY <1>2 DEF Suppressed
  <2>2. QED
    BY <1>1, <2>1, ResultsType
<1>4. last_operands' \in [Rows -> Seq(Value)]
  BY RecordType DEF CommitRow
<1>5. last_output' \in [Rows -> Value \cup {None}]
  BY <1>1, <1>2, <1>3 DEF Commit, TypeOK
<1>6. /\ value_cache' \in [Dis -> Value] /\ value_valid' \subseteq Dis
      /\ calls' \in Seq([row : Rows, result : Value])
      /\ pos' \in 0 .. n_ops + 1
      /\ out' \in Seq([row : Rows, di : Nat, payload : Value])
      /\ told' \in [Dis -> Value \cup {None}]
  <2>1. CASE ops[pos].out.di \in Dis
    <3>1. /\ value_cache' = [value_cache EXCEPT ![ops[pos].out.di] = result]
          /\ value_valid' = value_valid \cup {ops[pos].out.di}
          /\ calls' = Append(calls, [row |-> pos, result |-> result])
          /\ pos' = 1
          /\ UNCHANGED <<out, told>>
      BY <1>2, <2>1 DEF Commit
    <3>2. [row |-> pos, result |-> result] \in [row : Rows, result : Value]
      BY <1>1, <1>3
    <3>3. calls' \in Seq([row : Rows, result : Value])
      BY <3>1, <3>2, AppendType DEF TypeOK
    <3>4. value_cache' \in [Dis -> Value] /\ value_valid' \subseteq Dis
      BY <1>3, <2>1, <3>1 DEF TypeOK
    <3>5. pos' \in 0 .. n_ops + 1
      BY <3>1 DEF TypeOK, n_ops
    <3>6. QED
      BY <3>1, <3>3, <3>4, <3>5 DEF TypeOK
  <2>2. CASE ops[pos].out.di \notin Dis
    <3>1. SendPut(pos, result) /\ pos' = NextRow(pos) /\ UNCHANGED <<cache, calls>>
      BY <1>2, <2>2 DEF Commit
    <3>2. pos' \in 0 .. n_ops + 1
      BY <1>1, <3>1, NextRowType
    <3>3. QED
      BY <1>1, <1>3, <3>1, <3>2, SendPutType DEF TypeOK, cache
  <2>3. QED
    BY <2>1, <2>2
<1>7. UNCHANGED <<config, current_msg>>
  BY DEF CommitRow
<1>8. QED
  BY <1>4, <1>5, <1>6, <1>7 DEF TypeOK, config, Rows, n_ops

LEMMA TypeReturn ==
  ASSUME TypeOK, ReturnToRow
  PROVE  TypeOK'
<1> DEFINE c == calls[Len(calls)]
<1>1. calls \in Seq([row : Rows, result : Value]) /\ calls # <<>>
  BY DEF ReturnToRow, TypeOK
<1>2. c.row \in Rows /\ c.result \in Value
  <2>1. c \in [row : Rows, result : Value]
    BY <1>1, PopType
  <2>2. QED
    BY <2>1
<1>3. SendPut(c.row, c.result) /\ pos' = NextRow(c.row)
  BY DEF ReturnToRow
<1> HIDE DEF c
<1>4. /\ out' \in Seq([row : Rows, di : Nat, payload : Value])
      /\ told' \in [Dis -> Value \cup {None}]
  BY <1>2, <1>3, SendPutType
<1>5. pos' \in 0 .. n_ops + 1
  BY <1>2, <1>3, NextRowType
<1>6. calls' \in Seq([row : Rows, result : Value])
  <2>1. calls' = SubSeq(calls, 1, Len(calls) - 1)
    BY DEF ReturnToRow
  <2>2. QED
    BY <1>1, <2>1, PopType
<1>7. UNCHANGED <<config, cache, last_operands, last_output, current_msg>>
  BY DEF ReturnToRow
<1>8. QED
  BY <1>4, <1>5, <1>6, <1>7 DEF TypeOK, config, cache, Rows, n_ops

-----------------------------------------------------------------------------
(* The inductive invariant. *)

(* Until core_main enters its loop the engine has not moved. *)
BootInv ==
  /\ phase # "run" => /\ pos = 0 /\ out = <<>> /\ value_valid = {}
                      /\ current_msg = None
                      /\ \A r \in Rows : last_operands[r] = <<>>
  /\ phase \in {"load", "policy"} => cursor.i = 1
  /\ pos = 0 => calls = <<>>

(* The rows the running evaluation has already passed, all of them when    *)
(* none is running, have recorded the operands they would read now.        *)
Passed(r) == pos = 0 \/ r < pos
UpToDate ==
  \A r \in Rows : Passed(r) /\ Runnable(ops[r]) => last_operands[r] = Operands(ops[r])

(* An ungated built-in row that ever recorded operands holds their result. *)
Computed(r) == /\ ops[r].operation # "ap" /\ ops[r].out.ad # "bk" /\ Ungated(r)
OutputsCurrent ==
  \A r \in Rows : Computed(r) /\ last_operands[r] # <<>> =>
    last_output[r] = BuiltInResult(ops[r], last_operands[r])

(* What is sent, and what suspended activations still owe, is authorized.  *)
Owed == \A k \in 1 .. Len(calls) :
          ops[calls[k].row].out.dest # "" => output_authorized(calls[k].row)

Inv == /\ TypeOK /\ BootInv /\ UpToDate /\ OutputsCurrent
       /\ PutsAuthorized /\ Owed /\ CachedOnlyIfCommitted

(* Every step keeps the types. *)
LEMMA TypeStep ==
  ASSUME TypeOK, BootInv, [Next]_vars
  PROVE  TypeOK'
<1>1. ASSUME NEW doc \in Docs, bm_load_xml(doc)
      PROVE  TypeOK'
  <2>1. phase = "load" => calls = <<>> /\ out = <<>> /\ pos = 0 /\ cursor.i = 1
    BY DEF BootInv
  <2>2. QED
    BY <1>1, <2>1, TypeLoad
<1>2. CASE UNCHANGED vars
  BY <1>2 DEF vars, config, cache, TypeOK, Rows, n_ops
<1>3. QED
  BY <1>1, <1>2, TypeBoot, TypeHandle, TypeQuietRow, TypeCommit, TypeReturn
     DEF Next, Boot, Step

(* While the tables and the cache stand still, rows look the same. *)
LEMMA SameView ==
  ASSUME UNCHANGED <<config, cache>>
  PROVE  /\ Rows' = Rows
         /\ \A r \in Rows : /\ Runnable(ops[r])' <=> Runnable(ops[r])
                            /\ Operands(ops[r])' = Operands(ops[r])
  BY DEF config, cache, Rows, Runnable, op_ready, InputBlocked, Operands

(* A row is gated the same way throughout the loop. *)
LEMMA SameGate ==
  ASSUME UNCHANGED config
  PROVE  /\ Rows' = Rows
         /\ \A r \in Rows : Computed(r)' <=> Computed(r)
         /\ \A d : Sourced(d)' <=> Sourced(d)
  BY DEF config, Rows, Computed, Ungated, op_requires_authorization, Sourced

(* Nothing is runnable before the first report. *)
LEMMA NothingKnown ==
  ASSUME TypeOK, value_valid = {}, NEW r \in Rows
  PROVE  ~Runnable(ops[r])
<1>1. ops[r].inputs \in Seq(Input)
  BY RowType
<1>2. QED
  BY <1>1 DEF Runnable, op_ready

(* Operands that compare the same, element by element, are the same. *)
LEMMA SameOperands ==
  ASSUME NEW s \in Seq(Value), NEW t \in Seq(Value), ~inputs_changed(s, t)
  PROVE  s = t
  BY DEF inputs_changed, Same

LEMMA BootStep ==
  ASSUME Inv, [Next]_vars
  PROVE  BootInv'
<1>0. TypeOK /\ BootInv
  BY DEF Inv
<1>1. ASSUME NEW doc \in Docs, bm_load_xml(doc)
      PROVE  BootInv'
  <2>1. Rows' = 1 .. Len(ops')
    BY DEF Rows
  <2>2. \A r \in Rows' : last_operands'[r] = <<>>
    BY <1>1, <2>1 DEF bm_load_xml
  <2>3. QED
    BY <1>0, <1>1, <2>2 DEF bm_load_xml, BootInv, cache
<1>2. CASE LoadFails \/ bm_disable_authorization \/ bm_controller_start
           \/ (\E p \in Policies : bm_set_at(p[1], p[2]))
           \/ (\E h \in HookSets : EnterLoop(h))
  BY <1>0, <1>2 DEF LoadFails, bm_disable_authorization, bm_controller_start, bm_set_at,
                    EnterLoop, BootInv, Rows, cache
<1>3. CASE SubscribeInput \/ SubscribeNextRow
  BY <1>0, <1>3 DEF SubscribeInput, SubscribeNextRow, BootInv, Rows, cache
<1>4. ASSUME NEW m \in Messages, bm_processor_handle(m)
      PROVE  BootInv'
  BY <1>0, <1>4 DEF bm_processor_handle, BootInv, config
<1>5. CASE SkipRow \/ UnchangedRow \/ SuppressRow \/ CommitRow \/ ReturnToRow
  <2>1. phase' = "run"
    BY <1>5 DEF SkipRow, UnchangedRow, SuppressRow, CommitRow, ReturnToRow, AtRow, config
  <2>2. pos' # 0
    <3>1. CASE SkipRow \/ UnchangedRow \/ SuppressRow \/ CommitRow
      <4>1. pos \in Rows
        BY <3>1 DEF SkipRow, UnchangedRow, SuppressRow, CommitRow, AtRow
      <4>2. pos' \in {1, NextRow(pos)}
        BY <3>1 DEF SkipRow, UnchangedRow, SuppressRow, CommitRow, Commit
      <4>3. QED
        BY <1>0, <4>1, <4>2, NextRowType
    <3>2. CASE ReturnToRow
      <4>1. calls \in Seq([row : Rows, result : Value]) /\ calls # <<>>
        BY <1>0, <3>2 DEF ReturnToRow, TypeOK
      <4>2. calls[Len(calls)] \in [row : Rows, result : Value]
        BY <4>1, PopType
      <4>3. calls[Len(calls)].row \in Rows
        BY <4>2
      <4>4. QED
        BY <1>0, <3>2, <4>3, NextRowType DEF ReturnToRow
    <3>3. QED
      BY <1>5, <3>1, <3>2
  <2>3. QED
    BY <2>1, <2>2 DEF BootInv
<1>6. CASE Finish
  BY <1>6 DEF Finish, BootInv, config
<1>7. CASE UNCHANGED vars
  BY <1>0, <1>7 DEF vars, config, cache, BootInv, Rows
<1>8. QED
  BY <1>1, <1>2, <1>3, <1>4, <1>5, <1>6, <1>7 DEF Next, Boot, Step
(* A boot step leaves the engine at rest and nothing to be up to date. *)
LEMMA BootIsQuiet ==
  ASSUME Inv, TypeOK', BootInv', Boot
  PROVE  /\ value_valid' = {} /\ pos' = 0 /\ calls' = <<>> /\ out' = <<>>
         /\ \A r \in Rows' : last_operands'[r] = <<>>
<1>1. TypeOK /\ BootInv /\ phase # "run"
  BY DEF Inv, Boot, bm_load_xml, LoadFails, bm_disable_authorization, bm_set_at,
         bm_controller_start, SubscribeInput, SubscribeNextRow, EnterLoop
<1>2. CASE phase' # "run"
  BY <1>2 DEF BootInv
<1>3. CASE phase' = "run"
  <2>1. \E h \in HookSets : EnterLoop(h)
    BY <1>1, <1>3 DEF Boot, bm_load_xml, LoadFails, bm_disable_authorization, bm_set_at,
         bm_controller_start, SubscribeInput, SubscribeNextRow
  <2>2. QED
    BY <1>1, <2>1 DEF EnterLoop, BootInv, cache, Rows
<1>4. QED
  BY <1>2, <1>3

LEMMA NothingStale == TypeOK /\ value_valid = {} => UpToDate
  BY NothingKnown DEF UpToDate

(* Change detection never leaves a passed row behind its inputs: the cache *)
(* changes only where the evaluation starts over.                          *)
LEMMA UpToDateStep ==
  ASSUME Inv, TypeOK', BootInv', [Next]_vars
  PROVE  UpToDate'
<1>0. TypeOK /\ BootInv /\ UpToDate
  BY DEF Inv
<1>1. CASE Boot
  <2>1. (value_valid = {})'
    BY <1>1, BootIsQuiet
  <2>2. QED
    BY <2>1, NothingStale, PTL
<1>2. ASSUME NEW m \in Messages, bm_processor_handle(m)
      PROVE  UpToDate'
  <2>1. CASE Reports(m) /\ Updated(m) # {}
    BY <1>2, <2>1 DEF bm_processor_handle, UpToDate, Passed, Rows
  <2>2. CASE ~(Reports(m) /\ Updated(m) # {})
    <3>1. value_cache' = value_cache
      <4>1. CASE Reports(m)
        <5>1. value_cache' = [d \in Dis |-> value_cache[d]]
          BY <1>2, <2>2, <4>1 DEF bm_processor_handle
        <5>2. QED
          BY <1>0, <5>1 DEF TypeOK
      <4>2. CASE ~Reports(m)
        BY <1>2, <4>2 DEF bm_processor_handle, cache
      <4>3. QED
        BY <4>1, <4>2
    <3>2. value_valid' = value_valid /\ pos = 0 /\ UNCHANGED <<config, last_operands>>
      BY <1>2, <2>2 DEF bm_processor_handle, cache
    <3>3. UNCHANGED <<config, cache>>
      BY <3>1, <3>2 DEF cache
    <3>4. QED
      BY <1>0, <3>2, <3>3, SameView DEF UpToDate, Passed
  <2>3. QED
    BY <2>1, <2>2
<1>3. CASE SkipRow \/ UnchangedRow \/ SuppressRow
  <2>1. UNCHANGED <<config, cache>> /\ pos \in Rows /\ pos' = pos + 1
    BY <1>3 DEF SkipRow, UnchangedRow, SuppressRow, AtRow, NextRow
  <2>2. pos \in Nat \ {0} /\ Rows \subseteq Nat
    BY <1>0, <2>1 DEF Rows, TypeOK
  <2>3. \A r \in Rows : r # pos => last_operands'[r] = last_operands[r]
    BY <1>0, <1>3, <2>1 DEF SkipRow, UnchangedRow, SuppressRow, RecordOperands, TypeOK
  <2>4. Runnable(ops[pos]) => last_operands'[pos] = Operands(ops[pos])
    BY <1>0, <1>3, <2>1 DEF SkipRow, UnchangedRow, SuppressRow, RecordOperands, TypeOK
  <2>5. \A r \in Rows : Passed(r)' => Passed(r) \/ r = pos
    BY <2>1, <2>2 DEF Passed
  <2>6. QED
    BY <1>0, <2>1, <2>3, <2>4, <2>5, SameView DEF UpToDate
<1>4. CASE CommitRow
  <2>1. pos \in Rows
    BY <1>4 DEF CommitRow, AtRow
  <2>2. PICK result : Commit(result)
    BY <1>4 DEF CommitRow
  <2>3. CASE ops[pos].out.di \in Dis
    <3>1. pos' = 1
      BY <2>2, <2>3 DEF Commit
    <3>2. QED
      BY <3>1 DEF UpToDate, Passed, Rows
  <2>4. CASE ops[pos].out.di \notin Dis
    <3>1. UNCHANGED <<config, cache>> /\ pos' = pos + 1
      BY <1>4, <2>2, <2>4 DEF CommitRow, Commit, NextRow
    <3>2. pos \in Nat \ {0} /\ Rows \subseteq Nat
      BY <1>0, <2>1 DEF Rows, TypeOK
    <3>3. \A r \in Rows : last_operands'[r] = IF r = pos THEN Operands(ops[pos])
                                              ELSE last_operands[r]
      BY <1>0, <1>4 DEF CommitRow, RecordOperands, TypeOK
    <3>4. \A r \in Rows : Passed(r)' => Passed(r) \/ r = pos
      BY <3>1, <3>2 DEF Passed
    <3>5. QED
      BY <1>0, <3>1, <3>3, <3>4, SameView DEF UpToDate
  <2>5. QED
    BY <2>3, <2>4
<1>5. CASE ReturnToRow \/ Finish
  <2>1. UNCHANGED <<config, cache, last_operands>> /\ pos = n_ops + 1
    BY <1>5 DEF ReturnToRow, Finish
  <2>2. \A r \in Rows : Passed(r)
    BY <1>0, <2>1 DEF Passed, Rows, n_ops, TypeOK
  <2>3. QED
    BY <1>0, <2>1, <2>2, SameView DEF UpToDate
<1>6. CASE UNCHANGED vars
  BY <1>0, <1>6, SameView DEF vars, UpToDate, Passed
<1>7. QED
  BY <1>1, <1>2, <1>3, <1>4, <1>5, <1>6 DEF Next, Step

(* A committed or confirmed output is the result of the recorded operands. *)
LEMMA OutputsStep ==
  ASSUME Inv, TypeOK', BootInv', [Next]_vars
  PROVE  OutputsCurrent'
<1>0. TypeOK /\ BootInv /\ OutputsCurrent
  BY DEF Inv
<1>1. CASE Boot
  BY <1>1, BootIsQuiet DEF OutputsCurrent
<1>2. CASE UNCHANGED <<config, last_operands, last_output>>
  BY <1>0, <1>2, SameGate DEF OutputsCurrent, config
<1>3. CASE UnchangedRow \/ SuppressRow \/ CommitRow
  <2>1. pos \in Rows /\ Runnable(ops[pos]) /\ UNCHANGED config
    BY <1>3 DEF UnchangedRow, SuppressRow, CommitRow, AtRow
  <2>2. last_operands' = [last_operands EXCEPT ![pos] = Operands(ops[pos])]
    BY <1>3 DEF UnchangedRow, SuppressRow, CommitRow, RecordOperands
  <2>3. \A r \in Rows : r # pos => /\ last_operands'[r] = last_operands[r]
                                  /\ last_output'[r] = last_output[r]
    BY <1>0, <1>3, <2>1, <2>2 DEF UnchangedRow, SuppressRow, CommitRow, Commit, TypeOK
  <2>4. last_operands'[pos] = Operands(ops[pos])
    BY <1>0, <2>1, <2>2 DEF TypeOK
  <2>5. ASSUME Computed(pos)
        PROVE  last_output'[pos] = BuiltInResult(ops[pos], Operands(ops[pos]))
    <3> DEFINE res == BuiltInResult(ops[pos], Operands(ops[pos]))
    <3>1. Results(ops[pos], Operands(ops[pos])) = {res}
      BY <2>5 DEF Results, Computed
    <3>2. res # None
      <4>1. res \in Value
        <5>1. Operands(ops[pos]) \in Seq(Value) /\ Operands(ops[pos])[1] \in Value
          BY <1>0, <2>1, OperandsType
        <5>2. SecondOperand(ops[pos], Operands(ops[pos])) \in Value
          BY <1>0, <2>1, <5>1, RowType, SecondOperandType
        <5>3. QED
          BY <5>1, <5>2, OperationType, ConditionType DEF BuiltInResult
      <4>2. QED
        BY <4>1, LimitsAssumption DEF Value
    <3>3. CASE UnchangedRow
      <4>1. Operands(ops[pos]) \in Seq(Value) /\ Operands(ops[pos]) # <<>>
        BY <1>0, <2>1, OperandsType
      <4>2. last_operands[pos] = Operands(ops[pos])
        BY <1>0, <2>1, <3>3, <4>1, SameOperands DEF UnchangedRow, TypeOK
      <4>3. QED
        BY <1>0, <2>1, <2>5, <3>3, <4>1, <4>2 DEF UnchangedRow, OutputsCurrent
    <3>4. CASE SuppressRow
      <4>1. Suppressed(pos, res)
        BY <3>1, <3>4 DEF SuppressRow
      <4>2. ops[pos].out.dest # "" => output_authorized(pos)
        BY <2>5 DEF Computed, Ungated, output_authorized
      <4>3. Same(res, last_output[pos])
        BY <2>5, <3>2, <4>1, <4>2 DEF Suppressed, Computed
      <4>4. QED
        BY <3>4, <4>3 DEF SuppressRow, Same
    <3>5. CASE CommitRow
      <4>1. Commit(res)
        BY <3>1, <3>5 DEF CommitRow
      <4>2. QED
        BY <1>0, <2>1, <4>1 DEF Commit, TypeOK
    <3>6. QED
      BY <1>3, <3>3, <3>4, <3>5
  <2>6. QED
    BY <1>0, <2>1, <2>3, <2>4, <2>5, SameGate DEF OutputsCurrent, config
<1>4. QED
  BY <1>1, <1>2, <1>3 DEF Next, Step, vars, bm_processor_handle, SkipRow, ReturnToRow, Finish

(* The gate a row passed stays open until its PUT has left: nothing it     *)
(* depends on changes while a message is processed.                        *)
LEMMA SameAuthority ==
  ASSUME UNCHANGED <<config, current_msg>>
  PROVE  \A r \in Rows : output_authorized(r)' <=> output_authorized(r)
  BY DEF config, output_authorized, op_requires_authorization, Rows

(* PUTs and suspended activations name rows of the table. *)
LEMMA NamedRows ==
  ASSUME TypeOK
  PROVE  /\ \A k \in 1 .. Len(out) : out[k].row \in Rows
         /\ \A k \in 1 .. Len(calls) : calls[k].row \in Rows /\ calls[k].result \in Value
<1>1. /\ out \in Seq([row : Rows, di : Nat, payload : Value])
      /\ calls \in Seq([row : Rows, result : Value])
  BY DEF TypeOK
<1>2. /\ \A k \in 1 .. Len(out) : out[k] \in [row : Rows, di : Nat, payload : Value]
      /\ \A k \in 1 .. Len(calls) : calls[k] \in [row : Rows, result : Value]
  BY <1>1, ElementType, Zenon
<1>3. QED
  BY <1>2

LEMMA SendPutAuthorized ==
  ASSUME TypeOK, PutsAuthorized, UNCHANGED <<config, current_msg>>,
         NEW r \in Rows, NEW result \in Value, SendPut(r, result),
         ops[r].out.dest # "" => output_authorized(r)
  PROVE  PutsAuthorized'
<1>1. CASE out' = out
  BY <1>1, NamedRows, SameAuthority DEF PutsAuthorized
<1>2. CASE ops[r].out.dest # "" /\ out' = Append(out, Put(r, result))
  <2>1. Put(r, result) \in [row : Rows, di : Nat, payload : Value]
    BY FormatType, RowType DEF Put
  <2>2. out \in Seq([row : Rows, di : Nat, payload : Value])
    BY DEF TypeOK
  <2>3. \A k \in 1 .. Len(out') :
          (k \in 1 .. Len(out) /\ out'[k] = out[k]) \/ out'[k] = Put(r, result)
    <3> DEFINE app == Append(out, Put(r, result))
    <3>1. \A k \in 1 .. Len(app) :
            (k \in 1 .. Len(out) /\ app[k] = out[k]) \/ app[k] = Put(r, result)
      BY <2>1, <2>2, AppendType
    <3> HIDE DEF app
    <3>2. out' = app
      BY <1>2 DEF app
    <3>3. QED
      BY <3>1, <3>2, Zenon
  <2>4. Put(r, result).row = r
    BY DEF Put
  <2>5. \A k \in 1 .. Len(out') : out'[k].row \in Rows /\ output_authorized(out'[k].row)
    BY <1>2, <2>3, <2>4, NamedRows, Zenon DEF PutsAuthorized
  <2>6. QED
    BY <2>5, SameAuthority, Zenon DEF PutsAuthorized
<1>3. QED
  BY <1>1, <1>2 DEF SendPut

LEMMA AuthorizedStep ==
  ASSUME Inv, TypeOK', BootInv', [Next]_vars
  PROVE  PutsAuthorized' /\ Owed'
<1>0. TypeOK /\ BootInv /\ PutsAuthorized /\ Owed
  BY DEF Inv
<1>a. calls \in Seq([row : Rows, result : Value])
  BY <1>0 DEF TypeOK
<1>b. \A k \in 1 .. Len(calls) : calls[k].row \in Rows /\ calls[k].result \in Value
  BY <1>0, NamedRows
<1>1. CASE Boot \/ (\E m \in Messages : bm_processor_handle(m))
  <2>1. calls' = <<>> /\ out' = <<>>
    BY <1>0, <1>1, BootIsQuiet DEF bm_processor_handle, BootInv
  <2>2. QED
    BY <2>1 DEF PutsAuthorized, Owed
<1>2. CASE UNCHANGED <<config, current_msg, calls, out>>
  BY <1>0, <1>2, NamedRows, SameAuthority DEF PutsAuthorized, Owed, config
<1>3. CASE CommitRow
  <2>1. pos \in Rows /\ Runnable(ops[pos]) /\ UNCHANGED <<config, current_msg>>
    BY <1>3 DEF CommitRow, AtRow
  <2>2. PICK result \in Results(ops[pos], Operands(ops[pos])) :
          ~Suppressed(pos, result) /\ Commit(result)
    BY <1>3 DEF CommitRow
  <2>3. result \in Value /\ (ops[pos].out.dest # "" => output_authorized(pos))
    <3>1. result # None /\ (ops[pos].out.dest # "" => output_authorized(pos))
      BY <2>2 DEF Suppressed
    <3>2. QED
      BY <1>0, <2>1, <3>1, ResultsType
  <2>4. CASE ops[pos].out.di \in Dis
    <3> DEFINE c == [row |-> pos, result |-> result]
    <3>1. calls' = Append(calls, c) /\ out' = out
      BY <2>2, <2>4 DEF Commit
    <3>2. PutsAuthorized'
      BY <1>0, <2>1, <3>1, NamedRows, SameAuthority DEF PutsAuthorized
    <3>3. \A k \in 1 .. Len(calls') :
            (k \in 1 .. Len(calls) /\ calls'[k] = calls[k]) \/ calls'[k] = c
      <4>1. c \in [row : Rows, result : Value]
        BY <2>1, <2>3
      <4> DEFINE app == Append(calls, c)
      <4>2. \A k \in 1 .. Len(app) :
              (k \in 1 .. Len(calls) /\ app[k] = calls[k]) \/ app[k] = c
        BY <1>a, <4>1, AppendType
      <4> HIDE DEF app
      <4>3. calls' = app
        BY <3>1 DEF app
      <4>4. QED
        BY <4>2, <4>3, Zenon
    <3>4. ASSUME NEW k \in 1 .. Len(calls')
          PROVE  /\ calls'[k].row \in Rows
                 /\ ops[calls'[k].row].out.dest # "" => output_authorized(calls'[k].row)
      <4>1. CASE k \in 1 .. Len(calls) /\ calls'[k] = calls[k]
        BY <1>0, <1>b, <4>1, Zenon DEF Owed
      <4>2. CASE calls'[k] = c
        <5>1. calls'[k].row = pos
          BY <4>2
        <5>2. QED
          BY <2>1, <2>3, <5>1, Zenon
      <4>3. QED
        BY <3>3, <4>1, <4>2, Zenon
    <3>5. QED
      BY <2>1, <3>2, <3>4, SameAuthority DEF Owed, config
  <2>5. CASE ops[pos].out.di \notin Dis
    <3>1. SendPut(pos, result) /\ calls' = calls
      BY <2>2, <2>5 DEF Commit
    <3>2. Owed'
      BY <1>0, <1>b, <2>1, <3>1, SameAuthority DEF Owed, config
    <3>3. QED
      BY <1>0, <2>1, <2>3, <3>1, <3>2, SendPutAuthorized
  <2>6. QED
    BY <2>4, <2>5
<1>4. CASE ReturnToRow
  <2> DEFINE last == Len(calls)
  <2>1. calls # <<>> /\ UNCHANGED <<config, current_msg>>
    BY <1>4 DEF ReturnToRow
  <2>2. SendPut(calls[last].row, calls[last].result)
    BY <1>4 DEF ReturnToRow
  <2>3. calls' = SubSeq(calls, 1, last - 1)
    BY <1>4 DEF ReturnToRow
  <2>4. /\ last \in 1 .. last /\ Len(calls') = last - 1
        /\ \A k \in 1 .. last - 1 : calls'[k] = calls[k]
    BY <1>a, <2>1, <2>3, PopType
  <2>5. PutsAuthorized'
    BY <1>0, <1>b, <2>1, <2>2, <2>4, SendPutAuthorized DEF Owed
  <2>6. \A k \in 1 .. Len(calls') : k \in 1 .. last /\ calls'[k] = calls[k]
    BY <2>4
  <2>7. Owed'
    BY <1>0, <1>b, <2>1, <2>6, SameAuthority DEF Owed, config
  <2>8. QED
    BY <2>5, <2>7
<1>5. QED
  BY <1>1, <1>2, <1>3, <1>4
     DEF Next, Step, vars, SkipRow, UnchangedRow, SuppressRow, Finish

LEMMA CommittedStep ==
  ASSUME Inv, TypeOK', BootInv', [Next]_vars
  PROVE  CachedOnlyIfCommitted'
<1>0. TypeOK /\ BootInv /\ CachedOnlyIfCommitted
  BY DEF Inv
<1>1. CASE Boot
  BY <1>1, BootIsQuiet DEF CachedOnlyIfCommitted
<1>2. CASE UNCHANGED <<config, cache, last_output>>
  BY <1>0, <1>2, SameGate DEF CachedOnlyIfCommitted, config, cache
<1>3. ASSUME NEW m \in Messages, bm_processor_handle(m), Reports(m)
      PROVE  CachedOnlyIfCommitted'
  <2>1. UNCHANGED <<config, last_output>>
    BY <1>3 DEF bm_processor_handle
  <2>2. \A d \in Updated(m) : Sourced(d)
    BY DEF Updated, Matches, Sourced
  <2>3. \A d \in Dis : d \notin Updated(m) => value_cache'[d] = value_cache[d]
    BY <1>3 DEF bm_processor_handle
  <2>4. value_valid' = value_valid \cup Updated(m) /\ value_valid \subseteq Dis
    BY <1>0, <1>3 DEF bm_processor_handle, TypeOK
  <2>5. QED
    BY <1>0, <2>1, <2>2, <2>3, <2>4, SameGate DEF CachedOnlyIfCommitted, config
<1>4. CASE CommitRow
  <2>1. pos \in Rows /\ UNCHANGED config
    BY <1>4 DEF CommitRow, AtRow
  <2>2. PICK result : Commit(result)
    BY <1>4 DEF CommitRow
  <2>3. /\ last_output'[pos] = result
        /\ \A r \in Rows : r # pos => last_output'[r] = last_output[r]
    BY <1>0, <2>1, <2>2 DEF Commit, TypeOK
  <2>4. ASSUME NEW d \in value_valid', ~Sourced(d)
        PROVE  \E r \in Rows : ops[r].out.di = d /\ last_output'[r] = value_cache'[d]
    <3>1. CASE ops[pos].out.di = d /\ d \in Dis
      BY <1>0, <2>1, <2>2, <2>3, <3>1 DEF Commit, TypeOK
    <3>2. CASE ~(ops[pos].out.di = d /\ d \in Dis)
      <4>1. d \in value_valid /\ d \in Dis /\ value_cache'[d] = value_cache[d]
        BY <1>0, <2>2, <2>4, <3>2 DEF Commit, TypeOK, cache
      <4>2. PICK r \in Rows : ops[r].out.di = d /\ last_output[r] = value_cache[d]
        BY <1>0, <2>4, <4>1 DEF CachedOnlyIfCommitted
      <4>3. QED
        BY <2>3, <3>2, <4>1, <4>2
    <3>3. QED
      BY <3>1, <3>2
  <2>5. QED
    BY <2>1, <2>4, SameGate DEF CachedOnlyIfCommitted, config
<1>5. QED
  BY <1>1, <1>2, <1>3, <1>4 DEF Next, Step, vars, bm_processor_handle, SkipRow, UnchangedRow,
     SuppressRow, ReturnToRow, Finish

-----------------------------------------------------------------------------
LEMMA InvInit == Init => Inv
<1> SUFFICES ASSUME Init PROVE Inv
  OBVIOUS
<1>1. TypeOK
  BY TypeInit
<1>2. Rows = {} /\ n_ops = 0
  BY DEF Init, Rows, n_ops
<1>3. BootInv
  BY <1>2 DEF Init, BootInv
<1>4. UpToDate /\ OutputsCurrent
  BY <1>2 DEF UpToDate, OutputsCurrent
<1>5. PutsAuthorized /\ Owed /\ CachedOnlyIfCommitted
  <2>1. Len(out) = 0 /\ Len(calls) = 0 /\ value_valid = {}
    BY DEF Init
  <2>2. QED
    BY <2>1 DEF PutsAuthorized, Owed, CachedOnlyIfCommitted
<1>6. QED
  BY <1>1, <1>3, <1>4, <1>5 DEF Inv

LEMMA InvStep == Inv /\ [Next]_vars => Inv'
<1> SUFFICES ASSUME Inv, [Next]_vars PROVE Inv'
  OBVIOUS
<1>1. TypeOK'
  BY TypeStep DEF Inv
<1>2. BootInv'
  BY BootStep
<1>3. QED
  BY <1>1, <1>2, UpToDateStep, OutputsStep, AuthorizedStep, CommittedStep DEF Inv

LEMMA Invariance == Spec => []Inv
  BY InvInit, InvStep, PTL DEF Spec

(* Rows, inputs, cache indexes and suspended calls stay within the arrays  *)
(* of binding_map_t, for every document and limit.                         *)
THEOREM TypeCorrect == Spec => []TypeOK
<1>1. Inv => TypeOK
  BY DEF Inv
<1>2. QED
  BY <1>1, Invariance, PTL

(* For every table, cyclic ones included, whenever bm_evaluate_all() has   *)
(* returned to the idle loop, each ungated built-in row holds the result   *)
(* of the values cached now: evaluate_op's change detection misses nothing.*)
THEOREM Dataflow == Spec => []DataflowCorrect
<1>1. Inv => DataflowCorrect
  <2> SUFFICES ASSUME Inv, Idle, NEW r \in Rows, Runnable(ops[r]), Computed(r)
               PROVE  last_output[r] = BuiltInResult(ops[r], Operands(ops[r]))
    BY DEF DataflowCorrect, Computed
  <2>1. last_operands[r] = Operands(ops[r])
    BY DEF Inv, UpToDate, Passed, Idle
  <2>2. Operands(ops[r]) # <<>>
    BY OperandsType DEF Inv
  <2>3. QED
    BY <2>1, <2>2 DEF Inv, OutputsCurrent
<1>2. QED
  BY <1>1, Invariance, PTL

(* For every table, policy and credential, no PUT leaves that the gates of *)
(* output_authorized() refuse for the message being processed.             *)
THEOREM Authorization == Spec => []PutsAuthorized
<1>1. Inv => PutsAuthorized
  BY DEF Inv
<1>2. QED
  BY <1>1, Invariance, PTL

(* For every table, a suppressed result of evaluate_op() never appears in  *)
(* the value cache of a device index that no report feeds.                 *)
THEOREM NoTraceInCache == Spec => []CachedOnlyIfCommitted
<1>1. Inv => CachedOnlyIfCommitted
  BY DEF Inv
<1>2. QED
  BY <1>1, Invariance, PTL
-----------------------------------------------------------------------------
(* The controller's walk.  Sequences are looked at through what they hold  *)
(* and whether they repeat themselves.                                     *)

Holds(s, x) == \E k \in 1 .. Len(s) : s[k] = x
Distinct(s) == \A j, k \in 1 .. Len(s) : s[j] = s[k] => j = k

LEMMA HoldsAppend ==
  ASSUME NEW S, NEW s \in Seq(S), NEW x \in S
  PROVE  /\ Holds(Append(s, x), x)
         /\ \A y : Holds(s, y) => Holds(Append(s, x), y)
         /\ \A y : Holds(Append(s, x), y) => Holds(s, y) \/ y = x
<1>1. /\ Len(Append(s, x)) = Len(s) + 1 /\ Len(s) \in Nat
      /\ Append(s, x)[Len(s) + 1] = x
      /\ \A k \in 1 .. Len(s) : Append(s, x)[k] = s[k]
  OBVIOUS
<1>2. QED
  BY <1>1 DEF Holds

(* A sequence stays free of repetitions within its first n elements when   *)
(* what is appended is not among them.                                     *)
LEMMA ClipAppend ==
  ASSUME NEW S, NEW s \in Seq(S), NEW x \in S, NEW n \in Nat,
         Distinct(Clip(s, n)), ~Holds(Clip(s, n), x)
  PROVE  Distinct(Clip(Append(s, x), n))
<1> DEFINE app == Append(s, x)
<1>1. /\ app \in Seq(S) /\ Len(app) = Len(s) + 1 /\ Len(s) \in Nat
      /\ app[Len(s) + 1] = x
      /\ \A k \in 1 .. Len(s) : app[k] = s[k]
  OBVIOUS
<1> SUFFICES Distinct(Clip(app, n))
  OBVIOUS
<1> HIDE DEF app
<1>2. /\ Len(Clip(s, n)) = IF Len(s) < n THEN Len(s) ELSE n
      /\ \A k \in 1 .. Len(Clip(s, n)) : Clip(s, n)[k] = s[k]
  BY <1>1 DEF Clip
<1>3. /\ Len(Clip(app, n)) = IF Len(app) < n THEN Len(app) ELSE n
      /\ \A k \in 1 .. Len(Clip(app, n)) : Clip(app, n)[k] = app[k]
  BY <1>1 DEF Clip
<1>4. CASE Len(s) < n
  <2>1. /\ Len(Clip(s, n)) = Len(s) /\ Len(Clip(app, n)) = Len(s) + 1
    BY <1>1, <1>2, <1>3, <1>4
  <2>2. \A j, k \in 1 .. Len(s) : s[j] = s[k] => j = k
    BY <1>2, <2>1 DEF Distinct
  <2>3. \A j \in 1 .. Len(s) : s[j] # x
    BY <1>2, <2>1 DEF Holds
  <2>4. QED
    BY <1>1, <1>3, <2>1, <2>2, <2>3 DEF Distinct
<1>5. CASE ~(Len(s) < n)
  BY <1>1, <1>2, <1>3, <1>5 DEF Distinct
<1>6. QED
  BY <1>4, <1>5

(* The inputs the walk of bm_controller_start() has been over. *)
Walked(r, j) == r < cursor.i \/ (r = cursor.i /\ j < cursor.j)

(* The walk's invariant: what it has been over and could be subscribed to  *)
(* has been, and nothing else, without repetition while sent[] has room.   *)
WalkStart == phase \in {"load", "policy"} => subs = <<>> /\ cursor = [i |-> 1, j |-> 1]
WalkEnd   == phase = "run" => cursor.i = n_ops + 1
WalkSent  == \A r \in Rows : \A j \in 1 .. Len(ops[r].inputs) :
               Subscribable(r, j) /\ Walked(r, j) => Holds(subs, SourceOf(r, j))
WalkAsked == \A key : Holds(subs, key) =>
               \E r \in Rows : \E j \in 1 .. Len(ops[r].inputs) :
                 Subscribable(r, j) /\ key = SourceOf(r, j)
WalkInv == WalkStart /\ WalkEnd /\ WalkSent /\ WalkAsked /\ Distinct(Clip(subs, MaxAddrs))

LEMMA SameTable ==
  ASSUME UNCHANGED <<ops, addrs>>
  PROVE  /\ Rows' = Rows /\ n_ops' = n_ops
         /\ \A r, j : SourceOf(r, j)' = SourceOf(r, j)
         /\ \A r, j : Subscribable(r, j)' <=> Subscribable(r, j)
<1>1. Rows' = Rows /\ n_ops' = n_ops /\ \A r, j : SourceOf(r, j)' = SourceOf(r, j)
  BY DEF Rows, n_ops, SourceOf
<1>2. \A d : bm_find_addr(d)' = bm_find_addr(d)
  BY DEF bm_find_addr
<1>3. \A r, j : Subscribable(r, j)' <=> Subscribable(r, j)
  BY <1>2, Zenon DEF Subscribable, External
<1>4. QED
  BY <1>1, <1>3

LEMMA NothingWalked ==
  ASSUME TypeOK, subs = <<>>, cursor = [i |-> 1, j |-> 1], phase # "run"
  PROVE  WalkInv
<1>1. \A key : ~Holds(subs, key)
  BY DEF Holds
<1>2. Distinct(Clip(subs, MaxAddrs))
  <2>1. subs \in Seq(STRING \X Nat) /\ MaxAddrs \in Nat
    BY LimitsAssumption DEF TypeOK
  <2>2. /\ Len(Clip(subs, MaxAddrs)) \in Nat
        /\ Len(Clip(subs, MaxAddrs)) <= Len(subs)
    BY <2>1, ClipType
  <2>3. Len(subs) = 0
    OBVIOUS
  <2>4. Len(Clip(subs, MaxAddrs)) = 0
    BY <2>2, <2>3
  <2>5. QED
    BY <2>4 DEF Distinct
<1>3. \A r \in Rows : \A j \in 1 .. Len(ops[r].inputs) : ~Walked(r, j)
  BY DEF Walked, Rows
<1>4. QED
  BY <1>1, <1>2, <1>3 DEF WalkInv, WalkStart, WalkEnd, WalkSent, WalkAsked
(* The walk's step: every branch of SubscribeInput keeps the invariant. *)
LEMMA WalkInputStep ==
  ASSUME TypeOK, WalkInv, SubscribeInput
  PROVE  WalkInv'
<1> DEFINE row == cursor.i
           col == cursor.j
           key == SourceOf(row, col)
<1>1. /\ phase = "subscribe" /\ phase' = phase /\ UNCHANGED <<ops, addrs>>
      /\ row \in Rows /\ ops[row].enabled /\ col \in 1 .. Len(ops[row].inputs)
  BY DEF SubscribeInput
<1>2. cursor' = [i |-> row, j |-> col + 1] /\ row \in Nat /\ col \in Nat
  <2>1. cursor \in [i : 1 .. n_ops + 1, j : Nat \ {0}]
    BY DEF TypeOK
  <2>2. cursor' = [cursor EXCEPT !.j = @ + 1]
    BY DEF SubscribeInput
  <2>3. QED
    BY <2>1, <2>2
<1>3. subs' = IF Subscribable(row, col) /\ ~AlreadySent(key) THEN Append(subs, key) ELSE subs
  BY <1>1, Zenon DEF SubscribeInput, Subscribable, SourceOf
<1>4. key \in STRING \X Nat
  <2>1. ops[row].inputs[col] \in Input
    BY <1>1, RowType
  <2>2. ops[row].inputs[col].so \in STRING /\ ops[row].inputs[col].di \in Nat
    BY <2>1 DEF Input
  <2>3. QED
    BY <2>2 DEF SourceOf
<1>5. subs \in Seq(STRING \X Nat) /\ MaxAddrs \in Nat
  BY LimitsAssumption DEF TypeOK
<1>6. AlreadySent(key) <=> Holds(Clip(subs, MaxAddrs), key)
  <2>1. \A k \in 1 .. Len(Clip(subs, MaxAddrs)) : Clip(subs, MaxAddrs)[k] = subs[k]
    BY <1>5, ClipType
  <2>2. QED
    BY <2>1 DEF AlreadySent, Holds
<1>7. AlreadySent(key) => Holds(subs, key)
  <2>1. Len(Clip(subs, MaxAddrs)) \in Nat /\ Len(Clip(subs, MaxAddrs)) <= Len(subs)
    BY <1>5, ClipType
  <2>2. Len(subs) \in Nat
    BY <1>5
  <2>3. QED
    BY <2>1, <2>2 DEF AlreadySent, Holds
<1> HIDE DEF row, col, key
<1>8. /\ \A y : Holds(subs, y) => Holds(subs', y)
      /\ \A y : Holds(subs', y) => Holds(subs, y) \/ (y = key /\ Subscribable(row, col))
      /\ Subscribable(row, col) => Holds(subs', key)
  BY <1>3, <1>4, <1>5, <1>7, HoldsAppend
<1>9. Distinct(Clip(subs', MaxAddrs))
  BY <1>3, <1>4, <1>5, <1>6, ClipAppend DEF WalkInv
<1>10. \A r \in Rows : \A j \in 1 .. Len(ops[r].inputs) :
         Walked(r, j)' => Walked(r, j) \/ (r = row /\ j = col)
  <2>1. \A r \in Rows : \A j \in 1 .. Len(ops[r].inputs) : r \in Nat /\ j \in Nat
    BY DEF Rows
  <2>2. cursor.i = row /\ cursor.j = col /\ cursor'.i = row /\ cursor'.j = col + 1
    BY <1>2 DEF row, col
  <2>3. QED
    BY <1>2, <2>1, <2>2 DEF Walked
<1>11. WalkSent'
  <2>1. ASSUME NEW r \in Rows, NEW j \in 1 .. Len(ops[r].inputs),
               Subscribable(r, j), Walked(r, j)'
        PROVE  Holds(subs', SourceOf(r, j))
    <3>1. CASE Walked(r, j)
      BY <1>8, <2>1, <3>1 DEF WalkInv, WalkSent
    <3>2. CASE r = row /\ j = col
      BY <1>8, <2>1, <3>2 DEF key
    <3>3. QED
      BY <1>10, <2>1, <3>1, <3>2
  <2>2. QED
    BY <1>1, <2>1, SameTable DEF WalkSent
<1>12. WalkAsked'
  <2>1. ASSUME NEW y, Holds(subs', y)
        PROVE  \E r \in Rows : \E j \in 1 .. Len(ops[r].inputs) :
                 Subscribable(r, j) /\ y = SourceOf(r, j)
    <3>1. CASE Holds(subs, y)
      BY <3>1 DEF WalkInv, WalkAsked
    <3>2. CASE y = key /\ Subscribable(row, col)
      BY <1>1, <3>2 DEF key
    <3>3. QED
      BY <1>8, <2>1, <3>1, <3>2
  <2>2. QED
    BY <1>1, <2>1, SameTable DEF WalkAsked
<1>13. WalkStart' /\ WalkEnd'
  BY <1>1 DEF WalkStart, WalkEnd
<1>14. QED
  BY <1>9, <1>11, <1>12, <1>13 DEF WalkInv

LEMMA WalkRowStep ==
  ASSUME TypeOK, WalkInv, SubscribeNextRow
  PROVE  WalkInv'
<1>1. /\ phase = "subscribe" /\ phase' = phase /\ UNCHANGED <<ops, addrs, subs>>
      /\ cursor.i \in Rows /\ cursor' = [i |-> cursor.i + 1, j |-> 1]
      /\ ops[cursor.i].enabled => cursor.j > Len(ops[cursor.i].inputs)
  BY DEF SubscribeNextRow
<1>2. \A r \in Rows : \A j \in 1 .. Len(ops[r].inputs) :
        Subscribable(r, j) /\ Walked(r, j)' => Walked(r, j)
  <2>1. ASSUME NEW r \in Rows, NEW j \in 1 .. Len(ops[r].inputs), Subscribable(r, j),
               Walked(r, j)'
        PROVE  Walked(r, j)
    <3>1. r \in Nat /\ j \in Nat /\ cursor.i \in Nat /\ cursor.j \in Nat
      BY DEF Rows, TypeOK
    <3>2. r < cursor.i + 1
      BY <1>1, <2>1, <3>1 DEF Walked
    <3>3. CASE r = cursor.i
      <4>1. cursor.j > Len(ops[r].inputs) /\ Len(ops[r].inputs) \in Nat
        BY <1>1, <2>1, <3>3, RowType DEF Subscribable
      <4>2. QED
        BY <3>1, <3>3, <4>1 DEF Walked
    <3>4. CASE r # cursor.i
      BY <3>1, <3>2, <3>4 DEF Walked
    <3>5. QED
      BY <3>3, <3>4
  <2>2. QED
    BY <2>1
<1>3. WalkSent' /\ WalkAsked'
  BY <1>1, <1>2, SameTable DEF WalkInv, WalkSent, WalkAsked
<1>4. WalkStart' /\ WalkEnd' /\ Distinct(Clip(subs', MaxAddrs))
  BY <1>1 DEF WalkInv, WalkStart, WalkEnd
<1>5. QED
  BY <1>3, <1>4 DEF WalkInv

LEMMA WalkStep ==
  ASSUME TypeOK, TypeOK', WalkInv, [Next]_vars
  PROVE  WalkInv'
<1>1. ASSUME NEW doc \in Docs, bm_load_xml(doc)
      PROVE  WalkInv'
  <2>1. (subs = <<>> /\ cursor = [i |-> 1, j |-> 1] /\ phase # "run")'
    BY <1>1 DEF bm_load_xml, WalkInv, WalkStart
  <2>2. QED
    BY <2>1, NothingWalked, PTL
<1>2. ASSUME UNCHANGED <<ops, addrs, subs, cursor>>,
             phase' # phase => \/ phase \in {"load", "policy"} /\ phase' # "run"
                               \/ cursor.i = n_ops + 1 /\ phase' = "run"
      PROVE  WalkInv'
  <2>1. WalkSent' /\ WalkAsked'
    BY <1>2, SameTable DEF WalkInv, WalkSent, WalkAsked, Walked
  <2>2. WalkStart' /\ WalkEnd'
    BY <1>2, SameTable DEF WalkInv, WalkStart, WalkEnd, TypeOK
  <2>3. QED
    BY <1>2, <2>1, <2>2 DEF WalkInv
<1>3. CASE LoadFails \/ bm_disable_authorization \/ bm_controller_start
           \/ (\E p \in Policies : bm_set_at(p[1], p[2]))
           \/ (\E h \in HookSets : EnterLoop(h))
  BY <1>2, <1>3 DEF LoadFails, bm_disable_authorization, bm_controller_start, bm_set_at,
                    EnterLoop
<1>4. CASE (\E m \in Messages : bm_processor_handle(m)) \/ Step \/ UNCHANGED vars
  <2>1. UNCHANGED config
    BY <1>4 DEF bm_processor_handle, Step, SkipRow, UnchangedRow, SuppressRow, CommitRow,
                ReturnToRow, Finish, vars
  <2>2. QED
    BY <1>2, <2>1 DEF config
<1>5. QED
  BY <1>1, <1>3, <1>4, WalkInputStep, WalkRowStep DEF Next, Boot

(* For every table and limit: when core_main enters its loop, each         *)
(* external source of an enabled row has been subscribed to, nothing else  *)
(* has, and none twice unless sent[] overflowed.                           *)
THEOREM Subscriptions == Spec => []SubscriptionsComplete
<1>1. Init => WalkInv
  <2>1. Init => TypeOK /\ subs = <<>> /\ cursor = [i |-> 1, j |-> 1] /\ phase # "run"
    BY TypeInit DEF Init
  <2>2. QED
    BY <2>1, NothingWalked
<1>2. TypeOK /\ TypeOK' /\ WalkInv /\ [Next]_vars => WalkInv'
  BY WalkStep
<1>3. TypeOK /\ WalkInv => SubscriptionsComplete
  <2> SUFFICES ASSUME TypeOK, WalkInv, phase = "run"
               PROVE  SubscriptionsComplete
    BY DEF SubscriptionsComplete
  <2>1. ASSUME NEW r \in Rows, NEW j \in 1 .. Len(ops[r].inputs)
        PROVE  Walked(r, j)
    BY DEF Walked, WalkInv, WalkEnd, Rows, n_ops, TypeOK
  <2>2. \A r \in Rows : \A j \in 1 .. Len(ops[r].inputs) :
          Subscribable(r, j) => \E k \in 1 .. Len(subs) : subs[k] = SourceOf(r, j)
    BY <2>1 DEF WalkInv, WalkSent, Holds
  <2>3. \A k \in 1 .. Len(subs) : \E r \in Rows : \E j \in 1 .. Len(ops[r].inputs) :
          Subscribable(r, j) /\ subs[k] = SourceOf(r, j)
    BY DEF WalkInv, WalkAsked, Holds
  <2>4. ASSUME Len(subs) <= MaxAddrs
        PROVE  \A j, k \in 1 .. Len(subs) : subs[j] = subs[k] => j = k
    <3>1. subs \in Seq(STRING \X Nat) /\ MaxAddrs \in Nat
      BY LimitsAssumption DEF TypeOK
    <3>2. Clip(subs, MaxAddrs) = subs
      BY <2>4, <3>1 DEF Clip
    <3>3. QED
      BY <3>2 DEF WalkInv, Distinct
  <2>5. QED
    BY <2>2, <2>3, <2>4 DEF SubscriptionsComplete
<1>4. QED
  BY <1>1, <1>2, <1>3, TypeCorrect, PTL DEF Spec
-----------------------------------------------------------------------------
(* Tables in order: a row fires at most once per message.  PUTs and        *)
(* suspended activations are looked at through the rows they name.         *)

Named(s, r) == \E k \in 1 .. Len(s) : s[k].row = r
Once(s)   == \A j, k \in 1 .. Len(s) : s[j].row = s[k].row => j = k
Rising(s) == \A j, k \in 1 .. Len(s) : j < k => s[j].row < s[k].row

LEMMA NoneNamed == /\ \A r : ~Named(<<>>, r)
                   /\ \A c : ~Holds(<<>>, c)
                   /\ Once(<<>>) /\ Rising(<<>>)
<1>1. Len(<<>>) = 0
  OBVIOUS
<1>2. QED
  BY <1>1 DEF Named, Holds, Once, Rising

LEMMA NamedAppend ==
  ASSUME NEW S, NEW s \in Seq(S), NEW x \in S
  PROVE  /\ \A r : Named(Append(s, x), r) <=> Named(s, r) \/ r = x.row
         /\ Once(s) /\ ~Named(s, x.row) => Once(Append(s, x))
         /\ Rising(s) /\ (\A r : Named(s, r) => r < x.row) => Rising(Append(s, x))
<1> DEFINE app == Append(s, x)
<1>1. /\ Len(app) = Len(s) + 1 /\ Len(s) \in Nat /\ app[Len(s) + 1] = x
      /\ \A k \in 1 .. Len(s) : app[k] = s[k]
  OBVIOUS
<1> HIDE DEF app
<1>2. \A k \in 1 .. Len(app) : k \in 1 .. Len(s) \/ k = Len(s) + 1
  BY <1>1
<1>3. 1 .. Len(s) \subseteq 1 .. Len(app) /\ Len(s) + 1 \in 1 .. Len(app)
  BY <1>1
<1>4. \A r : Named(app, r) <=> Named(s, r) \/ r = x.row
  BY <1>1, <1>2, <1>3 DEF Named
<1>5. ASSUME Once(s), ~Named(s, x.row)
      PROVE  Once(app)
  BY <1>1, <1>2, <1>5 DEF Named, Once
<1>6. ASSUME Rising(s), \A r : Named(s, r) => r < x.row
      PROVE  Rising(app)
  <2>1. \A k \in 1 .. Len(s) : s[k].row < x.row
    BY <1>6 DEF Named
  <2>2. QED
    BY <1>1, <1>2, <1>6, <2>1 DEF Rising
<1>7. QED
  BY <1>4, <1>5, <1>6 DEF app

LEMMA NamedPop ==
  ASSUME NEW S, NEW s \in Seq(S), s # <<>>, \A y \in S : y.row \in Nat, Rising(s)
  PROVE  LET t == SubSeq(s, 1, Len(s) - 1)
             c == s[Len(s)]
         IN  /\ Rising(t) /\ Holds(s, c)
             /\ \A y : Holds(t, y) => Holds(s, y)
             /\ \A r : Named(t, r) => Named(s, r) /\ r # c.row
             /\ \A r : Named(s, r) => Named(t, r) \/ r = c.row
<1> DEFINE t == SubSeq(s, 1, Len(s) - 1)
           n == Len(s)
<1>1. /\ n \in Nat \ {0} /\ Len(t) = n - 1
      /\ \A i \in 1 .. n - 1 : t[i] = s[i]
  <2>1. n \in Nat \ {0}
    OBVIOUS
  <2>2. QED
    BY <2>1, PopType
<1>2. \A k \in 1 .. n : s[k].row \in Nat
  BY ElementType
<1>3. SUFFICES /\ Rising(t) /\ Holds(s, s[n])
               /\ \A y : Holds(t, y) => Holds(s, y)
               /\ \A r : Named(t, r) => Named(s, r) /\ r # s[n].row
               /\ \A r : Named(s, r) => Named(t, r) \/ r = s[n].row
  OBVIOUS
<1>4. \A j, k \in 1 .. n : j < k => s[j].row < s[k].row
  BY DEF Rising
<1>5. \A r : Named(s, r) <=> \E k \in 1 .. n : s[k].row = r
  BY DEF Named
<1>6. \A y : Holds(s, y) <=> \E k \in 1 .. n : s[k] = y
  BY DEF Holds
<1> HIDE DEF t, n
<1>7. Rising(t)
  BY <1>1, <1>4 DEF Rising
<1>8. Holds(s, s[n]) /\ \A y : Holds(t, y) => Holds(s, y)
  <2>1. n \in 1 .. n /\ 1 .. Len(t) \subseteq 1 .. n
    BY <1>1
  <2>2. \A k \in 1 .. Len(t) : t[k] = s[k]
    BY <1>1
  <2>3. QED
    BY <1>6, <2>1, <2>2 DEF Holds
<1>9. \A r : Named(t, r) => Named(s, r) /\ r # s[n].row
  <2>1. ASSUME NEW k \in 1 .. Len(t)
        PROVE  Named(s, t[k].row) /\ t[k].row # s[n].row
    <3>1. k \in 1 .. n /\ n \in 1 .. n /\ k < n /\ t[k] = s[k]
      BY <1>1
    <3>2. s[k].row < s[n].row
      BY <1>4, <3>1
    <3>3. QED
      BY <1>2, <1>5, <3>1, <3>2
  <2>2. QED
    BY <2>1 DEF Named
<1>10. \A r : Named(s, r) => Named(t, r) \/ r = s[n].row
  <2>1. ASSUME NEW k \in 1 .. n
        PROVE  Named(t, s[k].row) \/ s[k].row = s[n].row
    <3>1. CASE k = n
      BY <3>1
    <3>2. CASE k # n
      <4>1. k \in 1 .. Len(t) /\ t[k] = s[k]
        BY <1>1, <3>2
      <4>2. QED
        BY <4>1 DEF Named
    <3>3. QED
      BY <3>1, <3>2
  <2>2. QED
    BY <1>5, <2>1
<1>11. QED
  BY <1>7, <1>8, <1>9, <1>10

(* Rising rows out of n are at most n. *)
LEMMA RisingLength ==
  ASSUME NEW n \in Nat, NEW S, NEW s \in Seq(S), \A y \in S : y.row \in 1 .. n, Rising(s)
  PROVE  Len(s) <= n
<1> DEFINE Bad == {k \in 1 .. Len(s) : s[k].row < k}
<1>1. \A k \in 1 .. Len(s) : s[k].row \in 1 .. n
  BY ElementType
<1>2. Len(s) \in Nat
  OBVIOUS
<1>3. Bad = {}
  <2> SUFFICES ASSUME Bad # {} PROVE FALSE
    OBVIOUS
  <2>1. Bad \subseteq Nat
    OBVIOUS
  <2>2. PICK k \in Bad : \A j \in Bad : k <= j
    BY <2>1, LeastNat
  <2>3. k \in 1 .. Len(s) /\ s[k].row < k /\ s[k].row \in 1 .. n
    BY <1>1
  <2>4. k - 1 \in 1 .. Len(s)
    BY <1>2, <2>3
  <2>5. s[k - 1].row < s[k].row /\ s[k - 1].row \in 1 .. n
    BY <1>1, <2>3, <2>4 DEF Rising
  <2>6. k - 1 \in Bad
    BY <2>3, <2>4, <2>5
  <2>7. QED
    BY <2>2, <2>3, <2>6
<1>4. CASE Len(s) = 0
  BY <1>4
<1>5. CASE Len(s) # 0
  <2>1. Len(s) \in 1 .. Len(s)
    BY <1>2, <1>5
  <2>2. s[Len(s)].row \in 1 .. n /\ ~(s[Len(s)].row < Len(s))
    BY <1>1, <1>3, <2>1
  <2>3. QED
    BY <1>2, <2>2
<1>6. QED
  BY <1>4, <1>5
(* No report and no result of the app is NaN.  A NaN operand compares      *)
(* different from itself, so a row that reads one fires on every pass.     *)
Numbers ==
  /\ \A m \in Messages : \A k \in 1 .. Len(m.payload) : m.payload[k].v # NaN
  /\ NaN \notin AppResults

(* On numbers, every operation and condition computes a number. *)
LEMMA ConditionNumber ==
  ASSUME NEW code, NEW v \in Int
  PROVE  apply_condition(code, v) \in Int
  BY LimitsAssumption DEF apply_condition, Neg, Less

LEMMA OperationNumber ==
  ASSUME NEW code, NEW a \in Int, NEW b \in Int
  PROVE  apply_operation(code, a, b) \in Int
<1>1. a # NaN /\ b # NaN
  BY LimitsAssumption
<1>2. b # 0 => Quotient(a, b) \in Int
  BY DEF Quotient
<1>3. \A p \in BOOLEAN : Flag(p) \in Int
  BY DEF Flag
<1>4. /\ Less(a, b) \in BOOLEAN /\ Less(b, a) \in BOOLEAN
      /\ Same(a, b) \in BOOLEAN /\ (a = 0) \in BOOLEAN
  BY DEF Less, Same
<1>5. a + b \in Int /\ a - b \in Int /\ a * b \in Int
  OBVIOUS
<1>6. \A x : Arith(a, b, x) = x
  BY <1>1 DEF Arith
<1>7. (IF b = 0 THEN 0 ELSE Arith(a, b, Quotient(a, b))) \in Int
  BY <1>2, <1>6
<1> DEFINE Number == Int
<1>8. /\ \A p \in BOOLEAN : Flag(p) \in Number
      /\ Arith(a, b, a + b) \in Number /\ Arith(a, b, a - b) \in Number
      /\ Arith(a, b, a * b) \in Number /\ 0 \in Number
      /\ (IF b = 0 THEN 0 ELSE Arith(a, b, Quotient(a, b))) \in Number
  BY <1>3, <1>5, <1>6, <1>7
<1> SUFFICES apply_operation(code, a, b) \in Number
  OBVIOUS
<1> HIDE DEF Number
<1>9. QED
  BY <1>4, <1>8 DEF apply_operation

(* The number read out of a report that carries numbers only. *)
LEMMA DatumNumber ==
  ASSUME NEW payload \in Seq(Datum), payload # <<>>,
         \A k \in 1 .. Len(payload) : payload[k].v # NaN, NEW want
  PROVE  bm_datum_value(payload, want) \in Int
<1> DEFINE At == {i \in 1 .. Len(payload) : payload[i].code = want}
<1>1. \A i \in 1 .. Len(payload) : payload[i].v \in Int
  <2>1. \A i \in 1 .. Len(payload) : payload[i] \in Datum
    OBVIOUS
  <2>2. \A d \in Datum : d.v \in Int \cup {NaN}
    BY DEF Datum, Value
  <2>3. QED
    BY <2>1, <2>2
<1>2. 1 \in 1 .. Len(payload)
  OBVIOUS
<1>3. At # {} => (CHOOSE i \in At : \A j \in At : i <= j) \in 1 .. Len(payload)
  <2>1. At \subseteq Nat
    OBVIOUS
  <2>2. At # {} => \E i \in At : \A j \in At : i <= j
    BY <2>1, LeastNat
  <2>3. QED
    BY <2>2
<1> DEFINE Number == Int
<1>4. 0 \in Number /\ \A i \in 1 .. Len(payload) : payload[i].v \in Number
  BY <1>1
<1> SUFFICES bm_datum_value(payload, want) \in Number
  OBVIOUS
<1> HIDE DEF Number
<1>5. QED
  BY <1>2, <1>3, <1>4 DEF bm_datum_value

(* The cache holds numbers. *)
CacheNumbers == \A d \in Dis : value_cache[d] \in Int

LEMMA OperandNumbers ==
  ASSUME TypeOK, CacheNumbers, NEW r \in Rows, Runnable(ops[r])
  PROVE  /\ Operands(ops[r]) \in Seq(Int)
         /\ Operands(ops[r])[1] \in Int
<1> DEFINE ins == ops[r].inputs
<1>1. ins \in Seq(Input) /\ ins # <<>>
  BY RowType DEF Runnable, op_ready
<1>2. \A j \in 1 .. Len(ins) : value_cache[ins[j].di] \in Int
  BY <1>1 DEF Runnable, op_ready, TypeOK, CacheNumbers
<1>3. \A j \in 1 .. Len(ins) : apply_condition(ins[j].co, value_cache[ins[j].di]) \in Int
  BY <1>2, ConditionNumber
<1> HIDE DEF ins
<1>4. Operands(ops[r]) = [j \in 1 .. Len(ins) |->
                            apply_condition(ins[j].co, value_cache[ins[j].di])]
  BY DEF Operands, ins
<1>5. QED
  BY <1>1, <1>3, <1>4

(* On numbers, operands that have changed are different ones. *)
LEMMA ChangedMeansDifferent ==
  ASSUME TypeOK, CacheNumbers, NEW r \in Rows, Runnable(ops[r]),
         inputs_changed(last_operands[r], Operands(ops[r]))
  PROVE  last_operands[r] # Operands(ops[r])
<1> DEFINE operands == Operands(ops[r])
<1>1. operands \in Seq(Int)
  BY OperandNumbers
<1> HIDE DEF operands
<1>2. \A j \in 1 .. Len(operands) : operands[j] # NaN
  BY <1>1, LimitsAssumption
<1>3. ~inputs_changed(operands, operands)
  BY <1>2 DEF inputs_changed, Same
<1>4. QED
  BY <1>3 DEF operands

LEMMA ResultNumber ==
  ASSUME Numbers, TypeOK, CacheNumbers, NEW r \in Rows, Runnable(ops[r]),
         NEW result \in Results(ops[r], Operands(ops[r]))
  PROVE  result = None \/ result \in Int
<1> DEFINE operands == Operands(ops[r])
<1>1. operands \in Seq(Int) /\ operands[1] \in Int
  BY OperandNumbers
<1>2. SecondOperand(ops[r], operands) \in Int
  <2>1. ops[r].params \in Seq(Param)
    BY RowType
  <2>2. \A q \in Param : q.v \in Int
    BY DEF Param
  <2>3. QED
    BY <1>1, <2>1, <2>2 DEF SecondOperand
<1>3. BuiltInResult(ops[r], operands) \in Int
  BY <1>1, <1>2, OperationNumber, ConditionNumber DEF BuiltInResult
<1>4. AppResults \subseteq Int
  BY LimitsAssumption DEF Numbers, Value
<1>5. \A v \in AppResults : apply_condition(ops[r].out.ad, v) \in Int
  BY <1>4, ConditionNumber
<1>6. QED
  BY <1>3, <1>5 DEF Results

LEMMA NumbersStep ==
  ASSUME Numbers, TypeOK, CacheNumbers, [Next]_vars
  PROVE  CacheNumbers'
<1>1. CASE UNCHANGED value_cache
  BY <1>1 DEF CacheNumbers
<1>2. ASSUME NEW m \in Messages, bm_processor_handle(m), Reports(m)
      PROVE  CacheNumbers'
  <2>1. m \in Message
    BY InputAssumption
  <2>2. m.payload \in Seq(Datum) /\ m.payload # <<>>
    BY <1>2, <2>1 DEF Message, Reports
  <2>3. bm_datum_value(m.payload, "va") \in Int
    BY <2>2, DatumNumber DEF Numbers
  <2>4. QED
    BY <1>2, <2>3 DEF bm_processor_handle, CacheNumbers
<1>3. CASE CommitRow
  <2>1. pos \in Rows /\ Runnable(ops[pos])
    BY <1>3 DEF CommitRow, AtRow
  <2>2. PICK result \in Results(ops[pos], Operands(ops[pos])) :
          ~Suppressed(pos, result) /\ Commit(result)
    BY <1>3 DEF CommitRow
  <2>3. result \in Int
    BY <2>1, <2>2, ResultNumber DEF Suppressed
  <2>4. value_cache \in [Dis -> Value]
    BY DEF TypeOK
  <2>5. QED
    BY <2>2, <2>3, <2>4 DEF Commit, CacheNumbers, cache
<1>4. QED
  BY <1>1, <1>2, <1>3 DEF Next, Boot, Step, vars, cache, bm_load_xml, LoadFails,
     bm_disable_authorization, bm_set_at, bm_controller_start, SubscribeInput, SubscribeNextRow,
     EnterLoop, bm_processor_handle, SkipRow, UnchangedRow, SuppressRow, ReturnToRow, Finish
-----------------------------------------------------------------------------
(* The invariant of a table in order while a message is processed.         *)

(* Rows that fired for this message: their PUT has left or is owed. *)
Fired(r) == Named(out, r) \/ Named(calls, r)

(* No row up to the last one that fired has anything new to read. *)
Settled ==
  \A f, r \in Rows : Fired(f) /\ r <= f /\ Runnable(ops[r]) =>
    last_operands[r] = Operands(ops[r])

(* So each row fired once, and suspended activations stack up in row order. *)
FiredOnce == Once(out) /\ Rising(calls) /\ \A r : ~(Named(out, r) /\ Named(calls, r))

(* What a suspended activation owes is still what the cache records. *)
OwesCached ==
  \A c : Holds(calls, c) =>
    /\ ops[c.row].out.di \in Dis
    /\ ~Sourced(ops[c.row].out.di) => c.result = value_cache[ops[c.row].out.di]

(* A device was told something only by a row with a destination, and what  *)
(* the cache records unless its row still owes the PUT.                    *)
ToldByRow ==
  \A d \in Dis : told[d] # None => \E r \in Rows : ops[r].out.di = d /\ ops[r].out.dest # ""
ToldOrOwed ==
  \A d \in Dis : told[d] # None /\ ~Sourced(d) =>
    \/ told[d] = FormatG(value_cache[d])
    \/ \E r \in Rows : Named(calls, r) /\ ops[r].out.di = d

OrderInv ==
  /\ phase # "run" => \A d \in Dis : told[d] = None
  /\ InOrder => Settled /\ FiredOnce /\ OwesCached /\ ToldByRow /\ ToldOrOwed

(* The order of a table is settled when it is loaded. *)
LEMMA SameOrder ==
  ASSUME UNCHANGED ops
  PROVE  InOrder' <=> InOrder
  BY DEF InOrder, Rows

(* With nothing fired there is nothing to say but of earlier messages. *)
LEMMA NothingFired ==
  ASSUME calls = <<>>, out = <<>>
  PROVE  Settled /\ FiredOnce /\ OwesCached
  BY NoneNamed DEF Settled, Fired, FiredOnce, OwesCached

LEMMA OrderBoot ==
  ASSUME Inv, TypeOK', BootInv', OrderInv, Boot
  PROVE  OrderInv'
<1>1. phase # "run" /\ told' = told
  BY DEF Boot, bm_load_xml, LoadFails, bm_disable_authorization, bm_set_at,
         bm_controller_start, SubscribeInput, SubscribeNextRow, EnterLoop
<1>2. \A d \in Dis : told'[d] = None
  BY <1>1 DEF OrderInv
<1>3. (calls = <<>> /\ out = <<>>)'
  BY BootIsQuiet
<1>4. (Settled /\ FiredOnce /\ OwesCached)'
  BY <1>3, NothingFired, PTL
<1>5. ToldByRow' /\ ToldOrOwed'
  BY <1>2 DEF ToldByRow, ToldOrOwed
<1>6. QED
  BY <1>2, <1>4, <1>5 DEF OrderInv

LEMMA OrderHandle ==
  ASSUME Inv, OrderInv, NEW m \in Messages, bm_processor_handle(m)
  PROVE  OrderInv'
<1>1. phase = "run" /\ UNCHANGED <<config, told, calls>> /\ out' = <<>> /\ calls = <<>>
  BY DEF bm_processor_handle, Inv, BootInv
<1>2. (calls = <<>> /\ out = <<>>)'
  BY <1>1
<1>3. (Settled /\ FiredOnce /\ OwesCached)'
  BY <1>2, NothingFired, PTL
<1>4. \A d \in Dis : ~Sourced(d) => value_cache'[d] = value_cache[d]
  <2>1. \A d \in Updated(m) : Sourced(d)
    BY DEF Updated, Matches, Sourced
  <2>2. QED
    BY <2>1 DEF bm_processor_handle, cache
<1>5. ASSUME InOrder PROVE ToldByRow' /\ ToldOrOwed'
  BY <1>1, <1>4, <1>5, SameGate DEF OrderInv, ToldByRow, ToldOrOwed, config
<1>6. QED
  BY <1>1, <1>3, <1>5, SameOrder DEF OrderInv, config

(* A row that does not fire leaves everything but its own operands. *)
LEMMA OrderQuiet ==
  ASSUME Inv, OrderInv, SkipRow \/ UnchangedRow \/ SuppressRow \/ Finish \/ UNCHANGED vars
  PROVE  OrderInv'
<1>0. TypeOK
  BY DEF Inv
<1>1. UNCHANGED <<config, cache, calls, out, told>>
  BY DEF SkipRow, UnchangedRow, SuppressRow, Finish, vars
<1>2. \A r \in Rows : Runnable(ops[r]) =>
        last_operands'[r] = last_operands[r] \/ last_operands'[r] = Operands(ops[r])
  <2>1. CASE UNCHANGED last_operands
    BY <2>1
  <2>2. CASE UnchangedRow \/ SuppressRow
    BY <1>0, <2>2 DEF UnchangedRow, SuppressRow, AtRow, RecordOperands, TypeOK
  <2>3. QED
    BY <2>1, <2>2 DEF SkipRow, Finish, vars
<1>3. ASSUME Settled PROVE Settled'
  BY <1>1, <1>2, <1>3, SameView DEF Settled, Fired, config
<1>4. ASSUME FiredOnce PROVE FiredOnce'
  BY <1>1, <1>4 DEF FiredOnce
<1>5. ASSUME OwesCached, ToldByRow, ToldOrOwed PROVE OwesCached' /\ ToldByRow' /\ ToldOrOwed'
  BY <1>1, <1>5, SameGate DEF OwesCached, ToldByRow, ToldOrOwed, config, cache
<1>6. QED
  BY <1>1, <1>3, <1>4, <1>5, SameOrder DEF OrderInv, config
(* What SendPut() does to the PUTs and to what devices were told. *)
LEMMA SendPutEffect ==
  ASSUME TypeOK, NEW r \in Rows, NEW result \in Value, SendPut(r, result)
  PROVE  /\ \A q : Named(out', q) => Named(out, q) \/ q = r
         /\ \A q : Named(out, q) => Named(out', q)
         /\ Once(out) /\ ~Named(out, r) => Once(out')
         /\ \A d \in Dis : told'[d] = IF d = ops[r].out.di /\ ops[r].out.dest # ""
                                      THEN FormatG(result) ELSE told[d]
<1>1. CASE ops[r].out.dest # ""
  <2> DEFINE put == Put(r, result)
  <2>1. put \in [row : Rows, di : Nat, payload : Value]
    BY FormatType, RowType DEF Put
  <2>2. put.row = r
    BY DEF Put
  <2>3. out \in Seq([row : Rows, di : Nat, payload : Value])
    BY DEF TypeOK
  <2>4. out' = Append(out, put)
    BY <1>1 DEF SendPut
  <2>5. told' = [d \in Dis |-> IF d = ops[r].out.di THEN FormatG(result) ELSE told[d]]
    BY <1>1 DEF SendPut
  <2> HIDE DEF put
  <2>6. /\ \A q : Named(out', q) <=> Named(out, q) \/ q = r
        /\ Once(out) /\ ~Named(out, r) => Once(out')
    BY <2>1, <2>2, <2>3, <2>4, NamedAppend
  <2>7. QED
    BY <1>1, <2>5, <2>6
<1>2. CASE ops[r].out.dest = ""
  BY <1>2 DEF SendPut
<1>3. QED
  BY <1>1, <1>2

(* A row that fires in a table in order stands after every row that has    *)
(* fired, and its new value is read only by rows after it.                 *)
LEMMA FiresLast ==
  ASSUME Inv, CacheNumbers, OrderInv, InOrder, CommitRow
  PROVE  /\ \A f \in Rows : Fired(f) => f < pos
         /\ \A r \in Rows : r <= pos /\ Runnable(ops[r])' =>
              last_operands'[r] = Operands(ops[r])'
<1>0. TypeOK /\ UpToDate /\ Settled
  BY DEF Inv, OrderInv
<1>1. /\ pos \in Rows /\ Runnable(ops[pos]) /\ UNCHANGED config
      /\ last_operands' = [last_operands EXCEPT ![pos] = Operands(ops[pos])]
      /\ inputs_changed(last_operands[pos], Operands(ops[pos]))
  BY DEF CommitRow, AtRow, RecordOperands
<1>2. last_operands[pos] # Operands(ops[pos])
  BY <1>0, <1>1, ChangedMeansDifferent
<1>3. Rows \subseteq Nat /\ pos \in Nat \ {0}
  BY <1>1 DEF Rows
<1>4. \A f \in Rows : Fired(f) => f < pos
  BY <1>0, <1>1, <1>2, <1>3 DEF Settled
<1>5. PICK result : Commit(result)
  BY DEF CommitRow
<1>6. \A d \in Dis : d # ops[pos].out.di => value_cache'[d] = value_cache[d]
  BY <1>0, <1>5 DEF Commit, cache, TypeOK
<1>7. \A d : d # ops[pos].out.di => (d \in value_valid' <=> d \in value_valid)
  BY <1>5 DEF Commit, cache
<1>8. value_valid \subseteq Dis /\ value_valid' \subseteq Dis
  BY <1>0, <1>5 DEF Commit, cache, TypeOK
<1>9. ASSUME NEW r \in Rows, r <= pos, Runnable(ops[r])'
      PROVE  last_operands'[r] = Operands(ops[r])'
  <2> DEFINE ins == ops[r].inputs
  <2>1. ins \in Seq(Input) /\ ops' = ops /\ authz_disabled' = authz_disabled
    BY <1>0, <1>1, RowType DEF config
  <2>2. \A j \in 1 .. Len(ins) : ins[j].di \in value_valid'
    BY <1>9, <2>1 DEF Runnable, op_ready
  <2>3. \A j \in 1 .. Len(ins) : ins[j].di # ops[pos].out.di
    <3>1. ASSUME NEW j \in 1 .. Len(ins), ins[j].di = ops[pos].out.di
          PROVE  FALSE
      <4>1. ops[pos].out.di \in Dis
        BY <1>8, <2>2, <3>1
      <4>2. pos < r
        BY <1>1, <3>1, <4>1 DEF InOrder
      <4>3. QED
        BY <1>3, <1>9, <4>2
    <3>2. QED
      BY <3>1
  <2>4. \A j \in 1 .. Len(ins) : /\ ins[j].di \in value_valid /\ ins[j].di \in Dis
                                 /\ value_cache'[ins[j].di] = value_cache[ins[j].di]
    BY <1>6, <1>7, <1>8, <2>2, <2>3
  <2>5. Runnable(ops[r])
    BY <1>9, <2>1, <2>4 DEF Runnable, op_ready, InputBlocked
  <2>6. Operands(ops[r])' = Operands(ops[r])
    BY <2>1, <2>4 DEF Operands
  <2>7. CASE r = pos
    BY <1>0, <1>1, <2>6, <2>7 DEF TypeOK
  <2>8. CASE r # pos
    <3>1. last_operands[r] = Operands(ops[r])
      BY <1>0, <1>3, <1>9, <2>5, <2>8 DEF UpToDate, Passed
    <3>2. QED
      BY <1>0, <1>1, <2>6, <2>8, <3>1 DEF TypeOK
  <2>9. QED
    BY <2>7, <2>8
<1>10. QED
  BY <1>4, <1>9

LEMMA OrderCommit ==
  ASSUME Inv, CacheNumbers, OrderInv, CommitRow
  PROVE  OrderInv'
<1>0. TypeOK
  BY DEF Inv
<1>1. pos \in Rows /\ phase = "run" /\ Runnable(ops[pos]) /\ UNCHANGED config
  BY DEF CommitRow, AtRow
<1> SUFFICES ASSUME InOrder
             PROVE  (Settled /\ FiredOnce /\ OwesCached /\ ToldByRow /\ ToldOrOwed)'
  BY <1>1, SameOrder DEF OrderInv, config
<1>2. Settled /\ FiredOnce /\ OwesCached /\ ToldByRow /\ ToldOrOwed
  BY DEF OrderInv
<1>3. /\ \A f \in Rows : Fired(f) => f < pos
      /\ \A r \in Rows : r <= pos /\ Runnable(ops[r])' => last_operands'[r] = Operands(ops[r])'
  BY FiresLast
<1>4. PICK result \in Results(ops[pos], Operands(ops[pos])) :
        ~Suppressed(pos, result) /\ Commit(result)
  BY DEF CommitRow
<1>5. result \in Value
  BY <1>0, <1>1, <1>4, ResultsType DEF Suppressed
<1>6. /\ \A r : Named(out, r) => r \in Rows
      /\ \A r : Named(calls, r) => r \in Rows
      /\ \A c : Holds(calls, c) => c.row \in Rows /\ Named(calls, c.row)
  BY <1>0, NamedRows DEF Named, Holds
<1>7. Rows \subseteq Nat
  BY DEF Rows
<1>8. ~Fired(pos)
  BY <1>1, <1>3, <1>7
<1>9. ASSUME \A r : Fired(r)' => Fired(r) \/ r = pos
      PROVE  Settled'
  <2>1. \A f \in Rows : Fired(f)' => f <= pos
    BY <1>1, <1>3, <1>7, <1>9
  <2>2. Rows' = Rows
    BY <1>1, SameGate
  <2>3. \A f, r \in Rows : Fired(f)' /\ r <= f => r <= pos
    BY <1>1, <1>7, <2>1
  <2>4. QED
    BY <1>3, <2>2, <2>3 DEF Settled
<1>10. CASE ops[pos].out.di \in Dis
  <2> DEFINE c == [row |-> pos, result |-> result]
             di == ops[pos].out.di
  <2>1. /\ calls' = Append(calls, c) /\ UNCHANGED <<out, told>>
        /\ value_cache' = [value_cache EXCEPT ![di] = result]
    BY <1>4, <1>10 DEF Commit
  <2>2. c \in [row : Rows, result : Value] /\ c.row = pos /\ c.result = result
    BY <1>1, <1>5
  <2>3. calls \in Seq([row : Rows, result : Value]) /\ value_cache \in [Dis -> Value]
    BY <1>0 DEF TypeOK
  <2> HIDE DEF c
  <2>4. /\ \A r : Named(calls', r) <=> Named(calls, r) \/ r = pos
        /\ Rising(calls) /\ (\A r : Named(calls, r) => r < pos) => Rising(calls')
        /\ \A y : Holds(calls', y) => Holds(calls, y) \/ y = c
    <3>1. \A r : Named(Append(calls, c), r) <=> Named(calls, r) \/ r = c.row
      <4> DEFINE Activation == [row : Rows, result : Value]
      <4>1. calls \in Seq(Activation) /\ c \in Activation
        BY <2>2, <2>3
      <4> HIDE DEF Activation
      <4>2. QED
        BY <4>1, NamedAppend
    <3>2. Rising(calls) /\ (\A r : Named(calls, r) => r < c.row) => Rising(Append(calls, c))
      BY <2>2, <2>3, NamedAppend
    <3>3. \A y : Holds(Append(calls, c), y) => Holds(calls, y) \/ y = c
      BY <2>2, <2>3, HoldsAppend
    <3>4. QED
      BY <2>1, <2>2, <3>1, <3>2, <3>3, Zenon
  <2>5. FiredOnce'
    BY <1>2, <1>3, <1>6, <1>8, <2>1, <2>4 DEF FiredOnce, Fired
  <2>6. Settled'
    BY <1>9, <2>1, <2>4 DEF Fired
  <2>7. /\ value_cache'[di] = result
        /\ \A d \in Dis : d # di => value_cache'[d] = value_cache[d]
    BY <1>10, <2>1, <2>3
  <2>8. ASSUME NEW y, Holds(calls', y)
        PROVE  /\ ops[y.row].out.di \in Dis
               /\ ~Sourced(ops[y.row].out.di) => y.result = value_cache'[ops[y.row].out.di]
    <3>1. CASE y = c
      BY <1>10, <2>2, <2>7, <3>1
    <3>2. CASE Holds(calls, y)
      <4>1. ops[y.row].out.di \in Dis /\ y.row \in Rows /\ y.row # pos
        BY <1>2, <1>6, <1>8, <3>2 DEF OwesCached, Fired
      <4>2. ops[y.row].out.di # di
        BY <1>1, <4>1 DEF InOrder
      <4>3. QED
        BY <1>2, <2>7, <3>2, <4>1, <4>2 DEF OwesCached
    <3>3. QED
      BY <2>4, <2>8, <3>1, <3>2
  <2>9. OwesCached'
    BY <1>1, <2>8, SameGate DEF OwesCached, config
  <2>10. ToldByRow'
    BY <1>1, <1>2, <2>1, SameGate DEF ToldByRow, config
  <2>11. ASSUME NEW d \in Dis, told[d] # None, ~Sourced(d)
         PROVE  \/ told[d] = FormatG(value_cache'[d])
                \/ \E r \in Rows : Named(calls', r) /\ ops[r].out.di = d
    <3>1. CASE d = di
      BY <1>1, <2>4, <3>1
    <3>2. CASE d # di
      BY <1>2, <2>4, <2>7, <2>11, <3>2 DEF ToldOrOwed
    <3>3. QED
      BY <3>1, <3>2
  <2>12. ToldOrOwed'
    BY <1>1, <2>1, <2>11, SameGate DEF ToldOrOwed, config
  <2>13. QED
    BY <2>5, <2>6, <2>9, <2>10, <2>12
<1>11. CASE ops[pos].out.di \notin Dis
  <2>1. SendPut(pos, result) /\ UNCHANGED <<calls, value_cache>>
    BY <1>4, <1>11 DEF Commit, cache
  <2>2. /\ \A q : Named(out', q) => Named(out, q) \/ q = pos
        /\ Once(out) /\ ~Named(out, pos) => Once(out')
        /\ \A d \in Dis : told'[d] = told[d]
    BY <1>0, <1>1, <1>5, <1>11, <2>1, SendPutEffect
  <2>3. FiredOnce'
    BY <1>2, <1>8, <2>1, <2>2 DEF FiredOnce, Fired
  <2>4. Settled'
    BY <1>9, <2>1, <2>2 DEF Fired
  <2>5. OwesCached' /\ ToldByRow' /\ ToldOrOwed'
    BY <1>1, <1>2, <2>1, <2>2, SameGate DEF OwesCached, ToldByRow, ToldOrOwed, config
  <2>6. QED
    BY <2>3, <2>4, <2>5
<1>12. QED
  BY <1>10, <1>11
LEMMA OrderReturn ==
  ASSUME Inv, OrderInv, ReturnToRow
  PROVE  OrderInv'
<1> DEFINE c == calls[Len(calls)]
<1>0. TypeOK
  BY DEF Inv
<1>1. /\ phase = "run" /\ calls # <<>> /\ SendPut(c.row, c.result)
      /\ calls' = SubSeq(calls, 1, Len(calls) - 1)
      /\ UNCHANGED <<config, cache, last_operands>>
  BY DEF ReturnToRow
<1> SUFFICES ASSUME InOrder
             PROVE  (Settled /\ FiredOnce /\ OwesCached /\ ToldByRow /\ ToldOrOwed)'
  BY <1>1, SameOrder DEF OrderInv, config
<1>2. Settled /\ FiredOnce /\ OwesCached /\ ToldByRow /\ ToldOrOwed
  BY DEF OrderInv
<1>3. calls \in Seq([row : Rows, result : Value])
  BY <1>0 DEF TypeOK
<1>4. \A y \in [row : Rows, result : Value] : y.row \in Nat
  BY DEF Rows
<1>5. /\ Rising(calls') /\ Holds(calls, c)
      /\ \A y : Holds(calls', y) => Holds(calls, y)
      /\ \A r : Named(calls', r) => Named(calls, r) /\ r # c.row
      /\ \A r : Named(calls, r) => Named(calls', r) \/ r = c.row
  BY <1>1, <1>2, <1>3, <1>4, NamedPop DEF FiredOnce
<1> HIDE DEF c
<1>6. c.row \in Rows /\ c.result \in Value /\ Named(calls, c.row)
  BY <1>0, <1>5, NamedRows DEF Holds, Named
<1>7. /\ \A q : Named(out', q) => Named(out, q) \/ q = c.row
      /\ Once(out) /\ ~Named(out, c.row) => Once(out')
      /\ \A d \in Dis : told'[d] = IF d = ops[c.row].out.di /\ ops[c.row].out.dest # ""
                                   THEN FormatG(c.result) ELSE told[d]
  BY <1>0, <1>1, <1>6, SendPutEffect
<1>8. Settled'
  <2>1. \A r : Fired(r)' => Fired(r)
    BY <1>5, <1>6, <1>7 DEF Fired
  <2>2. QED
    BY <1>1, <1>2, <2>1, SameView DEF Settled, config
<1>9. FiredOnce'
  BY <1>2, <1>5, <1>6, <1>7 DEF FiredOnce
<1>10. OwesCached'
  BY <1>1, <1>2, <1>5, SameGate DEF OwesCached, config, cache
<1>11. ToldByRow'
  BY <1>1, <1>2, <1>6, <1>7, SameGate DEF ToldByRow, config
<1>12. ASSUME NEW d \in Dis, told'[d] # None, ~Sourced(d)
       PROVE  \/ told'[d] = FormatG(value_cache[d])
              \/ \E r \in Rows : Named(calls', r) /\ ops[r].out.di = d
  <2>1. CASE d = ops[c.row].out.di /\ ops[c.row].out.dest # ""
    <3>1. c.result = value_cache[d]
      BY <1>2, <1>5, <1>12, <2>1 DEF OwesCached
    <3>2. QED
      BY <1>7, <2>1, <3>1
  <2>2. CASE d = ops[c.row].out.di /\ ops[c.row].out.dest = ""
    <3>1. PICK r \in Rows : ops[r].out.di = d /\ ops[r].out.dest # ""
      BY <1>2, <1>7, <1>12, <2>2 DEF ToldByRow
    <3>2. r = c.row
      BY <1>6, <2>2, <3>1 DEF InOrder
    <3>3. QED
      BY <2>2, <3>1, <3>2
  <2>3. CASE d # ops[c.row].out.di
    <3>1. told'[d] = told[d]
      BY <1>7, <2>3
    <3>2. CASE told[d] = FormatG(value_cache[d])
      BY <3>1, <3>2
    <3>3. CASE \E r \in Rows : Named(calls, r) /\ ops[r].out.di = d
      BY <1>5, <2>3, <3>3
    <3>4. QED
      BY <1>2, <1>12, <3>1, <3>2, <3>3 DEF ToldOrOwed
  <2>4. QED
    BY <2>1, <2>2, <2>3
<1>13. ToldOrOwed'
  BY <1>1, <1>12, SameGate DEF ToldOrOwed, config, cache
<1>14. QED
  BY <1>8, <1>9, <1>10, <1>11, <1>13

LEMMA OrderStep ==
  ASSUME Inv, Inv', CacheNumbers, OrderInv, [Next]_vars
  PROVE  OrderInv'
  BY OrderBoot, OrderHandle, OrderQuiet, OrderCommit, OrderReturn DEF Next, Step, Inv

LEMMA OrderInit == Init => OrderInv /\ CacheNumbers
<1> SUFFICES ASSUME Init PROVE OrderInv /\ CacheNumbers
  OBVIOUS
<1>1. \A d \in Dis : told[d] = None /\ value_cache[d] = 0
  BY DEF Init
<1>2. calls = <<>> /\ out = <<>>
  BY DEF Init
<1>3. Settled /\ FiredOnce /\ OwesCached
  BY <1>2, NothingFired
<1>4. ToldByRow /\ ToldOrOwed
  BY <1>1 DEF ToldByRow, ToldOrOwed
<1>5. QED
  BY <1>1, <1>3, <1>4 DEF OrderInv, CacheNumbers

LEMMA OrderInvariance ==
  ASSUME Numbers
  PROVE  Spec => [](Inv /\ OrderInv)
<1>1. TypeOK /\ CacheNumbers /\ [Next]_vars => CacheNumbers'
  BY NumbersStep
<1>2. Inv /\ Inv' /\ CacheNumbers /\ OrderInv /\ [Next]_vars => OrderInv'
  BY OrderStep
<1>3. Inv => TypeOK
  BY DEF Inv
<1>4. QED
  BY <1>1, <1>2, <1>3, OrderInit, Invariance, PTL DEF Spec

(* On numbers, whatever the messages: a row of a table in order sends at   *)
(* most one PUT per message, however deep evaluate_op() recurses, so no    *)
(* intermediate value of a chained input reaches a device.                 *)
THEOREM OnePut ==
  ASSUME Numbers
  PROVE  Spec => []OnePutPerRow
<1>1. OrderInv => OnePutPerRow
  BY DEF OrderInv, FiredOnce, Once, OnePutPerRow
<1>2. QED
  BY <1>1, OrderInvariance, PTL

(* On numbers: although a PUT leaves only after the re-evaluation its      *)
(* cached value sets off, a device of a table in order was last told what  *)
(* the cache records for it whenever the engine is idle.                   *)
THEOREM ToldTheCached ==
  ASSUME Numbers
  PROVE  Spec => []DeviceAgreesWithCache
<1>1. Inv /\ OrderInv => DeviceAgreesWithCache
  <2> SUFFICES ASSUME Inv, OrderInv, InOrder, Idle
               PROVE  \A d \in Dis : (told[d] # None /\ ~Sourced(d)) =>
                                        told[d] = FormatG(value_cache[d])
    BY DEF DeviceAgreesWithCache
  <2>1. calls = <<>>
    BY DEF Inv, BootInv, Idle
  <2>2. QED
    BY <2>1, NoneNamed DEF OrderInv, ToldOrOwed
<1>2. QED
  BY <1>1, OrderInvariance, PTL

(* On numbers: the mutual recursion of evaluate_op() and bm_evaluate_all() *)
(* on a table in order never holds more activations than the table rows.   *)
THEOREM OrderedDepth ==
  ASSUME Numbers
  PROVE  Spec => [](InOrder => Len(calls) <= n_ops)
<1>1. Inv /\ OrderInv => (InOrder => Len(calls) <= n_ops)
  <2> SUFFICES ASSUME Inv, OrderInv, InOrder PROVE Len(calls) <= n_ops
    OBVIOUS
  <2>1. calls \in Seq([row : Rows, result : Value]) /\ n_ops \in Nat
    BY DEF Inv, TypeOK, n_ops
  <2>2. \A y \in [row : Rows, result : Value] : y.row \in 1 .. n_ops
    BY DEF Rows, n_ops
  <2>3. Rising(calls)
    BY DEF OrderInv, FiredOnce
  <2>4. QED
    BY <2>1, <2>2, <2>3, RisingLength
<1>2. QED
  BY <1>1, OrderInvariance, PTL
-----------------------------------------------------------------------------
(* What an evaluation of an acyclic table has left to do, as a number in   *)
(* binary, and with it the depth of the recursion.                         *)

DigitStep(K, k, f) == IF k = 0 THEN 0 ELSE 2 * f[k - 1] + Flag(k \in K)

(* Numbers in binary are well defined: the recursion has a solution. *)
LEMMA DigitsDef ==
  ASSUME NEW K, NEW N \in Nat
  PROVE  \A k \in 0 .. N : Digits(K, N)[k] = DigitStep(K, k, Digits(K, N))
<1> DEFINE Good(n, f) == f = [k \in 0 .. n |-> DigitStep(K, k, f)]
           Bad == {n \in Nat : ~ \E f : Good(n, f)}
<1>1. Bad = {}
  <2> SUFFICES ASSUME Bad # {} PROVE FALSE
    OBVIOUS
  <2>0. Bad \subseteq Nat
    OBVIOUS
  <2>1. PICK n \in Bad : \A j \in Bad : n <= j
    <3> HIDE DEF Bad
    <3> QED
      BY <2>0, LeastNat
  <2>2. CASE n = 0
    <3>1. Good(0, [k \in 0 .. 0 |-> 0])
      BY DEF DigitStep
    <3> QED
      BY <2>1, <2>2, <3>1
  <2>3. CASE n # 0
    <3>1. n - 1 \in Nat /\ n - 1 \notin Bad
      BY <2>1, <2>3
    <3>2. PICK f : Good(n - 1, f)
      BY <3>1
    <3> DEFINE g == [k \in 0 .. n |-> IF k = n THEN DigitStep(K, n, f) ELSE f[k]]
    <3>3. \A k \in 0 .. n - 1 : k \in 0 .. n /\ k # n
      BY <3>1
    <3>4. \A k \in 0 .. n - 1 : f[k] = DigitStep(K, k, f)
      <4> HIDE DEF DigitStep
      <4> QED
        BY <3>2
    <3>5. \A k \in 0 .. n - 1 : g[k] = f[k]
      BY <3>3
    <3>6. \A k \in 0 .. n : k = 0 \/ k - 1 \in 0 .. n - 1
      BY <3>1
    <3> HIDE DEF g
    <3>7. \A k \in 0 .. n : DigitStep(K, k, g) = DigitStep(K, k, f)
      BY <3>5, <3>6 DEF DigitStep
    <3>8. \A k \in 0 .. n : k = n \/ k \in 0 .. n - 1
      BY <3>1
    <3>9. g[n] = DigitStep(K, n, f)
      BY <3>1 DEF g
    <3>10. \A k \in 0 .. n : g[k] = DigitStep(K, k, g)
      BY <3>4, <3>5, <3>7, <3>8, <3>9
    <3>11. Good(n, g)
      <4>1. g = [k \in 0 .. n |-> g[k]]
        BY DEF g
      <4> QED
        BY <3>10, <4>1
    <3> QED
      BY <2>1, <3>11
  <2> QED
    BY <2>2, <2>3
<1>2. \E f : Good(N, f)
  BY <1>1
<1>3. Digits(K, N) = CHOOSE f : Good(N, f)
  BY DEF Digits, DigitStep
<1>4. Good(N, Digits(K, N))
  BY <1>2, <1>3
<1> HIDE DEF DigitStep, Digits
<1> QED
  BY <1>4

(* Up to the first digit in which they differ, numbers are as their digits *)
(* are; from there on the one that has it is the larger.                   *)
LEMMA DigitsCompare ==
  ASSUME NEW n \in Nat, NEW K, NEW M, NEW m \in 1 .. n + 1,
         \A k \in 1 .. n : k < m /\ k \in K => k \in M,
         m \in 1 .. n => m \in M /\ m \notin K
  PROVE  \A k \in 0 .. n : /\ Digits(K, n)[k] \in Nat /\ Digits(M, n)[k] \in Nat
                           /\ k < m => Digits(K, n)[k] <= Digits(M, n)[k]
                           /\ m <= k => Digits(K, n)[k] < Digits(M, n)[k]
<1> DEFINE U == Digits(K, n)
           V == Digits(M, n)
           Fine(k) == /\ U[k] \in Nat /\ V[k] \in Nat
                      /\ k < m => U[k] <= V[k]
                      /\ m <= k => U[k] < V[k]
           Bad == {k \in 0 .. n : ~Fine(k)}
<1>1. /\ U[0] = 0 /\ V[0] = 0
      /\ \A k \in 1 .. n : /\ U[k] = 2 * U[k - 1] + Flag(k \in K)
                           /\ V[k] = 2 * V[k - 1] + Flag(k \in M)
  <2>1. \A k \in 0 .. n : U[k] = DigitStep(K, k, U) /\ V[k] = DigitStep(M, k, V)
    BY DigitsDef
  <2> HIDE DEF U, V
  <2> QED
    BY <2>1 DEF DigitStep
<1> HIDE DEF U, V
<1>2. Fine(0)
  BY <1>1
<1>3. ASSUME NEW k \in 1 .. n, Fine(k - 1)
      PROVE  Fine(k)
  <2>1. PICK u \in Nat, v \in Nat : u = U[k - 1] /\ v = V[k - 1]
    BY <1>3
  <2>2. U[k] = 2 * u + Flag(k \in K) /\ V[k] = 2 * v + Flag(k \in M)
    BY <1>1, <2>1
  <2>3. /\ k \in K => Flag(k \in K) = 1
        /\ k \notin K => Flag(k \in K) = 0
        /\ k \in M => Flag(k \in M) = 1
        /\ k \notin M => Flag(k \in M) = 0
    BY DEF Flag
  <2>4. PICK x \in {0, 1}, y \in {0, 1} :
          /\ x = Flag(k \in K) /\ y = Flag(k \in M)
    BY <2>3
  <2>5. U[k] = 2 * u + x /\ V[k] = 2 * v + y
    BY <2>2, <2>4
  <2>6. CASE k < m
    <3>1. u <= v
      BY <1>3, <2>1, <2>6
    <3>2. x <= y
      BY <2>3, <2>4, <2>6
    <3> QED
      BY <2>5, <2>6, <3>1, <3>2
  <2>7. CASE m < k
    <3>1. u < v
      BY <1>3, <2>1, <2>7
    <3> QED
      BY <2>5, <2>7, <3>1
  <2>8. CASE k = m
    <3>1. u <= v
      BY <1>3, <2>1, <2>8
    <3>2. x = 0 /\ y = 1
      BY <2>3, <2>4, <2>8
    <3> QED
      BY <2>5, <2>8, <3>1, <3>2
  <2> QED
    BY <2>6, <2>7, <2>8
<1>4. Bad = {}
  <2> SUFFICES ASSUME Bad # {} PROVE FALSE
    OBVIOUS
  <2> HIDE DEF Fine
  <2>1. Bad \subseteq Nat
    OBVIOUS
  <2>2. PICK k \in Bad : \A j \in Bad : k <= j
    <3> HIDE DEF Bad
    <3> QED
      BY <2>1, LeastNat
  <2>3. k \in 1 .. n /\ k - 1 \in 0 .. n /\ k - 1 \notin Bad
    BY <1>2, <2>2
  <2>4. Fine(k - 1)
    BY <2>3
  <2> QED
    BY <1>3, <2>2, <2>3, <2>4
<1> QED
  BY <1>4 DEF U, V

(* Taking out a digit and putting in any after it makes a number smaller. *)
LEMMA BinaryLess ==
  ASSUME NEW n \in Nat, NEW K, NEW M, NEW m \in 1 .. n,
         m \in M, m \notin K, \A k \in 1 .. n : k < m /\ k \in K => k \in M
  PROVE  Binary(K, n) < Binary(M, n)
<1>1. m \in 1 .. n + 1 /\ n \in 0 .. n /\ m <= n
  OBVIOUS
<1> QED
  BY <1>1, DigitsCompare DEF Binary

(* No number of n digits is larger than n ones. *)
LEMMA BinaryMost ==
  ASSUME NEW n \in Nat, NEW K
  PROVE  Binary(K, n) \in Nat /\ Binary(1 .. n, n) \in Nat /\ Binary(K, n) <= Binary(1 .. n, n)
<1>1. PICK m \in 1 .. n + 1 : m = n + 1
  OBVIOUS
<1>2. n \in 0 .. n /\ n < m /\ m \notin 1 .. n
  BY <1>1
<1> DEFINE M == 1 .. n
<1>3. \A k \in 1 .. n : k < m /\ k \in K => k \in M
  OBVIOUS
<1> HIDE DEF M
<1>4. \A k \in 0 .. n : /\ Digits(K, n)[k] \in Nat /\ Digits(M, n)[k] \in Nat
                        /\ k < m => Digits(K, n)[k] <= Digits(M, n)[k]
  BY <1>2, <1>3, DigitsCompare
<1>5. Binary(K, n) \in Nat /\ Binary(M, n) \in Nat /\ Binary(K, n) <= Binary(M, n)
  BY <1>2, <1>4 DEF Binary
<1> QED
  BY <1>5 DEF M
-----------------------------------------------------------------------------
(* Work, action by action.                                                 *)

LEMMA SameRankings ==
  ASSUME UNCHANGED ops
  PROVE  Rankings' = Rankings /\ Rows' = Rows /\ n_ops' = n_ops
  BY DEF Rankings, Feeds, Rows, n_ops

(* The same rows due is the same work. *)
LEMMA SameWork ==
  ASSUME UNCHANGED ops, NEW rank, \A r \in Rows : Due(r)' <=> Due(r)
  PROVE  Work(rank)' = Work(rank)
<1>1. DueRanks(rank)' = DueRanks(rank)
  BY SameRankings DEF DueRanks
<1> QED
  BY <1>1, SameRankings DEF Work

(* A due row is done, and only rows of a higher rank become due: less work. *)
LEMMA LessWork ==
  ASSUME TypeOK, UNCHANGED ops, NEW rank \in Rankings, NEW p \in Rows,
         Due(p), \A r \in Rows : Due(r)' => rank[p] < rank[r] \/ (Due(r) /\ r # p)
  PROVE  Work(rank)' < Work(rank)
<1>1. n_ops \in Nat /\ Rows = 1 .. n_ops
  BY DEF TypeOK, n_ops, Rows
<1>2. /\ \A r \in Rows : rank[r] \in Rows
      /\ \A q, r \in Rows : rank[q] = rank[r] => q = r
  BY DEF Rankings
<1>3. Rows' = Rows /\ n_ops' = n_ops
  BY SameRankings
<1> DEFINE K == DueRanks(rank)'
           M == DueRanks(rank)
           m == rank[p]
<1>4. m \in 1 .. n_ops /\ m \in M
  BY <1>1, <1>2 DEF DueRanks
<1>5. \A k \in K : k \in Rows /\ \E r \in Rows : rank[r] = k /\ Due(r)'
  BY <1>3 DEF DueRanks
<1>6. \A k \in K : m < k \/ (k \in M /\ k # m)
  <2> SUFFICES ASSUME NEW k \in K PROVE m < k \/ (k \in M /\ k # m)
    OBVIOUS
  <2>1. PICK r \in Rows : rank[r] = k /\ Due(r)'
    BY <1>5
  <2>2. CASE Due(r) /\ r # p
    BY <1>2, <1>5, <2>1, <2>2 DEF DueRanks
  <2> QED
    BY <2>1, <2>2
<1> HIDE DEF K, M, m
<1>7. m \notin K /\ \A k \in 1 .. n_ops : k < m /\ k \in K => k \in M
  BY <1>4, <1>6
<1>8. Binary(K, n_ops) < Binary(M, n_ops)
  BY <1>1, <1>4, <1>7, BinaryLess
<1> QED
  BY <1>3, <1>8 DEF Work, K, M

(* A row that fires leaves a row it does not feed as up to date as it was, *)
(* and is itself up to date.                                               *)
LEMMA UnfedCommit ==
  ASSUME TypeOK, CommitRow, NEW r \in Rows, ~Feeds(pos, r), Due(r)'
  PROVE  Due(r) /\ r # pos
<1>1. /\ pos \in Rows /\ UNCHANGED config
      /\ last_operands' = [last_operands EXCEPT ![pos] = Operands(ops[pos])]
  BY DEF CommitRow, AtRow, RecordOperands
<1>2. PICK result : Commit(result)
  BY DEF CommitRow
<1>3. value_valid \subseteq Dis /\ value_valid' \subseteq Dis
  BY <1>2 DEF Commit, cache, TypeOK
<1>4. \A d \in Dis : d # ops[pos].out.di => value_cache'[d] = value_cache[d]
  BY <1>2 DEF Commit, cache, TypeOK
<1>5. \A d : d # ops[pos].out.di => (d \in value_valid' <=> d \in value_valid)
  BY <1>2 DEF Commit, cache
<1> DEFINE ins == ops[r].inputs
<1>6. ins \in Seq(Input) /\ ops' = ops /\ authz_disabled' = authz_disabled
  BY <1>1, RowType DEF config
<1>7. \A j \in 1 .. Len(ins) : ins[j].di \in value_valid'
  BY <1>6 DEF Due, Runnable, op_ready
<1>8. \A j \in 1 .. Len(ins) : ins[j].di # ops[pos].out.di
  BY <1>3, <1>7 DEF Feeds
<1>9. \A j \in 1 .. Len(ins) : /\ ins[j].di \in value_valid /\ ins[j].di \in Dis
                               /\ value_cache'[ins[j].di] = value_cache[ins[j].di]
  BY <1>3, <1>4, <1>5, <1>7, <1>8
<1>10. Runnable(ops[r])
  BY <1>6, <1>9 DEF Due, Runnable, op_ready, InputBlocked
<1>11. Operands(ops[r])' = Operands(ops[r])
  BY <1>6, <1>9 DEF Operands
<1>12. last_operands'[r] # Operands(ops[r])
  BY <1>11 DEF Due
<1>13. r # pos /\ last_operands'[r] = last_operands[r]
  BY <1>1, <1>12 DEF TypeOK
<1> QED
  BY <1>10, <1>12, <1>13 DEF Due

LEMMA WorkCommit ==
  ASSUME TypeOK, CacheNumbers, CommitRow, NEW rank \in Rankings
  PROVE  /\ Work(rank)' < Work(rank)
         /\ Len(calls') <= Len(calls) + 1
<1>1. /\ pos \in Rows /\ Runnable(ops[pos]) /\ UNCHANGED ops
      /\ inputs_changed(last_operands[pos], Operands(ops[pos]))
  BY DEF CommitRow, AtRow, config
<1>2. Due(pos)
  BY <1>1, ChangedMeansDifferent DEF Due
<1>3. \A r \in Rows : Due(r)' => rank[pos] < rank[r] \/ (Due(r) /\ r # pos)
  BY <1>1, UnfedCommit DEF Rankings
<1>4. Work(rank)' < Work(rank)
  BY <1>1, <1>2, <1>3, LessWork
<1>5. calls \in Seq([row : Rows, result : Value])
  BY DEF TypeOK
<1>6. calls' = calls \/ \E c : calls' = Append(calls, c)
  BY DEF CommitRow, Commit
<1>7. Len(calls') <= Len(calls) + 1
  BY <1>5, <1>6
<1> QED
  BY <1>4, <1>7

LEMMA WorkSuppress ==
  ASSUME TypeOK, CacheNumbers, SuppressRow, NEW rank \in Rankings
  PROVE  /\ Work(rank)' < Work(rank)
         /\ calls' = calls
<1>1. /\ pos \in Rows /\ Runnable(ops[pos]) /\ UNCHANGED ops
      /\ inputs_changed(last_operands[pos], Operands(ops[pos]))
      /\ UNCHANGED <<config, cache, calls>>
      /\ last_operands' = [last_operands EXCEPT ![pos] = Operands(ops[pos])]
  BY DEF SuppressRow, AtRow, config, RecordOperands
<1>2. Due(pos)
  BY <1>1, ChangedMeansDifferent DEF Due
<1>3. \A r \in Rows : last_operands'[r] = IF r = pos THEN Operands(ops[pos]) ELSE last_operands[r]
  BY <1>1 DEF TypeOK
<1>4. \A r \in Rows : Due(r)' => Due(r) /\ r # pos
  BY <1>1, <1>3, SameView DEF Due
<1> QED
  BY <1>1, <1>2, <1>4, LessWork

(* The other steps of the evaluation leave the work alone. *)
LEMMA WorkQuiet ==
  ASSUME TypeOK, SkipRow \/ UnchangedRow \/ ReturnToRow \/ Finish \/ UNCHANGED vars, NEW rank
  PROVE  Work(rank)' = Work(rank)
<1>1. UNCHANGED <<config, cache>> /\ UNCHANGED ops
  BY DEF SkipRow, UnchangedRow, ReturnToRow, Finish, vars, config
<1>2. last_operands' = last_operands
  <2>1. CASE UnchangedRow
    <3>1. pos \in Rows /\ Runnable(ops[pos]) /\ last_operands[pos] \in Seq(Value)
      BY <2>1 DEF UnchangedRow, AtRow, TypeOK
    <3>2. Operands(ops[pos]) \in Seq(Value)
      BY <3>1, OperandsType
    <3>3. last_operands[pos] = Operands(ops[pos])
      BY <2>1, <3>1, <3>2, SameOperands DEF UnchangedRow
    <3> QED
      BY <2>1, <3>1, <3>3 DEF UnchangedRow, RecordOperands, TypeOK
  <2> QED
    BY <2>1 DEF SkipRow, ReturnToRow, Finish, vars
<1>3. \A r \in Rows : Due(r)' <=> Due(r)
  BY <1>1, <1>2, SameView DEF Due
<1> QED
  BY <1>1, <1>3, SameWork

(* The invariant: what is left to do and what is suspended fit together in *)
(* n_ops digits, since a row suspends an activation only as it takes work  *)
(* off.                                                                    *)
DepthInv == \A rank \in Rankings : Work(rank) + Len(calls) <= Binary(Rows, n_ops)

LEMMA WorkType ==
  ASSUME TypeOK, NEW rank
  PROVE  /\ Work(rank) \in Nat /\ Binary(Rows, n_ops) \in Nat
         /\ Work(rank) <= Binary(Rows, n_ops)
<1>1. n_ops \in Nat /\ Rows = 1 .. n_ops
  BY DEF TypeOK, n_ops, Rows
<1> QED
  BY <1>1, BinaryMost DEF Work

LEMMA WorkIsNumber == TypeOK => \A rank : Work(rank) \in Nat
  BY WorkType

LEMMA NoneSuspended ==
  ASSUME TypeOK, calls = <<>>
  PROVE  DepthInv
<1>1. Len(calls) = 0
  OBVIOUS
<1> QED
  BY <1>1, WorkType DEF DepthInv

LEMMA DepthStep ==
  ASSUME Inv, Inv', CacheNumbers, DepthInv, [Next]_vars
  PROVE  DepthInv'
<1>0. TypeOK /\ TypeOK'
  BY DEF Inv
<1>1. ASSUME (calls = <<>>)' PROVE DepthInv'
  BY <1>0, <1>1, NoneSuspended, PTL
<1>2. CASE Boot
  BY <1>1, <1>2, BootIsQuiet DEF Inv
<1>3. ASSUME NEW m \in Messages, bm_processor_handle(m) PROVE DepthInv'
  BY <1>1, <1>3 DEF bm_processor_handle, Inv, BootInv
<1>4. CASE Step \/ UNCHANGED vars
  <2>1. Rankings' = Rankings /\ Rows' = Rows /\ n_ops' = n_ops
    <3>1. UNCHANGED ops
      BY <1>4 DEF Step, SkipRow, UnchangedRow, SuppressRow, CommitRow, ReturnToRow, Finish,
                  vars, config
    <3> QED
      BY <3>1, SameRankings
  <2>2. calls \in Seq([row : Rows, result : Value]) /\ Len(calls) \in Nat
    BY <1>0 DEF TypeOK
  <2>3. calls' \in Seq([row : Rows', result : Value]) /\ Len(calls') \in Nat
    BY <1>0 DEF TypeOK
  <2>4. \A rank : Work(rank) \in Nat
    BY <1>0, WorkType
  <2>5. (\A rank : Work(rank) \in Nat)'
    BY <1>0, WorkIsNumber, PTL
  <2>6. Binary(Rows, n_ops) \in Nat
    BY <1>0, WorkType
  <2>7. ASSUME NEW rank \in Rankings
        PROVE  Work(rank)' + Len(calls') <= Work(rank) + Len(calls)
    <3>1. CASE CommitRow
      BY <1>0, <2>2, <2>3, <2>4, <2>5, <3>1, WorkCommit
    <3>2. CASE SuppressRow
      BY <1>0, <2>2, <2>3, <2>4, <2>5, <3>2, WorkSuppress
    <3>3. CASE SkipRow \/ UnchangedRow \/ ReturnToRow \/ Finish \/ UNCHANGED vars
      <4>1. Len(calls') <= Len(calls)
        <5>1. CASE ReturnToRow
          <6>1. Len(calls') = Len(calls) - 1
            BY <2>2, <5>1, PopType DEF ReturnToRow
          <6> QED
            BY <2>2, <6>1
        <5> QED
          BY <2>2, <3>3, <5>1 DEF SkipRow, UnchangedRow, Finish, vars
      <4> QED
        BY <1>0, <2>2, <2>3, <2>4, <3>3, <4>1, WorkQuiet
    <3> QED
      BY <1>4, <3>1, <3>2, <3>3 DEF Step
  <2> QED
    BY <2>1, <2>2, <2>3, <2>4, <2>5, <2>6, <2>7 DEF DepthInv
<1> QED
  BY <1>2, <1>3, <1>4 DEF Next

LEMMA DepthInvariance ==
  ASSUME Numbers
  PROVE  Spec => [](Inv /\ CacheNumbers /\ DepthInv)
<1>1. Init => DepthInv
  BY NoneSuspended, TypeInit DEF Init
<1>2. TypeOK /\ CacheNumbers /\ [Next]_vars => CacheNumbers'
  BY NumbersStep
<1>3. Inv /\ Inv' /\ CacheNumbers /\ DepthInv /\ [Next]_vars => DepthInv'
  BY DepthStep
<1>4. Inv => TypeOK
  BY DEF Inv
<1> QED
  BY <1>1, <1>2, <1>3, <1>4, OrderInit, Invariance, PTL DEF Spec

(* On numbers, whatever the document order, the messages, the policy and   *)
(* the app's answers: the mutual recursion of evaluate_op() and            *)
(* bm_evaluate_all() on an acyclic table of n rows never suspends 2^n      *)
(* activations.                                                            *)
THEOREM DepthBounded ==
  ASSUME Numbers
  PROVE  Spec => []RecursionBounded
<1>1. Inv /\ DepthInv => RecursionBounded
  <2> SUFFICES ASSUME TypeOK, DepthInv, Acyclic PROVE Len(calls) <= Binary(Rows, n_ops)
    BY DEF Inv, RecursionBounded
  <2>1. PICK rank \in Rankings : TRUE
    BY DEF Acyclic
  <2>2. Work(rank) + Len(calls) <= Binary(Rows, n_ops)
    BY <2>1 DEF DepthInv
  <2>3. Len(calls) \in Nat
    BY DEF TypeOK
  <2>4. Work(rank) \in Nat /\ Binary(Rows, n_ops) \in Nat
    BY WorkType
  <2> QED
    BY <2>2, <2>3, <2>4
<1> QED
  BY <1>1, DepthInvariance, PTL

(* On numbers: every step of the evaluation of an acyclic table takes work *)
(* off, returns from an activation or goes on to the next row, so no       *)
(* sequence of commits, chained re-evaluations and returns goes on for     *)
(* ever.  This is what EvaluationTerminates rests on besides fairness.     *)
THEOREM Progress ==
  ASSUME Numbers
  PROVE  Spec => EvaluationProgress
<1> DEFINE Advances(rank) ==
      \/ Work(rank)' < Work(rank)
      \/ /\ Work(rank)' = Work(rank)
         /\ \/ Len(calls') < Len(calls)
            \/ Len(calls') = Len(calls) /\ RowsLeft' < RowsLeft
<1>1. ASSUME Inv, CacheNumbers, Step, NEW rank \in Rankings
      PROVE  Advances(rank)
  <2>0. TypeOK
    BY <1>1 DEF Inv
  <2>1. CASE CommitRow
    BY <1>1, <2>0, <2>1, WorkCommit
  <2>2. CASE SuppressRow
    BY <1>1, <2>0, <2>2, WorkSuppress
  <2>3. CASE ReturnToRow
    <3>1. calls \in Seq([row : Rows, result : Value])
      BY <2>0 DEF TypeOK
    <3>2. Len(calls') = Len(calls) - 1
      BY <2>3, <3>1, PopType DEF ReturnToRow
    <3>3. Len(calls') < Len(calls)
      BY <3>1, <3>2
    <3> QED
      BY <2>0, <2>3, <3>3, WorkQuiet
  <2>4. CASE SkipRow \/ UnchangedRow \/ Finish
    <3>1. calls' = calls /\ n_ops' = n_ops /\ n_ops \in Nat /\ pos \in 1 .. n_ops + 1
      BY <2>0, <2>4 DEF SkipRow, UnchangedRow, Finish, AtRow, Rows, n_ops, config, TypeOK
    <3>2. pos' = 0 \/ pos' = pos + 1
      BY <2>4 DEF SkipRow, UnchangedRow, Finish, NextRow
    <3>3. RowsLeft' < RowsLeft
      BY <3>1, <3>2 DEF RowsLeft
    <3> QED
      BY <2>0, <2>4, <3>1, <3>3, WorkQuiet
  <2> QED
    BY <1>1, <2>1, <2>2, <2>3, <2>4 DEF Step
<1>2. Inv /\ CacheNumbers => (Step => \A rank \in Rankings : Advances(rank))
  BY <1>1
<1>3. Inv /\ CacheNumbers =>
        [Step => \A rank \in Rankings : Advances(rank)]_vars
  BY <1>2
<1> QED
  BY <1>3, DepthInvariance, PTL DEF EvaluationProgress

(* A table in order is acyclic, its rows ranked by their place: what holds *)
(* of acyclic tables holds of the ones the repository ships.               *)
THEOREM OrderedIsAcyclic ==
  ASSUME InOrder
  PROVE  Acyclic
<1> DEFINE rank == [r \in Rows |-> r]
<1>1. rank \in [Rows -> Rows]
  OBVIOUS
<1>2. ASSUME NEW q \in Rows, NEW r \in Rows
      PROVE  /\ rank[q] = rank[r] => q = r
             /\ Feeds(q, r) => rank[q] < rank[r]
  <2>1. Feeds(q, r) => q < r
    BY DEF Feeds, InOrder
  <2> QED
    BY <2>1
<1>3. rank \in Rankings
  BY <1>1, <1>2 DEF Rankings
<1> QED
  BY <1>3 DEF Acyclic
===============================================================================
