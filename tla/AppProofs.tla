-------------------------------- MODULE AppProofs --------------------------------
(***************************************************************************)
(* Proofs about the executable: whichever command it runs, the properties  *)
(* of the BLE connection manager, of the core module and of `bm show`      *)
(* hold, for every command line, every world and every input.              *)
(*                                                                         *)
(* The inductive invariant is the conjunction of the three commands';      *)
(* a step of one leaves the variables of the others alone.                 *)
(***************************************************************************)
EXTENDS App, BluezManagerProofs, GatewayProofs

-----------------------------------------------------------------------------
(* `bm show`.  Every struct in memory hangs in the array of a parent that  *)
(* knows its list, and every task on the loader's stack will keep it so.   *)

Chain(p) ==
  /\ \E S : p \in Seq(S)
  /\ Len(p) >= 2
  /\ \A i \in 3 .. Len(p) : p[i][1] \in Frees(p[i - 1][1])

Hangs(t) == Chain(t.path) /\ (t.what = "list" => t.list \in Frees(Kind(t.path)))

Stack(w) == \E T : w \in Seq(T) /\ \A t \in T : Hangs(t)

DocInv ==
  /\ dpc \in {"open", "load", "show", "free", "done", "crashed"}
  /\ doc \in Documents \cup {NoTree} /\ (dpc = "load" => doc # NoTree)
  /\ dpc = "open" => heap = {}
  /\ dpc = "done" => heap = {}
  /\ dpc # "done" => heap = held
  /\ \A p \in held : Chain(p)
  /\ dpc = "load" => Stack(work)

LEMMA ChainAppend ==
  ASSUME NEW p, Chain(p), NEW name \in Frees(Kind(p)), NEW n
  PROVE  Chain(Append(p, <<name, n>>))
<1> DEFINE x == <<name, n>>
           q == Append(p, x)
<1>1. PICK S : p \in Seq(S)
  BY DEF Chain
<1> DEFINE R == S \cup {x}
<1>2. p \in Seq(R) /\ x \in R
  BY <1>1
<1>3. x[1] = name
  OBVIOUS
<1> HIDE DEF R, x
<1>4. q \in Seq(R) /\ Len(p) \in Nat /\ Len(q) = Len(p) + 1 /\ q[Len(p) + 1] = x /\ \A k \in 1 .. Len(p) : q[k] = p[k]
  BY <1>2, AppendFacts
<1> HIDE DEF q
<1>5. Len(p) >= 2 /\ \A i \in 3 .. Len(p) : p[i][1] \in Frees(p[i - 1][1])
  BY DEF Chain
<1>6. ASSUME NEW i \in 3 .. Len(q) PROVE q[i][1] \in Frees(q[i - 1][1])
  <2>1. CASE i = Len(p) + 1
    <3>1. q[i] = x /\ q[i - 1] = p[Len(p)]
      BY <1>4, <1>5, <2>1
    <3> QED
      BY <1>3, <3>1 DEF Kind
  <2>2. CASE i \in 3 .. Len(p)
    <3>1. q[i] = p[i] /\ q[i - 1] = p[i - 1]
      BY <1>4, <2>2
    <3> QED
      BY <1>5, <2>2, <3>1
  <2> QED
    BY <1>4, <2>1, <2>2
<1>7. Chain(q)
  BY <1>4, <1>5, <1>6 DEF Chain
<1> QED
  BY <1>7 DEF q, x

(* What a loader reads, the deep free knows. *)
LEMMA ListsFreed ==
  ASSUME NEW kind
  PROVE  Len(Lists(kind)) \in Nat /\ \A i \in 1 .. Len(Lists(kind)) : Lists(kind)[i] \in Frees(kind)
<1>1. CASE kind = "overallProcess"
  BY <1>1 DEF Lists, Frees
<1>2. CASE kind = "lexiconType"
  BY <1>2 DEF Lists, Frees
<1>3. CASE kind = "objectType"
  BY <1>3 DEF Lists, Frees
<1>4. CASE kind = "operationTable"
  BY <1>4 DEF Lists, Frees
<1>5. CASE kind = "data"
  BY <1>5 DEF Lists, Frees
<1>6. CASE kind # "overallProcess" /\ kind # "lexiconType" /\ kind # "objectType" /\ kind # "operationTable" /\ kind # "data"
  BY <1>6 DEF Lists, Frees
<1> QED
  BY <1>1, <1>2, <1>3, <1>4, <1>5, <1>6

LEMMA CountIsNat ==
  ASSUME DocInv, doc # NoTree, NEW node PROVE hes_query_count(node) \in Nat
<1>1. IsFiniteSet(doc)
  BY DocumentAssumption DEF DocInv, IsTree
<1>2. _eval(node) \subseteq doc
  BY DEF _eval
<1> QED
  BY <1>1, <1>2, FS_Subset, FS_CardinalityType DEF hes_query_count

LEMMA StackOf ==
  ASSUME NEW T, NEW w \in Seq(T), \A t \in T : Hangs(t) PROVE Stack(w)
BY DEF Stack

LEMMA StackPush ==
  ASSUME NEW w, Stack(w), w # <<>>, NEW n \in Nat, NEW f, f = [i \in 1 .. n |-> f[i]],
         \A i \in 1 .. n : Hangs(f[i])
  PROVE  Stack(f \o Tail(w))
<1>1. PICK T : w \in Seq(T) /\ \A t \in T : Hangs(t)
  BY DEF Stack
<1> DEFINE U == T \cup {f[i] : i \in 1 .. n}
<1>2. \A t \in U : Hangs(t)
  BY <1>1
<1>3. \A i \in 1 .. n : f[i] \in U
  OBVIOUS
<1>4. T \subseteq U
  OBVIOUS
<1> HIDE DEF U
<1>5. f \in Seq(U)
  BY <1>3
<1>6. Tail(w) \in Seq(U)
  BY <1>1, <1>4
<1>7. f \o Tail(w) \in Seq(U)
  BY <1>5, <1>6, ConcatFacts
<1> QED
  BY <1>2, <1>7 DEF Stack

LEMMA DocInit == ASSUME NEW d \in Documents \cup {NoTree}, DocStart(d) PROVE DocInv
BY DEF DocStart, DocInv

LEMMA DocInvStep == DocInv /\ [DocNext]_docvars => DocInv'
<1> SUFFICES ASSUME DocInv, [DocNext]_docvars PROVE DocInv'
  OBVIOUS
<1>1. CASE hes_query_open_fails
  BY <1>1 DEF hes_query_open_fails, DocInv
<1>2. CASE hes_gateway_load
  <2>1. Stack(work')
    <3>1. <<>> \in Seq({}) /\ <<Item(Process)>> \in Seq({Item(Process)})
      OBVIOUS
    <3>2. Chain(Process)
      <4>1. Process \in Seq({<<"file", EachOf>>, <<"overallProcess", EachOf>>}) /\ Len(Process) = 2
        BY DEF Process
      <4> HIDE DEF Process
      <4> QED
        BY <4>1 DEF Chain
    <3>3. Hangs(Item(Process))
      BY <3>2 DEF Hangs, Item
    <3>4. Stack(<<>>)
      <4> DEFINE T == {}
      <4>1. <<>> \in Seq(T) /\ \A t \in T : Hangs(t)
        BY <3>1
      <4> HIDE DEF T
      <4> QED
        BY <4>1, StackOf
    <3>5. Stack(<<Item(Process)>>)
      <4> DEFINE T == {Item(Process)}
      <4>1. <<Item(Process)>> \in Seq(T) /\ \A t \in T : Hangs(t)
        BY <3>1, <3>3
      <4> HIDE DEF T
      <4> QED
        BY <4>1, StackOf
    <3> QED
      BY <1>2, <3>4, <3>5 DEF hes_gateway_load
  <2> QED
    BY <1>2, <2>1 DEF hes_gateway_load, DocInv
<1>3. CASE LoadItem
  <2> DEFINE node == Head(work).path
             names == Lists(Kind(node))
             f == [i \in 1 .. Len(names) |-> ListOf(node, names[i])]
  <2>1. /\ dpc = "load" /\ work # <<>> /\ heap' = heap \cup {node} /\ held' = held \cup {node}
        /\ work' = f \o Tail(work) /\ UNCHANGED <<dpc, doc, starved>>
    BY <1>3 DEF LoadItem
  <2>2. Hangs(Head(work)) /\ Chain(node)
    <3>1. Stack(work)
      BY <2>1 DEF DocInv
    <3> QED
      BY <2>1, <3>1 DEF Stack, Hangs
  <2>3. Stack(work')
    <3>1. Stack(work)
      BY <2>1 DEF DocInv
    <3>2. Len(names) \in Nat /\ \A i \in 1 .. Len(names) : names[i] \in Frees(Kind(node))
      BY ListsFreed
    <3>3. \A i \in 1 .. Len(names) : Hangs(ListOf(node, names[i]))
      BY <2>2, <3>2 DEF Hangs, ListOf
    <3>4. f = [i \in 1 .. Len(names) |-> f[i]] /\ \A i \in 1 .. Len(names) : f[i] = ListOf(node, names[i])
      OBVIOUS
    <3> HIDE DEF f, names, node
    <3>5. Stack(f \o Tail(work))
      BY <2>1, <3>1, <3>2, <3>3, <3>4, StackPush
    <3> QED
      BY <2>1, <3>5
  <2> HIDE DEF node
  <2> QED
    BY <2>1, <2>2, <2>3 DEF DocInv
<1>4. CASE LoadItemFails
  <2>1. Stack(work')
    <3>1. dpc = "load" /\ work # <<>>
      BY <1>4 DEF LoadItemFails
    <3>2. PICK T : work \in Seq(T) /\ \A t \in T : Hangs(t)
      BY <3>1 DEF DocInv, Stack
    <3>3. Tail(work) \in Seq(T)
      BY <3>1, <3>2
    <3>4. \E K : work' = Selected(Tail(work), K)
      BY <1>4 DEF LoadItemFails, Where
    <3>5. work' \in Seq(T)
      BY <3>3, <3>4, WhereArray
    <3> QED
      BY <3>2, <3>5 DEF Stack
  <2> QED
    BY <1>4, <2>1 DEF LoadItemFails, DocInv
<1>5. CASE LoadList
  <2> DEFINE node == Head(work).path
             name == Head(work).list
             n == ListCount
             f == [i \in 1 .. n |-> Item(Append(node, <<name, i - 1>>))]
  <2>1. /\ dpc = "load" /\ work # <<>> /\ Head(work).what = "list"
        /\ work' = f \o Tail(work) /\ UNCHANGED <<dpc, doc, heap, held, starved>>
    BY <1>5 DEF LoadList, AtList
  <2>2. Chain(node) /\ name \in Frees(Kind(node))
    <3>1. Stack(work)
      BY <2>1 DEF DocInv
    <3>2. Hangs(Head(work))
      BY <2>1, <3>1 DEF Stack
    <3> QED
      BY <2>1, <3>2 DEF Hangs
  <2>3. Stack(work')
    <3>1. Stack(work)
      BY <2>1 DEF DocInv
    <3>2. n \in Nat
      BY <2>1, CountIsNat DEF ListCount, DocInv
    <3>3. f = [i \in 1 .. n |-> f[i]] /\ \A i \in 1 .. n : f[i] = Item(Append(node, <<name, i - 1>>))
      OBVIOUS
    <3> HIDE DEF f, n, node, name
    <3>4. \A i \in 1 .. n : Hangs(f[i])
      <4> TAKE i \in 1 .. n
      <4>1. Chain(Append(node, <<name, i - 1>>))
        BY <2>2, ChainAppend
      <4>2. Hangs(Item(Append(node, <<name, i - 1>>)))
        BY <4>1 DEF Hangs, Item
      <4> QED
        BY <3>3, <4>2, Zenon
    <3>5. Stack(f \o Tail(work))
      BY <2>1, <3>1, <3>2, <3>3, <3>4, StackPush
    <3> QED
      BY <2>1, <3>5
  <2> QED
    BY <2>1, <2>3 DEF DocInv
<1>6. CASE _handle_list
  <2>1. Stack(work')
    <3>1. dpc = "load" /\ work # <<>> /\ work' = Tail(work)
      BY <1>6 DEF _handle_list, AtList
    <3>2. PICK T : work \in Seq(T) /\ \A t \in T : Hangs(t)
      BY <3>1 DEF DocInv, Stack
    <3>3. work' \in Seq(T)
      BY <3>1, <3>2
    <3> QED
      BY <3>2, <3>3 DEF Stack
  <2> QED
    BY <1>6, <2>1 DEF _handle_list, AtList, DocInv
<1>7. CASE ArrayMissing
  BY <1>7 DEF ArrayMissing, AtList, DocInv
<1>8. CASE hes_query_close
  BY <1>8 DEF hes_query_close, DocInv
<1>9. CASE Show
  BY <1>9 DEF Show, DocInv
<1>10. CASE hes_gateway_free
  <2>1. \A p \in heap : Reached(p)
    BY <1>10 DEF hes_gateway_free, DocInv, Reached, Chain
  <2> QED
    BY <1>10, <2>1 DEF hes_gateway_free, DocInv
<1>11. CASE UNCHANGED docvars
  BY <1>11 DEF docvars, DocInv
<1> QED
  BY <1>1, <1>2, <1>3, <1>4, <1>5, <1>6, <1>7, <1>8, <1>9, <1>10, <1>11 DEF DocNext

-----------------------------------------------------------------------------
(* `bm show` reads the whole document.  With memory to spare, each struct  *)
(* stands for one element: the path it was read by is the element's own,   *)
(* counted from 0 below the process.                                       *)

PathStep == STRING \X (Nat \ {0})

PathOf(e) ==
  [i \in 1 .. Len(e) |-> <<e[i][1], IF i <= 2 THEN EachOf ELSE e[i][2] - 1>>]

(* The tree holds one process, and the loaders know its elements. *)
OneProcess == \A e \in doc : Len(e) > 1 => e[1] = <<"file", 1>> /\ e[2] = <<"overallProcess", 1>>
Known(d) ==
  \A e \in d : /\ Len(e) > 1 => e[2][1] = "overallProcess"
               /\ \A i \in 3 .. Len(e) : \E k \in 1 .. Len(Lists(e[i - 1][1])) :
                    Lists(e[i - 1][1])[k] = e[i][1]

LEMMA StepFacts ==
  /\ \A x \in PathStep : x[2] \in Nat \ {0} /\ x = <<x[1], x[2]>>
  /\ \A x, y \in PathStep : x[1] = y[1] /\ x[2] = y[2] => x = y
BY DEF PathStep

LEMMA PrefixFacts ==
  ASSUME NEW S, NEW e \in Seq(S), NEW k \in 0 .. Len(e)
  PROVE  /\ SubSeq(e, 1, k) \in Seq(S) /\ Len(SubSeq(e, 1, k)) = k
         /\ \A i \in 1 .. k : SubSeq(e, 1, k)[i] = e[i]
OBVIOUS

LEMMA SeqGraph ==
  ASSUME NEW S, NEW s \in Seq(S)
  PROVE  s = [i \in 1 .. Len(s) |-> s[i]]
OBVIOUS

LEMMA SameElement ==
  ASSUME NEW S, NEW s \in Seq(S), NEW t \in Seq(S), Len(s) = Len(t),
         \A i \in 1 .. Len(s) : s[i] = t[i]
  PROVE  s = t
OBVIOUS

(* What a tree says of one of its elements. *)
LEMMA ElementFacts ==
  ASSUME IsTree(doc), NEW e \in doc
  PROVE  /\ e \in Seq(PathStep) /\ Len(e) \in Nat \ {0}
         /\ \A i \in 1 .. Len(e) : e[i] \in PathStep
         /\ e[1][2] = 1 /\ \A f \in doc : f[1] = e[1]
         /\ \A k \in 1 .. Len(e) : SubSeq(e, 1, k) \in doc
         /\ \A k \in 1 .. Len(e) : \A n \in 1 .. e[k][2] :
              Append(SubSeq(e, 1, k - 1), <<e[k][1], n>>) \in doc
<1>1. e \in Seq(PathStep) /\ e # <<>>
  BY DEF IsTree, PathStep
<1>2. Len(e) \in Nat \ {0} /\ \A i \in 1 .. Len(e) : e[i] \in PathStep
  BY <1>1, EmptyFacts
<1> QED
  BY <1>1, <1>2 DEF IsTree

LEMMA PathFacts ==
  ASSUME IsTree(doc), NEW e \in doc
  PROVE  /\ Len(PathOf(e)) = Len(e) /\ DOMAIN PathOf(e) = 1 .. Len(e)
         /\ \A i \in 1 .. Len(e) :
              PathOf(e)[i] = <<e[i][1], IF i <= 2 THEN EachOf ELSE e[i][2] - 1>>
<1>1. Len(e) \in Nat
  BY ElementFacts
<1> QED
  BY <1>1 DEF PathOf

(* A query selects what it matches, step by step. *)
LEMMA EvalFacts ==
  ASSUME NEW query, NEW n \in Nat, Len(query) = n,
         \A i \in 1 .. n : query[i][2] = EachOf \/ query[i][2] \in Nat
  PROVE  _eval(query) =
           {e \in doc : Len(e) = n /\ \A i \in 1 .. n :
              e[i][1] = query[i][1] /\ (query[i][2] = EachOf \/ query[i][2] + 1 = e[i][2])}
<1> DEFINE xp == _translate_path(query)
<1>1. xp = [i \in 1 .. n |-> <<query[i][1], IF query[i][2] = EachOf THEN EachOf ELSE query[i][2] + 1>>]
  BY DEF _translate_path
<1>2. Len(xp) = n /\ \A i \in 1 .. n : /\ xp[i][1] = query[i][1]
                                       /\ xp[i][2] = IF query[i][2] = EachOf THEN EachOf ELSE query[i][2] + 1
  BY <1>1
<1>3. \A i \in 1 .. n : xp[i][2] = EachOf <=> query[i][2] = EachOf
  <2>1. \A x \in Nat : x + 1 \in Nat
    OBVIOUS
  <2> QED
    BY <1>2, <2>1, DocumentAssumption
<1> HIDE DEF xp
<1>4. _eval(query) = {e \in doc : Len(e) = n /\ \A i \in 1 .. n :
                        e[i][1] = xp[i][1] /\ (xp[i][2] = EachOf \/ xp[i][2] = e[i][2])}
  BY <1>2 DEF _eval, xp
<1> QED
  BY <1>2, <1>3, <1>4

(* A single overallProcess is the parent of everything below the root. *)
LEMMA ProcessFound ==
  ASSUME IsTree(doc), Known(doc), hes_query_count(Process) = 1
  PROVE  OneProcess /\ \E x \in doc : Len(x) > 1
<1> DEFINE op == <<"overallProcess", 1>>
<1>1. /\ Len(Process) = 2 /\ \A i \in 1 .. 2 : Process[i][2] = EachOf
      /\ Process[1][1] = "file" /\ Process[2][1] = "overallProcess"
  BY DEF Process
<1>2. _eval(Process) = {e \in doc : /\ Len(e) = 2 /\ e[1][1] = "file"
                                    /\ e[2][1] = "overallProcess"}
  <2>1. PICK n \in Nat : n = 2
    OBVIOUS
  <2>2. _eval(Process) = {e \in doc : Len(e) = n /\ \A i \in 1 .. n : e[i][1] = Process[i][1]
                                      /\ (Process[i][2] = EachOf \/ Process[i][2] + 1 = e[i][2])}
    <3>1. Len(Process) = n /\ \A i \in 1 .. n : Process[i][2] = EachOf
      BY <1>1, <2>1
    <3> QED
      BY <3>1, EvalFacts
  <2>3. \A i : i \in 1 .. n <=> i = 1 \/ i = 2
    BY <2>1
  <2> QED
    BY <1>1, <2>1, <2>2, <2>3
<1>3. PICK x : _eval(Process) = {x}
  <2>1. _eval(Process) \subseteq doc /\ IsFiniteSet(doc)
    BY <1>2 DEF IsTree
  <2>2. IsFiniteSet(_eval(Process)) /\ Cardinality(_eval(Process)) = 1
    BY <2>1, FS_Subset DEF hes_query_count
  <2> QED
    BY <2>2, FS_Singleton
<1>4. x \in doc /\ Len(x) = 2 /\ x[1][1] = "file" /\ x[2][1] = "overallProcess"
  BY <1>2, <1>3
<1>5. x[1] = <<"file", 1>> /\ x[2] \in PathStep
  <2>1. x[1] \in PathStep /\ x[2] \in PathStep /\ x[1][2] = 1
    <3>1. 1 \in 1 .. Len(x) /\ 2 \in 1 .. Len(x)
      BY <1>4
    <3> QED
      BY <1>4, <3>1, ElementFacts
  <2>2. x[1] = <<x[1][1], x[1][2]>>
    BY <2>1, StepFacts
  <2> QED
    BY <1>4, <2>1, <2>2
<1>6. x[2] = op
  <2> DEFINE y == Append(SubSeq(x, 1, 1), op)
  <2>1. x \in Seq(PathStep)
    BY <1>4, ElementFacts
  <2>2. SubSeq(x, 1, 1) \in Seq(PathStep) /\ Len(SubSeq(x, 1, 1)) = 1 /\ SubSeq(x, 1, 1)[1] = x[1]
    <3>1. 1 \in 0 .. Len(x) /\ 1 \in 1 .. 1
      BY <1>4
    <3> QED
      BY <2>1, <3>1, PrefixFacts
  <2>3. op \in PathStep
    <3>1. x[2][1] \in STRING
      BY <1>5 DEF PathStep
    <3> QED
      BY <1>4, <3>1 DEF PathStep
  <2>4. Len(y) = 2 /\ y[1] = x[1] /\ y[2] = op
    <3> DEFINE z == SubSeq(x, 1, 1)
    <3> HIDE DEF z, op
    <3>1. Len(Append(z, op)) = 2 /\ Append(z, op)[2] = op /\ Append(z, op)[1] = z[1]
      BY <2>2, <2>3, AppendFacts DEF z
    <3> QED
      BY <2>2, <3>1 DEF z
  <2>5. y \in doc
    <3>1. 1 \in 1 .. x[2][2] /\ 2 \in 1 .. Len(x) /\ 2 - 1 = 1
      BY <1>4, <1>5, StepFacts
    <3>2. Append(SubSeq(x, 1, 2 - 1), <<x[2][1], 1>>) \in doc
      BY <1>4, <3>1, ElementFacts
    <3> QED
      BY <1>4, <3>1, <3>2
  <2>6. y \in _eval(Process)
    <3>1. op[1] = "overallProcess"
      OBVIOUS
    <3> HIDE DEF y, op
    <3> QED
      BY <1>2, <1>4, <2>4, <2>5, <3>1
  <2> QED
    BY <1>3, <2>4, <2>6
<1>7. ASSUME NEW e \in doc, Len(e) > 1
      PROVE  e[1] = <<"file", 1>> /\ e[2] = op
  <2>1. e[1] = x[1] /\ e \in Seq(PathStep) /\ Len(e) \in Nat
    BY <1>4, <1>7, ElementFacts
  <2>2. SubSeq(e, 1, 2) \in doc
    BY <1>7, <2>1, ElementFacts
  <2>3. Len(SubSeq(e, 1, 2)) = 2 /\ SubSeq(e, 1, 2)[1] = e[1] /\ SubSeq(e, 1, 2)[2] = e[2]
    BY <1>7, <2>1, PrefixFacts
  <2>4. e[2][1] = "overallProcess"
    BY <1>7 DEF Known
  <2>5. SubSeq(e, 1, 2) = x
    BY <1>2, <1>3, <1>4, <2>1, <2>2, <2>3, <2>4
  <2> QED
    BY <1>5, <1>6, <2>1, <2>3, <2>5
<1>8. Len(x) > 1
  BY <1>4
<1> QED
  BY <1>4, <1>7, <1>8 DEF OneProcess

(* The path of an element selects that element alone. *)
LEMMA PathSelects ==
  ASSUME IsTree(doc), OneProcess, NEW e \in doc, Len(e) > 1
  PROVE  _eval(PathOf(e)) = {e}
<1> DEFINE n == Len(e)
           q == PathOf(e)
<1>1. n \in Nat /\ e \in Seq(PathStep) /\ \A i \in 1 .. n : e[i] \in PathStep
  BY ElementFacts
<1>2. Len(q) = n /\ \A i \in 1 .. n : /\ q[i][1] = e[i][1]
                                      /\ q[i][2] = IF i <= 2 THEN EachOf ELSE e[i][2] - 1
  BY PathFacts
<1>3. \A i \in 1 .. n : e[i][2] \in Nat \ {0} /\ e[i][2] - 1 \in Nat /\ e[i][2] - 1 + 1 = e[i][2]
  BY <1>1, StepFacts
<1>4. \A i \in 1 .. n : q[i][2] = EachOf \/ q[i][2] \in Nat
  BY <1>2, <1>3
<1>5. \A i \in 1 .. n : IF i <= 2 THEN q[i][2] = EachOf ELSE q[i][2] # EachOf /\ q[i][2] + 1 = e[i][2]
  BY <1>2, <1>3, DocumentAssumption
<1> HIDE DEF q
<1>6. _eval(q) = {f \in doc : Len(f) = n /\ \A i \in 1 .. n :
                    f[i][1] = q[i][1] /\ (q[i][2] = EachOf \/ q[i][2] + 1 = f[i][2])}
  BY <1>1, <1>2, <1>4, EvalFacts
<1>7. e \in _eval(q)
  BY <1>2, <1>5, <1>6
<1>8. ASSUME NEW f \in _eval(q) PROVE f = e
  <2>1. f \in doc /\ Len(f) = n /\ \A i \in 1 .. n :
          f[i][1] = q[i][1] /\ (q[i][2] = EachOf \/ q[i][2] + 1 = f[i][2])
    BY <1>6, <1>8
  <2>2. f \in Seq(PathStep) /\ \A i \in 1 .. n : f[i] \in PathStep
    BY <2>1, ElementFacts
  <2>3. f[1] = e[1] /\ f[2] = e[2]
    BY <2>1 DEF OneProcess
  <2>4. ASSUME NEW i \in 1 .. n PROVE f[i] = e[i]
    <3>1. CASE i <= 2
      BY <2>3, <3>1
    <3>2. CASE ~(i <= 2)
      <4>1. f[i][2] = e[i][2] /\ f[i][1] = e[i][1]
        BY <1>2, <1>5, <2>1, <3>2
      <4> QED
        BY <1>1, <2>2, <4>1, StepFacts
    <3> QED
      BY <3>1, <3>2
  <2> QED
    BY <1>1, <2>1, <2>2, <2>4, SameElement
<1> QED
  BY <1>7, <1>8 DEF q

(* The path of a child continues that of its parent. *)
LEMMA PathOfChild ==
  ASSUME IsTree(doc), NEW e \in doc, Len(e) > 1, NEW x \in PathStep,
         Append(e, x) \in doc
  PROVE  PathOf(Append(e, x)) = Append(PathOf(e), <<x[1], x[2] - 1>>)
<1> DEFINE f == Append(e, x)
           y == <<x[1], x[2] - 1>>
           q == PathOf(e)
           R == {q[i] : i \in 1 .. Len(e)} \cup {y}
<1>1. e \in Seq(PathStep) /\ Len(e) \in Nat
  BY ElementFacts
<1>2. Len(f) = Len(e) + 1 /\ f[Len(e) + 1] = x /\ \A i \in 1 .. Len(e) : f[i] = e[i]
  BY <1>1, AppendFacts
<1>3. Len(q) = Len(e) /\ DOMAIN q = 1 .. Len(e) /\ \A i \in 1 .. Len(e) :
        q[i] = <<e[i][1], IF i <= 2 THEN EachOf ELSE e[i][2] - 1>>
  BY PathFacts
<1>4. PathOf(f) = [i \in 1 .. Len(f) |-> <<f[i][1], IF i <= 2 THEN EachOf ELSE f[i][2] - 1>>]
  BY DEF PathOf
<1> HIDE DEF f
<1>5. q \in Seq(R) /\ y \in R
  <2>1. q = [i \in 1 .. Len(e) |-> q[i]]
    BY DEF PathOf
  <2>2. \A i \in 1 .. Len(e) : q[i] \in R
    OBVIOUS
  <2> HIDE DEF R, q
  <2>3. q \in Seq(R)
    BY <1>1, <2>1, <2>2
  <2>4. y \in R
    BY DEF R
  <2> QED
    BY <2>3, <2>4
<1> HIDE DEF R, q, y
<1>6. /\ Append(q, y) \in Seq(R) /\ Len(Append(q, y)) = Len(e) + 1 /\ Append(q, y)[Len(e) + 1] = y
      /\ \A i \in 1 .. Len(e) : Append(q, y)[i] = q[i]
  BY <1>3, <1>5, AppendFacts
<1>7. ASSUME NEW i \in 1 .. Len(e) + 1 PROVE PathOf(f)[i] = Append(q, y)[i]
  <2>1. CASE i = Len(e) + 1
    <3>1. ~(i <= 2)
      BY <1>1, <2>1
    <3> QED
      BY <1>2, <1>4, <1>6, <2>1, <3>1 DEF y
  <2>2. CASE i \in 1 .. Len(e)
    BY <1>2, <1>3, <1>4, <1>6, <2>2
  <2>3. i = Len(e) + 1 \/ i \in 1 .. Len(e)
    BY <1>1
  <2> QED
    BY <2>1, <2>2, <2>3
<1>8. PathOf(f) \in Seq(R) /\ Len(PathOf(f)) = Len(e) + 1
  <2>1. Append(q, y) = [i \in 1 .. Len(e) + 1 |-> Append(q, y)[i]]
    BY <1>6, SeqGraph
  <2>2. PathOf(f) = [i \in 1 .. Len(e) + 1 |-> PathOf(f)[i]]
    BY <1>2, <1>4
  <2>3. PathOf(f) = Append(q, y)
    BY <1>7, <2>1, <2>2
  <2> QED
    BY <1>6, <2>3
<1> QED
  BY <1>6, <1>7, <1>8, SameElement DEF f, q, y

LEMMA BijectionFacts ==
  ASSUME NEW S, NEW T, NEW g \in [S -> T], \A a, b \in S : g[a] = g[b] => a = b,
         \A t \in T : \E s \in S : g[s] = t
  PROVE  ExistsBijection(S, T)
BY DEF ExistsBijection, Bijection, Injection, Surjection, IsInjective

(* A set of positive numbers closed downwards is an initial interval. *)
LEMMA InitialInterval ==
  ASSUME NEW Nth, IsFiniteSet(Nth), Nth \subseteq Nat \ {0},
         \A n \in Nth : \A m \in 1 .. n : m \in Nth
  PROVE  Cardinality(Nth) \in Nat /\ \A n \in Nat \ {0} : n \in Nth <=> n <= Cardinality(Nth)
<1> DEFINE c == Cardinality(Nth)
<1>1. c \in Nat
  BY FS_CardinalityType
<1>2. \A n \in Nat : IsFiniteSet(1 .. n) /\ Cardinality(1 .. n) = n
  <2> TAKE n \in Nat
  <2>1. IsFiniteSet(1 .. n) /\ Cardinality(1 .. n) = IF 1 > n THEN 0 ELSE n - 1 + 1
    BY FS_Interval
  <2> QED
    BY <2>1
<1>3. \A n \in Nth : n <= c
  <2> TAKE n \in Nth
  <2>1. 1 .. n \in SUBSET Nth /\ n \in Nat
    OBVIOUS
  <2>2. Cardinality(1 .. n) <= Cardinality(Nth)
    BY <2>1, FS_Subset
  <2> QED
    BY <1>2, <2>1, <2>2
<1>4. Nth \in SUBSET (1 .. c)
  BY <1>1, <1>3
<1>5. Nth = 1 .. c
  BY <1>1, <1>2, <1>4, FS_Subset
<1> HIDE DEF c
<1>6. \A n \in Nat \ {0} : n \in Nth <=> n <= c
  BY <1>1, <1>5
<1> QED
  BY <1>1, <1>6 DEF c

LEMMA EveryStepIn == \A e, x : e \in Seq(PathStep) => e \in Seq(PathStep \cup {x})
OBVIOUS

(* HES_GW_LOAD_LIST reads as many items as the element has such children. *)
LEMMA ChildCount ==
  ASSUME IsTree(doc), OneProcess, NEW e \in doc, Len(e) > 1, NEW name
  PROVE  /\ hes_query_count(Append(PathOf(e), <<name, EachOf>>)) \in Nat
         /\ \A n \in Nat \ {0} :
              Append(e, <<name, n>>) \in doc
                <=> n <= hes_query_count(Append(PathOf(e), <<name, EachOf>>))
<1> DEFINE L == Len(e)
           child(n) == Append(e, <<name, n>>)
           Nth == {n \in Nat \ {0} : child(n) \in doc}
           query == Append(PathOf(e), <<name, EachOf>>)
           S == _eval(query)
<1>1. L \in Nat /\ e \in Seq(PathStep) /\ \A i \in 1 .. L : e[i] \in PathStep
  BY ElementFacts
<1>2. \A n : Len(child(n)) = L + 1 /\ child(n)[L + 1] = <<name, n>> /\ \A i \in 1 .. L : child(n)[i] = e[i]
  <2> TAKE n
  <2> DEFINE x == <<name, n>>
  <2> HIDE DEF x
  <2>1. e \in Seq(PathStep \cup {x}) /\ x \in PathStep \cup {x}
    BY <1>1, EveryStepIn
  <2>2. Len(Append(e, x)) = L + 1 /\ Append(e, x)[L + 1] = x /\ \A i \in 1 .. L : Append(e, x)[i] = e[i]
    BY <2>1, AppendFacts
  <2> QED
    BY <2>2 DEF x
<1>3. \A i \in 1 .. L : /\ PathOf(e)[i][1] = e[i][1] /\ e[i][2] \in Nat \ {0}
                        /\ PathOf(e)[i][2] = IF i <= 2 THEN EachOf ELSE e[i][2] - 1
  BY <1>1, PathFacts, StepFacts
<1>4. Len(query) = L + 1 /\ query[L + 1] = <<name, EachOf>> /\ \A i \in 1 .. L : query[i] = PathOf(e)[i]
  <2> DEFINE p == PathOf(e)
             x == <<name, EachOf>>
             R == {p[i] : i \in 1 .. L} \cup {x}
  <2>1. p = [i \in 1 .. L |-> p[i]] /\ Len(p) = L
    BY PathFacts DEF PathOf
  <2>2. \A i \in 1 .. L : p[i] \in R
    OBVIOUS
  <2>3. x \in R
    OBVIOUS
  <2> HIDE DEF p, x, R
  <2>4. p \in Seq(R)
    BY <1>1, <2>1, <2>2
  <2>5. Len(Append(p, x)) = L + 1 /\ Append(p, x)[L + 1] = x /\ \A i \in 1 .. L : Append(p, x)[i] = p[i]
    BY <2>1, <2>3, <2>4, AppendFacts
  <2> QED
    BY <2>5 DEF p, x
<1> HIDE DEF query
<1>5. S = {f \in doc : Len(f) = L + 1 /\ \A i \in 1 .. L + 1 :
             f[i][1] = query[i][1] /\ (query[i][2] = EachOf \/ query[i][2] + 1 = f[i][2])}
  <2>1. \A i \in 1 .. L + 1 : query[i][2] = EachOf \/ query[i][2] \in Nat
    <3>1. \A i \in 1 .. L + 1 : i \in 1 .. L \/ i = L + 1
      BY <1>1
    <3>2. \A x \in Nat \ {0} : x - 1 \in Nat
      OBVIOUS
    <3>3. query[L + 1][2] = EachOf
      BY <1>4
    <3> QED
      BY <1>3, <1>4, <3>1, <3>2, <3>3
  <2> DEFINE n == L + 1
  <2>2. n \in Nat /\ Len(query) = n
    BY <1>1, <1>4
  <2>3. \A i \in 1 .. n : query[i][2] = EachOf \/ query[i][2] \in Nat
    BY <2>1
  <2> HIDE DEF n
  <2>4. _eval(query) = {f \in doc : Len(f) = n /\ \A i \in 1 .. n :
          f[i][1] = query[i][1] /\ (query[i][2] = EachOf \/ query[i][2] + 1 = f[i][2])}
    BY <2>2, <2>3, EvalFacts
  <2> QED
    BY <2>4 DEF n
<1>6. \A f \in S : f \in doc /\ Len(f) = L + 1 /\ f[L + 1][1] = name /\ f[L + 1][2] \in Nat \ {0}
                   /\ f[L + 1] = <<name, f[L + 1][2]>> /\ \A i \in 1 .. L : f[i] = e[i]
  <2> SUFFICES ASSUME NEW f \in S
               PROVE  f \in doc /\ Len(f) = L + 1 /\ f[L + 1][1] = name /\ f[L + 1][2] \in Nat \ {0}
                      /\ f[L + 1] = <<name, f[L + 1][2]>> /\ \A i \in 1 .. L : f[i] = e[i]
    OBVIOUS
  <2>1. f \in doc /\ Len(f) = L + 1 /\ \A i \in 1 .. L + 1 :
          f[i][1] = query[i][1] /\ (query[i][2] = EachOf \/ query[i][2] + 1 = f[i][2])
    BY <1>5
  <2>2. \A i \in 1 .. L + 1 : f[i] \in PathStep
    BY <2>1, ElementFacts
  <2>3. L + 1 \in 1 .. L + 1 /\ \A i \in 1 .. L : i \in 1 .. L + 1
    BY <1>1
  <2>4. f[L + 1][1] = name /\ f[L + 1][2] \in Nat \ {0} /\ f[L + 1] = <<f[L + 1][1], f[L + 1][2]>>
    BY <1>4, <2>1, <2>2, <2>3, StepFacts
  <2>5. ASSUME NEW i \in 1 .. L PROVE f[i] = e[i]
    <3>1. CASE i <= 2
      <4>0. Len(f) > 1
        BY <1>1, <2>1
      <4>1. f[1] = e[1] /\ f[2] = e[2]
        BY <2>1, <4>0 DEF OneProcess
      <4>2. i = 1 \/ i = 2
        BY <3>1
      <4> QED
        BY <4>1, <4>2
    <3>2. CASE ~(i <= 2)
      <4>1. query[i][2] = e[i][2] - 1 /\ e[i][2] \in Nat \ {0} /\ query[i][1] = e[i][1]
        BY <1>3, <1>4, <3>2
      <4>2. query[i][2] # EachOf /\ query[i][2] + 1 = e[i][2]
        BY <4>1, DocumentAssumption
      <4>3. f[i][1] = e[i][1] /\ f[i][2] = e[i][2]
        BY <2>1, <2>3, <4>1, <4>2
      <4> QED
        BY <1>1, <2>2, <2>3, <4>3, StepFacts
    <3> QED
      BY <3>1, <3>2
  <2> QED
    BY <2>1, <2>4, <2>5
<1>7. \A n \in Nth : child(n) \in S
  <2> TAKE n \in Nth
  <2>1. child(n) \in doc /\ Len(child(n)) = L + 1 /\ child(n)[L + 1][1] = name
    BY <1>2
  <2>2. ASSUME NEW i \in 1 .. L + 1
        PROVE  child(n)[i][1] = query[i][1] /\ (query[i][2] = EachOf \/ query[i][2] + 1 = child(n)[i][2])
    <3> HIDE DEF child, Nth
    <3>1. CASE i = L + 1
      BY <1>4, <2>1, <3>1
    <3>2. CASE i \in 1 .. L
      <4>1. child(n)[i] = e[i] /\ query[i][1] = e[i][1] /\ e[i][2] \in Nat \ {0}
        BY <1>2, <1>3, <1>4, <3>2
      <4>2. query[i][2] = EachOf \/ query[i][2] = e[i][2] - 1
        BY <1>3, <1>4, <3>2
      <4> QED
        BY <4>1, <4>2
    <3> QED
      BY <1>1, <3>1, <3>2
  <2> HIDE DEF child, Nth
  <2> QED
    BY <1>5, <2>1, <2>2
<1>8. \A f \in S : f[L + 1][2] \in Nth /\ f = child(f[L + 1][2])
  <2> TAKE f \in S
  <2> DEFINE n == f[L + 1][2]
  <2>1. f \in Seq(PathStep) /\ f[L + 1] \in PathStep /\ n \in Nat \ {0} /\ f[L + 1] = <<name, n>>
        /\ f \in doc /\ Len(f) = L + 1 /\ \A i \in 1 .. L : f[i] = e[i]
    <3>1. L + 1 \in 1 .. L + 1
      BY <1>1
    <3> QED
      BY <1>6, <3>1, ElementFacts
  <2>2. child(n) \in Seq(PathStep)
    <3> DEFINE x == <<name, n>>
    <3>1. x \in PathStep
      BY <2>1
    <3> HIDE DEF x
    <3>2. Append(e, x) \in Seq(PathStep)
      BY <1>1, <3>1, AppendFacts
    <3> QED
      BY <3>2 DEF x
  <2>3. \A i \in 1 .. L + 1 : f[i] = child(n)[i]
    <3> HIDE DEF child, n
    <3>1. \A i \in 1 .. L + 1 : i = L + 1 \/ i \in 1 .. L
      BY <1>1
    <3> QED
      BY <1>2, <2>1, <3>1
  <2>4. Len(child(n)) = L + 1
    BY <1>2
  <2> HIDE DEF child, n
  <2>5. f = child(n)
    BY <2>1, <2>2, <2>3, <2>4, SameElement
  <2> QED
    BY <2>1, <2>5 DEF n, Nth
<1>9. IsFiniteSet(S)
  <2>1. S \in SUBSET doc
    BY <1>6
  <2> QED
    BY <2>1, FS_Subset DEF IsTree
<1>10. ExistsBijection(S, Nth)
  <2> DEFINE g == [f \in S |-> f[L + 1][2]]
  <2>1. g \in [S -> Nth]
    BY <1>8
  <2>2. \A a, b \in S : g[a] = g[b] => a = b
    BY <1>8
  <2>3. \A n \in Nth : \E f \in S : g[f] = n
    <3> TAKE n \in Nth
    <3>1. child(n) \in S
      BY <1>7
    <3>2. child(n)[L + 1][2] = n
      BY <1>2
    <3> HIDE DEF child, S
    <3> QED
      BY <3>1, <3>2
  <2> HIDE DEF g, S, Nth
  <2> QED
    BY <2>1, <2>2, <2>3, BijectionFacts
<1>11. IsFiniteSet(Nth) /\ Cardinality(Nth) = Cardinality(S)
  BY <1>9, <1>10, FS_Bijection
<1>12. \A n \in Nth : \A m \in 1 .. n : m \in Nth
  <2> TAKE n \in Nth
  <2> TAKE m \in 1 .. n
  <2>1. child(n) \in doc /\ n \in Nat \ {0} /\ m \in Nat \ {0}
    OBVIOUS
  <2>2. child(n)[L + 1] = <<name, n>> /\ Len(child(n)) = L + 1
    BY <1>2
  <2>3. child(n)[L + 1][1] = name /\ child(n)[L + 1][2] = n
    BY <2>2
  <2>4. SubSeq(child(n), 1, L) = e
    <3>1. child(n) \in Seq(PathStep)
      BY <2>1, ElementFacts
    <3>2. L \in 0 .. Len(child(n))
      BY <1>1, <2>2
    <3>3. \A i \in 1 .. L : child(n)[i] = e[i]
      BY <1>2
    <3> HIDE DEF child, Nth
    <3>4. /\ SubSeq(child(n), 1, L) \in Seq(PathStep) /\ Len(SubSeq(child(n), 1, L)) = L
          /\ \A i \in 1 .. L : SubSeq(child(n), 1, L)[i] = child(n)[i]
      BY <3>1, <3>2, PrefixFacts
    <3> QED
      BY <1>1, <3>3, <3>4, SameElement
  <2>5. L + 1 \in 1 .. Len(child(n)) /\ L + 1 - 1 = L /\ m \in 1 .. child(n)[L + 1][2]
    BY <1>1, <2>2, <2>3
  <2>6. Append(SubSeq(child(n), 1, L + 1 - 1), <<child(n)[L + 1][1], m>>) \in doc
    <3> HIDE DEF child, Nth
    <3> QED
      BY <2>1, <2>5, ElementFacts
  <2>7. Append(e, <<name, m>>) \in doc
    BY <2>3, <2>4, <2>5, <2>6
  <2> QED
    BY <2>1, <2>7
<1>13. Nth \subseteq Nat \ {0}
  OBVIOUS
<1>14. \A n \in Nat \ {0} : n \in Nth <=> Append(e, <<name, n>>) \in doc
  OBVIOUS
<1>15. hes_query_count(query) = Cardinality(S)
  BY DEF hes_query_count
<1> HIDE DEF Nth, S
<1>16. Cardinality(Nth) \in Nat /\ \A n \in Nat \ {0} : n \in Nth <=> n <= Cardinality(Nth)
  BY <1>11, <1>12, <1>13, InitialInterval
<1> QED
  BY <1>11, <1>14, <1>15, <1>16 DEF query
-----------------------------------------------------------------------------
(* The loader's invariant: what it has read or will read is in the tree,   *)
(* and what is in the tree it has read or will read.                       *)

Tasked(w, t) == \E k \in 1 .. Len(w) : w[k] = t

Covers(t, e) ==
  \E k \in 2 .. Len(e) :
    /\ t.path = PathOf(SubSeq(e, 1, k))
    /\ t.what = "list" => k < Len(e) /\ e[k + 1][1] = t.list

Real(p) == \E e \in doc : Len(e) > 1 /\ p = PathOf(e)

Reading == dpc \in {"load", "show"} /\ ~starved /\ hes_query_count(Process) = 1
ReadInv ==
  /\ dpc = "show" => work = <<>> /\ doc # NoTree
  /\ Reading => /\ \A p \in heap : Real(p)
                /\ \A t : Tasked(work, t) => t.what \in {"item", "list"} /\ Real(t.path)
                /\ \A e \in doc : Len(e) > 1 =>
                     PathOf(e) \in heap \/ \E t : Tasked(work, t) /\ Covers(t, e)

(* What was due and is not at the head of the stack is still due. *)
LEMMA TaskedPush ==
  ASSUME NEW w, Stack(w), w # <<>>, NEW n \in Nat, NEW f, f = [i \in 1 .. n |-> f[i]]
  PROVE  /\ \A t : Tasked(w, t) => t = Head(w) \/ Tasked(f \o Tail(w), t)
         /\ \A i \in 1 .. n : Tasked(f \o Tail(w), f[i])
         /\ \A t : Tasked(f \o Tail(w), t) => Tasked(w, t) \/ \E i \in 1 .. n : t = f[i]
         /\ Tasked(w, Head(w))
<1>1. PICK T : w \in Seq(T)
  BY DEF Stack
<1> DEFINE U == T \cup {f[i] : i \in 1 .. n}
           v == Tail(w)
           u == f \o v
<1>2. T \subseteq U /\ \A i \in 1 .. n : f[i] \in U
  OBVIOUS
<1>3. /\ Len(w) \in Nat \ {0} /\ v \in Seq(T) /\ Len(v) = Len(w) - 1 /\ Head(w) = w[1]
      /\ \A k \in 1 .. Len(v) : v[k] = w[k + 1]
  BY <1>1, EmptyFacts
<1> HIDE DEF U, v
<1>4. f \in Seq(U) /\ Len(f) = n /\ v \in Seq(U)
  BY <1>2, <1>3
<1>5. /\ Len(u) = n + Len(v) /\ Len(v) \in Nat
      /\ \A k \in 1 .. n : u[k] = f[k]
      /\ \A k \in 1 .. Len(v) : u[n + k] = v[k]
      /\ \A k \in 1 .. Len(u) : k \in 1 .. n \/ (k - n \in 1 .. Len(v) /\ k = n + (k - n))
  BY <1>4, ConcatFacts
<1> HIDE DEF u
<1>6. ASSUME NEW k \in 1 .. Len(w) PROVE w[k] = Head(w) \/ Tasked(u, w[k])
  <2>1. CASE k = 1
    BY <1>3, <2>1
  <2>2. CASE k # 1
    <3>1. k - 1 \in 1 .. Len(v) /\ v[k - 1] = w[k]
      <4>1. k - 1 \in 1 .. Len(v) /\ (k - 1) + 1 = k
        BY <1>3, <2>2
      <4> QED
        BY <1>3, <4>1
    <3>2. n + (k - 1) \in 1 .. Len(u) /\ u[n + (k - 1)] = w[k]
      BY <1>5, <3>1
    <3> QED
      BY <3>2 DEF Tasked
  <2> QED
    BY <2>1, <2>2
<1>7. \A i \in 1 .. n : Tasked(u, f[i])
  <2> TAKE i \in 1 .. n
  <2>1. i \in 1 .. Len(u) /\ u[i] = f[i]
    BY <1>5
  <2> QED
    BY <2>1 DEF Tasked
<1>8. ASSUME NEW k \in 1 .. Len(u) PROVE Tasked(w, u[k]) \/ \E i \in 1 .. n : u[k] = f[i]
  <2>1. CASE k \in 1 .. n
    BY <1>5, <2>1
  <2>2. CASE k - n \in 1 .. Len(v) /\ k = n + (k - n)
    <3>1. u[k] = v[k - n] /\ v[k - n] = w[(k - n) + 1] /\ (k - n) + 1 \in 1 .. Len(w)
      BY <1>3, <1>5, <2>2
    <3> QED
      BY <3>1 DEF Tasked
  <2> QED
    BY <1>5, <2>1, <2>2
<1>9. Tasked(w, Head(w))
  <2>1. 1 \in 1 .. Len(w)
    BY <1>3
  <2> QED
    BY <1>3, <2>1 DEF Tasked
<1>10. \A t : Tasked(w, t) => t = Head(w) \/ Tasked(u, t)
  <2> SUFFICES ASSUME NEW t, Tasked(w, t) PROVE t = Head(w) \/ Tasked(u, t)
    OBVIOUS
  <2>1. PICK k \in 1 .. Len(w) : w[k] = t
    BY DEF Tasked
  <2> QED
    BY <1>6, <2>1
<1>11. \A t : Tasked(u, t) => Tasked(w, t) \/ \E i \in 1 .. n : t = f[i]
  <2> SUFFICES ASSUME NEW t, Tasked(u, t) PROVE Tasked(w, t) \/ \E i \in 1 .. n : t = f[i]
    OBVIOUS
  <2>1. PICK k \in 1 .. Len(u) : u[k] = t
    BY DEF Tasked
  <2> QED
    BY <1>8, <2>1
<1> QED
  BY <1>7, <1>9, <1>10, <1>11 DEF u, v

LEMMA CoverPrefix ==
  ASSUME IsTree(doc), NEW e \in doc, NEW k \in 2 .. Len(e)
  PROVE  /\ SubSeq(e, 1, k) \in doc /\ Len(SubSeq(e, 1, k)) = k
         /\ \A i \in 1 .. k : SubSeq(e, 1, k)[i] = e[i]
<1>1. e \in Seq(PathStep) /\ Len(e) \in Nat
  BY ElementFacts
<1>2. k \in 0 .. Len(e) /\ k \in 1 .. Len(e)
  BY <1>1
<1> QED
  BY <1>1, <1>2, ElementFacts, PrefixFacts

LEMMA WholePrefix ==
  ASSUME IsTree(doc), NEW e \in doc
  PROVE  SubSeq(e, 1, Len(e)) = e
<1>1. e \in Seq(PathStep) /\ Len(e) \in Nat
  BY ElementFacts
<1> QED
  BY <1>1

(* The struct of an element is made; what hangs below it is in its lists. *)
LEMMA ItemCovers ==
  ASSUME IsTree(doc), Known(doc), NEW e \in doc, Len(e) > 1,
         NEW t, t.what = "item", Covers(t, e)
  PROVE  \/ PathOf(e) = t.path
         \/ \E i \in 1 .. Len(Lists(Kind(t.path))) : Covers(ListOf(t.path, Lists(Kind(t.path))[i]), e)
<1>1. PICK k \in 2 .. Len(e) : t.path = PathOf(SubSeq(e, 1, k))
  BY DEF Covers
<1>2. Len(e) \in Nat
  BY ElementFacts
<1>3. CASE k = Len(e)
  BY <1>1, <1>3, WholePrefix
<1>4. CASE k # Len(e)
  <2> DEFINE f == SubSeq(e, 1, k)
             node == t.path
             names == Lists(Kind(node))
  <2>1. f \in doc /\ Len(f) = k /\ f[k] = e[k]
    BY CoverPrefix
  <2>2. k < Len(e) /\ k + 1 \in 3 .. Len(e) /\ k + 1 - 1 = k
    BY <1>2, <1>4
  <2>3. Kind(node) = e[k][1]
    <3> HIDE DEF f
    <3>1. /\ Len(PathOf(f)) = Len(f)
          /\ \A i \in 1 .. Len(f) : PathOf(f)[i] = <<f[i][1], IF i <= 2 THEN EachOf ELSE f[i][2] - 1>>
      BY <2>1, PathFacts
    <3>2. Len(f) \in 1 .. Len(f)
      BY <2>1
    <3>3. PathOf(f)[Len(f)][1] = f[Len(f)][1]
      BY <3>1, <3>2
    <3> QED
      BY <1>1, <2>1, <3>1, <3>3 DEF Kind, f
  <2>4. PICK i \in 1 .. Len(names) : names[i] = e[k + 1][1]
    BY <2>2, <2>3 DEF Known
  <2> HIDE DEF names
  <2>5. Covers(ListOf(node, names[i]), e)
    <3>1. ListOf(node, names[i]).path = node /\ ListOf(node, names[i]).list = names[i]
      BY DEF ListOf
    <3> HIDE DEF node
    <3> QED
      BY <1>1, <2>2, <2>4, <3>1 DEF Covers, node
  <2> QED
    BY <2>5 DEF names
<1> QED
  BY <1>3, <1>4

(* Each child a list stands for gets an item. *)
LEMMA ListCovers ==
  ASSUME IsTree(doc), OneProcess, NEW e \in doc, Len(e) > 1,
         NEW t, t.what = "list", Covers(t, e),
         NEW m, m = hes_query_count(Append(t.path, <<t.list, EachOf>>))
  PROVE  \E i \in 1 .. m : Covers(Item(Append(t.path, <<t.list, i - 1>>)), e)
<1> DEFINE name == t.list
<1>1. PICK k \in 2 .. Len(e) : t.path = PathOf(SubSeq(e, 1, k)) /\ k < Len(e) /\ e[k + 1][1] = name
  BY DEF Covers
<1> DEFINE f == SubSeq(e, 1, k)
           x == e[k + 1]
<1>2. Len(e) \in Nat /\ k \in Nat /\ k + 1 \in 2 .. Len(e) /\ k + 1 \in 1 .. Len(e)
  BY <1>1, ElementFacts
<1>3. f \in doc /\ Len(f) = k /\ Len(f) > 1 /\ \A i \in 1 .. k : f[i] = e[i]
  BY CoverPrefix
<1>4. x \in PathStep /\ x[2] \in Nat \ {0} /\ x = <<name, x[2]>>
  <2>1. x \in PathStep
    BY <1>2, ElementFacts
  <2>2. x = <<x[1], x[2]>> /\ x[2] \in Nat \ {0}
    BY <2>1, StepFacts
  <2> QED
    BY <1>1, <2>1, <2>2
<1>5. SubSeq(e, 1, k + 1) = Append(f, x)
  <2> DEFINE g == SubSeq(e, 1, k + 1)
  <2>1. g \in doc /\ Len(g) = k + 1 /\ \A i \in 1 .. k + 1 : g[i] = e[i]
    BY <1>2, CoverPrefix
  <2>2. g \in Seq(PathStep) /\ f \in Seq(PathStep)
    BY <1>3, <2>1, ElementFacts
  <2> HIDE DEF f, g
  <2>3. Append(f, x) \in Seq(PathStep) /\ Len(Append(f, x)) = k + 1 /\ Append(f, x)[k + 1] = x
        /\ \A i \in 1 .. k : Append(f, x)[i] = f[i]
    BY <1>3, <1>4, <2>2, AppendFacts
  <2>4. \A i \in 1 .. k + 1 : i \in 1 .. k \/ i = k + 1
    BY <1>2
  <2>5. \A i \in 1 .. k + 1 : g[i] = Append(f, x)[i]
    BY <1>3, <2>1, <2>3, <2>4
  <2>6. g = Append(f, x)
    BY <2>1, <2>2, <2>3, <2>5, SameElement
  <2> QED
    BY <2>6 DEF g
<1>6. Append(f, x) \in doc
  BY <1>2, <1>5, CoverPrefix
<1> DEFINE n == x[2]
<1>7. n \in 1 .. m
  <2>1. \A j \in Nat \ {0} : Append(f, <<name, j>>) \in doc
          <=> j <= hes_query_count(Append(PathOf(f), <<name, EachOf>>))
    BY <1>3, ChildCount
  <2>2. hes_query_count(Append(PathOf(f), <<name, EachOf>>)) \in Nat
    BY <1>3, ChildCount
  <2>3. m = hes_query_count(Append(PathOf(f), <<name, EachOf>>))
    BY <1>1
  <2>4. Append(f, <<name, n>>) \in doc
    BY <1>4, <1>6
  <2> HIDE DEF n, f
  <2>5. n \in Nat \ {0}
    BY <1>4 DEF n
  <2> QED
    BY <2>1, <2>2, <2>3, <2>4, <2>5
<1>8. Append(t.path, <<name, n - 1>>) = PathOf(SubSeq(e, 1, k + 1))
  <2>1. PathOf(Append(f, x)) = Append(PathOf(f), <<x[1], x[2] - 1>>)
    BY <1>3, <1>4, <1>6, PathOfChild
  <2> QED
    BY <1>1, <1>5, <2>1
<1>9. Covers(Item(Append(t.path, <<name, n - 1>>)), e)
  <2> DEFINE it == Item(Append(t.path, <<name, n - 1>>))
  <2>1. it.what = "item" /\ it.path = Append(t.path, <<name, n - 1>>)
    BY DEF Item
  <2> HIDE DEF it, n, f, x
  <2>2. Covers(it, e)
    BY <1>2, <1>8, <2>1 DEF Covers
  <2> QED
    BY <2>2 DEF it
<1> HIDE DEF n
<1> QED
  BY <1>7, <1>9

LEMMA ProcessPath ==
  ASSUME IsTree(doc), OneProcess, NEW e \in doc, Len(e) > 1
  PROVE  2 \in 2 .. Len(e) /\ PathOf(SubSeq(e, 1, 2)) = Process
<1> DEFINE f == SubSeq(e, 1, 2)
<1>1. 2 \in 2 .. Len(e)
  BY ElementFacts
<1>2. f \in doc /\ Len(f) = 2 /\ f[1] = e[1] /\ f[2] = e[2]
  BY <1>1, CoverPrefix
<1>3. f[1][1] = "file" /\ f[2][1] = "overallProcess"
  BY <1>2 DEF OneProcess
<1> HIDE DEF f
<1>4. PathOf(f) = [i \in 1 .. 2 |-> <<f[i][1], EachOf>>]
  BY <1>2 DEF PathOf
<1>5. PathOf(f) = << <<f[1][1], EachOf>>, <<f[2][1], EachOf>> >>
  BY <1>4
<1> QED
  BY <1>1, <1>3, <1>5 DEF Process, f

LEMMA TreeWhenLoading == DocInv /\ dpc = "load" => IsTree(doc) /\ doc \in Documents
BY DocumentAssumption DEF DocInv

LEMMA ReadStart ==
  ASSUME DocInv, Known(doc), hes_gateway_load, IsTree(doc)
  PROVE  ReadInv'
<1>1. /\ dpc' = "load" /\ heap' = {} /\ doc' = doc
      /\ work' = IF hes_query_count(Process) > 0 THEN <<Item(Process)>> ELSE <<>>
  BY DEF hes_gateway_load, DocInv
<1>2. hes_query_count(Process)' = hes_query_count(Process)
  BY <1>1 DEF hes_query_count, _eval
<1> SUFFICES ASSUME hes_query_count(Process) = 1
             PROVE  /\ \A t : Tasked(work', t) => t.what \in {"item", "list"} /\ Real(t.path)
                    /\ \A e \in doc : Len(e) > 1 => \E t : Tasked(work', t) /\ Covers(t, e)
  BY <1>1, <1>2 DEF ReadInv, Reading, Real
<1> DEFINE t0 == Item(Process)
<1>3. OneProcess /\ \E x \in doc : Len(x) > 1
  BY ProcessFound
<1>4. t0.what = "item" /\ t0.path = Process
  BY DEF Item
<1>5. work' = <<t0>>
  BY <1>1
<1> HIDE DEF t0
<1>6. Len(<<t0>>) = 1 /\ <<t0>>[1] = t0
  OBVIOUS
<1>7. \A t : Tasked(work', t) <=> t = t0
  BY <1>5, <1>6 DEF Tasked
<1>8. Real(Process)
  <2>1. PICK x \in doc : Len(x) > 1
    BY <1>3
  <2>2. 2 \in 2 .. Len(x) /\ PathOf(SubSeq(x, 1, 2)) = Process
    BY <1>3, <2>1, ProcessPath
  <2>3. SubSeq(x, 1, 2) \in doc /\ Len(SubSeq(x, 1, 2)) = 2
    BY <2>1, <2>2, CoverPrefix
  <2> DEFINE y == SubSeq(x, 1, 2)
  <2>4. y \in doc /\ Len(y) > 1 /\ Process = PathOf(y)
    BY <2>2, <2>3
  <2> HIDE DEF y
  <2> QED
    BY <2>4 DEF Real
<1>9. \A e \in doc : Len(e) > 1 => Covers(t0, e)
  BY <1>3, <1>4, ProcessPath DEF Covers
<1> QED
  BY <1>4, <1>7, <1>8, <1>9

LEMMA ReadItem ==
  ASSUME DocInv, Known(doc), ReadInv, LoadItem
  PROVE  ReadInv'
<1> DEFINE t0 == Head(work)
           node == t0.path
           names == Lists(Kind(node))
           f == [i \in 1 .. Len(names) |-> ListOf(node, names[i])]
<1>1. /\ dpc = "load" /\ dpc' = "load" /\ work # <<>> /\ t0.what = "item" /\ heap' = heap \cup {node}
      /\ work' = f \o Tail(work) /\ UNCHANGED <<doc, starved>>
  BY DEF LoadItem
<1>2. IsTree(doc)
  BY <1>1, TreeWhenLoading
<1>3. hes_query_count(Process)' = hes_query_count(Process)
  BY <1>1 DEF hes_query_count, _eval
<1>4. Stack(work) /\ Len(names) \in Nat
  BY <1>1, ListsFreed DEF DocInv
<1>5. f = [i \in 1 .. Len(names) |-> f[i]] /\ \A i \in 1 .. Len(names) : f[i] = ListOf(node, names[i])
  OBVIOUS
<1>6. \A i \in 1 .. Len(names) : f[i].what = "list" /\ f[i].path = node
  BY DEF ListOf
<1> HIDE DEF f
<1>7. /\ \A t : Tasked(work, t) => t = t0 \/ Tasked(work', t)
      /\ \A i \in 1 .. Len(names) : Tasked(work', f[i])
      /\ \A t : Tasked(work', t) => Tasked(work, t) \/ \E i \in 1 .. Len(names) : t = f[i]
      /\ Tasked(work, t0)
  <2> DEFINE n == Len(names)
             u == f \o Tail(work)
  <2>1. n \in Nat /\ f = [i \in 1 .. n |-> f[i]]
    BY <1>4, <1>5
  <2> HIDE DEF n
  <2>2. /\ \A t : Tasked(work, t) => t = Head(work) \/ Tasked(u, t)
        /\ \A i \in 1 .. n : Tasked(u, f[i])
        /\ \A t : Tasked(u, t) => Tasked(work, t) \/ \E i \in 1 .. n : t = f[i]
        /\ Tasked(work, Head(work))
    BY <1>1, <1>4, <2>1, TaskedPush
  <2>3. work' = u
    BY <1>1
  <2> HIDE DEF u
  <2> QED
    BY <2>2, <2>3 DEF n
<1> HIDE DEF t0
<1> SUFFICES ASSUME Reading
             PROVE  /\ \A p \in heap' : Real(p)
                    /\ \A t : Tasked(work', t) => t.what \in {"item", "list"} /\ Real(t.path)
                    /\ \A e \in doc : Len(e) > 1 =>
                         PathOf(e) \in heap' \/ \E t : Tasked(work', t) /\ Covers(t, e)
  BY <1>1, <1>3 DEF ReadInv, Reading, Real
<1>8. /\ \A p \in heap : Real(p)
      /\ \A t : Tasked(work, t) => t.what \in {"item", "list"} /\ Real(t.path)
      /\ \A e \in doc : Len(e) > 1 => PathOf(e) \in heap \/ \E t : Tasked(work, t) /\ Covers(t, e)
  BY DEF ReadInv
<1>9. Real(node)
  BY <1>7, <1>8
<1>10. ASSUME NEW e \in doc, Len(e) > 1
       PROVE  PathOf(e) \in heap' \/ \E t : Tasked(work', t) /\ Covers(t, e)
  <2>1. CASE PathOf(e) \in heap
    BY <1>1, <2>1
  <2>2. CASE Covers(t0, e)
    <3>1. \/ PathOf(e) = node
          \/ \E i \in 1 .. Len(names) : Covers(ListOf(node, names[i]), e)
      BY <1>1, <1>2, <1>10, <2>2, ItemCovers
    <3> HIDE DEF node, names
    <3> QED
      BY <1>1, <1>5, <1>7, <3>1
  <2>3. CASE \E t : Tasked(work, t) /\ t # t0 /\ Covers(t, e)
    BY <1>7, <2>3
  <2> QED
    BY <1>8, <1>10, <2>1, <2>2, <2>3
<1> HIDE DEF node, names
<1>11. \A t : Tasked(work', t) => t.what \in {"item", "list"} /\ Real(t.path)
  BY <1>6, <1>7, <1>8, <1>9
<1> QED
  BY <1>1, <1>8, <1>9, <1>10, <1>11

LEMMA ReadList ==
  ASSUME DocInv, Known(doc), ReadInv, LoadList
  PROVE  ReadInv'
<1> DEFINE t0 == Head(work)
           node == t0.path
           name == t0.list
           m == ListCount
           f == [i \in 1 .. m |-> Item(Append(node, <<name, i - 1>>))]
<1>1. /\ dpc = "load" /\ dpc' = "load" /\ work # <<>> /\ t0.what = "list" /\ heap' = heap
      /\ work' = f \o Tail(work) /\ UNCHANGED <<doc, starved>>
  BY DEF LoadList, AtList
<1>2. IsTree(doc) /\ doc # NoTree
  BY <1>1, TreeWhenLoading DEF DocInv
<1>3. hes_query_count(Process)' = hes_query_count(Process)
  BY <1>1 DEF hes_query_count, _eval
<1>4. Stack(work) /\ m \in Nat /\ m = hes_query_count(Append(node, <<name, EachOf>>))
  BY <1>1, <1>2, CountIsNat DEF DocInv, ListCount
<1>5. f = [i \in 1 .. m |-> f[i]] /\ \A i \in 1 .. m : f[i] = Item(Append(node, <<name, i - 1>>))
  OBVIOUS
<1>6. \A i \in 1 .. m : f[i].what = "item" /\ f[i].path = Append(node, <<name, i - 1>>)
  BY DEF Item
<1> HIDE DEF f, m
<1>7. /\ \A t : Tasked(work, t) => t = t0 \/ Tasked(work', t)
      /\ \A i \in 1 .. m : Tasked(work', f[i])
      /\ \A t : Tasked(work', t) => Tasked(work, t) \/ \E i \in 1 .. m : t = f[i]
      /\ Tasked(work, t0)
  <2> DEFINE n == m
             u == f \o Tail(work)
  <2>1. n \in Nat /\ f = [i \in 1 .. n |-> f[i]]
    BY <1>4, <1>5
  <2> HIDE DEF n
  <2>2. /\ \A t : Tasked(work, t) => t = Head(work) \/ Tasked(u, t)
        /\ \A i \in 1 .. n : Tasked(u, f[i])
        /\ \A t : Tasked(u, t) => Tasked(work, t) \/ \E i \in 1 .. n : t = f[i]
        /\ Tasked(work, Head(work))
    BY <1>1, <1>4, <2>1, TaskedPush
  <2>3. work' = u
    BY <1>1
  <2> HIDE DEF u
  <2> QED
    BY <2>2, <2>3 DEF n
<1> HIDE DEF t0
<1> SUFFICES ASSUME Reading
             PROVE  /\ \A p \in heap' : Real(p)
                    /\ \A t : Tasked(work', t) => t.what \in {"item", "list"} /\ Real(t.path)
                    /\ \A e \in doc : Len(e) > 1 =>
                         PathOf(e) \in heap' \/ \E t : Tasked(work', t) /\ Covers(t, e)
  BY <1>1, <1>3 DEF ReadInv, Reading, Real
<1>8. /\ \A p \in heap : Real(p)
      /\ \A t : Tasked(work, t) => t.what \in {"item", "list"} /\ Real(t.path)
      /\ \A e \in doc : Len(e) > 1 => PathOf(e) \in heap \/ \E t : Tasked(work, t) /\ Covers(t, e)
  BY DEF ReadInv
<1>9. OneProcess
  BY <1>2, ProcessFound DEF Reading
<1>10. PICK e0 \in doc : Len(e0) > 1 /\ node = PathOf(e0)
  BY <1>7, <1>8 DEF Real
<1>11. ASSUME NEW i \in 1 .. m PROVE Real(f[i].path)
  <2>1. i \in Nat \ {0} /\ i <= m
    BY <1>4
  <2>2. Append(e0, <<name, i>>) \in doc
    <3>1. m = hes_query_count(Append(PathOf(e0), <<name, EachOf>>))
      BY <1>4, <1>10
    <3> HIDE DEF node, name
    <3> QED
      BY <1>2, <1>9, <1>10, <2>1, <3>1, ChildCount
  <2> DEFINE x == <<name, i>>
             g == Append(e0, x)
  <2>3. e0 \in Seq(PathStep) /\ Len(e0) \in Nat
    BY <1>2, ElementFacts
  <2>4. x[1] = name /\ x[2] = i
    OBVIOUS
  <2>5. Len(g) = Len(e0) + 1 /\ g[Len(e0) + 1] = x
    <3> HIDE DEF x
    <3>1. e0 \in Seq(PathStep \cup {x}) /\ x \in PathStep \cup {x}
      BY <2>3, EveryStepIn
    <3> QED
      BY <3>1, AppendFacts
  <2>6. g \in doc
    BY <2>2
  <2> HIDE DEF g, x
  <2>7. x \in PathStep
    <3>1. Len(e0) + 1 \in 1 .. Len(g)
      BY <2>3, <2>5
    <3> QED
      BY <1>2, <2>5, <2>6, <3>1, ElementFacts
  <2>8. PathOf(g) = Append(PathOf(e0), <<x[1], x[2] - 1>>)
    BY <1>2, <1>10, <2>6, <2>7, PathOfChild DEF g
  <2>9. f[i].path = PathOf(g)
    BY <1>6, <1>10, <2>4, <2>8
  <2> QED
    BY <1>10, <2>3, <2>5, <2>6, <2>9 DEF Real
<1>12. ASSUME NEW e \in doc, Len(e) > 1
       PROVE  PathOf(e) \in heap' \/ \E t : Tasked(work', t) /\ Covers(t, e)
  <2>1. CASE PathOf(e) \in heap
    BY <1>1, <2>1
  <2>2. CASE Covers(t0, e)
    <3>1. \E i \in 1 .. m : Covers(Item(Append(node, <<name, i - 1>>)), e)
      BY <1>1, <1>2, <1>4, <1>9, <1>12, <2>2, ListCovers
    <3> HIDE DEF node, name
    <3> QED
      BY <1>5, <1>7, <3>1
  <2>3. CASE \E t : Tasked(work, t) /\ t # t0 /\ Covers(t, e)
    BY <1>7, <2>3
  <2> QED
    BY <1>8, <1>12, <2>1, <2>2, <2>3
<1> HIDE DEF node, name
<1>13. \A t : Tasked(work', t) => t.what \in {"item", "list"} /\ Real(t.path)
  BY <1>6, <1>7, <1>8, <1>11
<1> QED
  BY <1>1, <1>8, <1>12, <1>13

LEMMA CopyInit == ASSUME NEW d, DocStart(d) PROVE ReadInv
BY DEF DocStart, ReadInv, Reading

LEMMA CopyStep == DocInv /\ ReadInv /\ (doc # NoTree => Known(doc)) /\ [DocNext]_docvars => ReadInv'
<1> SUFFICES ASSUME DocInv, ReadInv, doc # NoTree => Known(doc), [DocNext]_docvars
             PROVE  ReadInv'
  OBVIOUS
<1>1. CASE hes_query_open_fails
  <2>1. dpc' = "done"
    BY <1>1 DEF hes_query_open_fails
  <2> QED
    BY <2>1 DEF ReadInv, Reading
<1>2. CASE hes_gateway_load
  <2>1. doc # NoTree
    BY <1>2 DEF hes_gateway_load
  <2>2. IsTree(doc)
    BY <2>1, DocumentAssumption DEF DocInv
  <2> QED
    BY <1>2, <2>1, <2>2, ReadStart
<1>3. CASE LoadItem
  <2>1. Known(doc)
    BY <1>3 DEF LoadItem, DocInv
  <2> QED
    BY <1>3, <2>1, ReadItem
<1>4. CASE LoadList
  <2>1. Known(doc)
    BY <1>4 DEF LoadList, AtList, DocInv
  <2> QED
    BY <1>4, <2>1, ReadList
<1>5. CASE LoadItemFails \/ _handle_list \/ ArrayMissing
  <2>1. dpc' # "show" /\ starved'
    BY <1>5 DEF LoadItemFails, _handle_list, ArrayMissing, AtList
  <2> QED
    BY <2>1 DEF ReadInv, Reading
<1>6. CASE hes_query_close
  <2>1. /\ dpc = "load" /\ dpc' = "show" /\ work = <<>> /\ doc # NoTree
        /\ UNCHANGED <<doc, work, heap, starved>>
    BY <1>6 DEF hes_query_close, DocInv
  <2>2. hes_query_count(Process)' = hes_query_count(Process)
    BY <2>1 DEF hes_query_count, _eval
  <2> QED
    BY <2>1, <2>2 DEF ReadInv, Reading, Real
<1>7. CASE Show \/ hes_gateway_free
  <2>1. dpc' \notin {"load", "show"}
    BY <1>7 DEF Show, hes_gateway_free
  <2> QED
    BY <2>1 DEF ReadInv, Reading
<1>8. CASE UNCHANGED docvars
  <2>1. UNCHANGED <<dpc, doc, work, heap, starved>>
    BY <1>8 DEF docvars
  <2>2. hes_query_count(Process)' = hes_query_count(Process)
    BY <2>1 DEF hes_query_count, _eval
  <2> QED
    BY <2>1, <2>2 DEF ReadInv, Reading, Real
<1> QED
  BY <1>1, <1>2, <1>3, <1>4, <1>5, <1>6, <1>7, <1>8 DEF DocNext

LEMMA CopyIsFaithful ==
  ASSUME DocInv, ReadInv, doc # NoTree => Known(doc)
  PROVE  FaithfulCopy
<1> SUFFICES ASSUME dpc = "show", ~starved, hes_query_count(Process) = 1
             PROVE  /\ \A p \in heap : Cardinality(_eval(p)) = 1
                    /\ UNION {_eval(p) : p \in heap} = {e \in doc : Len(e) > 1}
  BY DEF FaithfulCopy
<1>1. Reading /\ work = <<>> /\ doc # NoTree
  BY DEF Reading, ReadInv
<1>2. IsTree(doc) /\ Known(doc)
  BY <1>1, DocumentAssumption DEF DocInv
<1>3. OneProcess
  BY <1>2, ProcessFound
<1>4. \A t : ~Tasked(work, t)
  BY <1>1 DEF Tasked
<1>5. \A p \in heap : \E e \in doc : Len(e) > 1 /\ p = PathOf(e)
  BY <1>1 DEF ReadInv, Real
<1>6. \A e \in doc : Len(e) > 1 => PathOf(e) \in heap
  BY <1>1, <1>4 DEF ReadInv
<1>7. \A e \in doc : Len(e) > 1 => _eval(PathOf(e)) = {e}
  BY <1>2, <1>3, PathSelects
<1>8. \A p \in heap : Cardinality(_eval(p)) = 1
  <2> TAKE p \in heap
  <2>1. PICK e : _eval(p) = {e}
    BY <1>5, <1>7
  <2> QED
    BY <2>1, FS_Singleton
<1>9. \A x : x \in UNION {_eval(p) : p \in heap} <=> x \in doc /\ Len(x) > 1
  <2>1. \A x : x \in UNION {_eval(p) : p \in heap} <=> \E p \in heap : x \in _eval(p)
    OBVIOUS
  <2> QED
    BY <1>5, <1>6, <1>7, <2>1
<1> QED
  BY <1>8, <1>9

-----------------------------------------------------------------------------
(* The executable *)

AppInv == BleInv /\ GwInv /\ DocInv

LEMMA AppInitInv == AppInit => AppInv
<1> SUFFICES ASSUME AppInit PROVE AppInv
  OBVIOUS
<1>1. PICK w \in Worlds(argv) : BleStart(w.bus, w.tags) /\ Powered(w.l) /\ DocStart(w.d)
  BY DEF AppInit
<1>2. /\ w.bus \in BOOLEAN /\ w.tags \in [Dev -> BOOLEAN] /\ w.l \in Launches
      /\ w.d \in Documents \cup {NoTree}
  <2> DEFINE c == Leaf(argv)
             B == IF c = "han ble" THEN BOOLEAN ELSE {FALSE}
             K == IF c = "han ble" THEN [Dev -> BOOLEAN] ELSE {All(FALSE)}
             L == IF c = "sm core" THEN Launches ELSE {CHOOSE l \in Launches : TRUE}
             D == IF c = "bm show" THEN Documents ELSE {NoTree}
  <2>1. w \in [bus : B, tags : K, l : L, d : D]
    BY DEF Worlds
  <2>2. All(FALSE) \in [Dev -> BOOLEAN]
    BY DEF All
  <2>3. (CHOOSE l \in Launches : TRUE) \in Launches
    BY AppAssumption
  <2>4. B \subseteq BOOLEAN
    OBVIOUS
  <2>5. K \subseteq [Dev -> BOOLEAN] /\ L \subseteq Launches /\ D \subseteq Documents \cup {NoTree}
    BY <2>2, <2>3
  <2> HIDE DEF B, K, L, D
  <2>6. w.bus \in B /\ w.tags \in K /\ w.l \in L /\ w.d \in D
    BY <2>1
  <2> QED
    BY <2>4, <2>5, <2>6
<1> QED
  BY <1>1, <1>2, BleStartInv, GwInit, DocInit DEF AppInv

LEMMA AppSteps ==
  ASSUME [AppNext]_appvars PROVE [BleNext]_blevars /\ [GwNext]_gwvars /\ [DocNext]_docvars
BY DEF AppNext, appvars, main, cmd_han_ble, cmd_sm_core, cmd_bm_show, Exit, Over

LEMMA AppInvariance == AppSpec => []AppInv
<1>1. AppInv /\ [AppNext]_appvars => AppInv'
  <2> SUFFICES ASSUME AppInv, [AppNext]_appvars PROVE AppInv'
    OBVIOUS
  <2> QED
    BY AppSteps, BleInvStep, GwInvStep, DocInvStep DEF AppInv
<1> QED
  BY <1>1, AppInitInv, PTL DEF AppSpec

-----------------------------------------------------------------------------
(* The core module *)

(* Every variable keeps its type, the policy table never outgrows its      *)
(* array, and at no time do two services hold the identity key.            *)
THEOREM GatewayTypeCorrect == AppSpec => []GwTypeOK
<1>1. AppInv => GwTypeOK
  BY GwInvTypes DEF AppInv
<1> QED
  BY <1>1, AppInvariance, PTL

(* The decision on a message and the start-up propagation take the same    *)
(* walk through the policy: for every document, where one class alone has  *)
(* a say about a row they agree.                                           *)
THEOREM SameWalk == AppSpec => []WalksAgree
<1>1. AppInv => WalksAgree
  BY GwInvWalks DEF AppInv
<1> QED
  BY <1>1, AppInvariance, PTL

(* No message is let through to an address for which a well-formed         *)
(* document demands a proof without one by a named identity made for that  *)
(* message, whatever tables, tokens and proofs there are.                  *)
THEOREM ProofDemanded == AppSpec => []ProofAsDeclared
<1>1. AppInv => ProofAsDeclared
  BY GwInvDeclared DEF AppInv
<1> QED
  BY <1>1, AppInvariance, PTL

(* In every group, the signature that answers a challenge verifies under   *)
(* the even point of the served 'pi'.                                      *)
THEOREM ChallengeVerifies == AppSpec => []ProofVerifies
<1>1. AppInv => ProofVerifies
  BY GwInvVerifies DEF AppInv
<1> QED
  BY <1>1, AppInvariance, PTL

(* However often the gateway restarts, it publishes one 'pi', unless PSA   *)
(* fails for a reason of its own and the document does not pin it.         *)
THEOREM PiIsStationary == AppSpec => []PiStationary
<1>1. AppInv => PiStationary
  BY GwInvStationary DEF AppInv
<1> QED
  BY <1>1, AppInvariance, PTL

(* A datum named in the address and one named in the query get the same    *)
(* answer, from the same object, for every address.                        *)
THEOREM FormsAlike == AppSpec => []TwoFormsAgree
<1>1. AppInv => TwoFormsAgree
  BY GwInvForms DEF AppInv
<1> QED
  BY <1>1, AppInvariance, PTL

-----------------------------------------------------------------------------
(* `bm show` *)

(* The deep free gives back every struct of every document, whichever      *)
(* allocations failed while it was loaded.                                 *)
THEOREM NothingLeaks == AppSpec => []AllFreed
<1>1. AppInv => AllFreed
  BY DEF AppInv, DocInv, AllFreed
<1> QED
  BY <1>1, AppInvariance, PTL

(* With memory to spare, `bm show` holds each element of the process       *)
(* exactly once, and nothing else, for every document whose elements the   *)
(* loaders know.                                                           *)
THEOREM WholeDocument ==
  ASSUME \A d \in Documents : d = NoTree \/ Known(d)
  PROVE  AppSpec => []FaithfulCopy
<1>1. AppInv => DocInv /\ (doc # NoTree => Known(doc))
  BY DEF AppInv, DocInv
<1>2. AppInit => ReadInv
  <2> SUFFICES ASSUME AppInit PROVE ReadInv
    OBVIOUS
  <2>1. \E d : DocStart(d)
    BY DEF AppInit
  <2> QED
    BY <2>1, CopyInit
<1>3. AppInv /\ ReadInv /\ [AppNext]_appvars => ReadInv'
  <2> SUFFICES ASSUME AppInv, ReadInv, [AppNext]_appvars PROVE ReadInv'
    OBVIOUS
  <2>1. [DocNext]_docvars
    BY AppSteps
  <2> QED
    BY <1>1, <2>1, CopyStep
<1>4. AppInv /\ ReadInv => FaithfulCopy
  BY <1>1, CopyIsFaithful
<1> QED
  BY <1>2, <1>3, <1>4, AppInvariance, PTL DEF AppSpec

-----------------------------------------------------------------------------
(* The BLE interface module: what BluezManagerProofs shows of the manager  *)
(* holds of the process it runs in.                                        *)

(* The manager's variables keep their types inside the executable, and no  *)
(* served button value outlives its link.                                  *)
THEOREM BleInProcess == AppSpec => [](BleTypeOK /\ ButtonOfThisLink /\ ScanEndsWhenFound)
<1>1. AppInv => BleTypeOK /\ ButtonOfThisLink /\ ScanEndsWhenFound
  BY DEF AppInv, BleInv, Subscribed, ButtonOfThisLink
<1> QED
  BY <1>1, AppInvariance, PTL

(* The executable, whatever its command, implements the contract of the    *)
(* link events.                                                            *)
THEOREM ContractInProcess == AppSpec => KeepsContract
<1>1. AppInit => Contract!Init
  BY ContractInit DEF AppInit
<1>2. AppInv /\ [AppNext]_appvars => [Contract!Next]_<<[i \in Dev |-> link[i] = "online"], events>>
  BY AppSteps, ContractStep DEF AppInv
<1> QED
  BY <1>1, <1>2, AppInvariance, PTL DEF AppSpec, KeepsContract, Contract!Spec

(* Inside the executable, too, a poll comes round to every device and a    *)
(* device's pause is its own.                                              *)
THEOREM PassesInProcess == AppSpec => PassProgress
<1>1. AppInv /\ [AppNext]_appvars => BleInv /\ [BleNext]_blevars
  BY AppSteps DEF AppInv
<1> QED
  BY <1>1, PassAdvance, AppInvariance, PTL DEF AppSpec, PassProgress
===============================================================================
