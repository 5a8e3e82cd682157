------------------------------ MODULE DocumentTree ------------------------------
(***************************************************************************)
(* `ohmg bm show <file>`: the query helper (src/common/hes_query.c), the   *)
(* loader and the deep free of the native structs                          *)
(* (src/common/hes_gateway.c), and the command that prints them            *)
(* (src/cli/cmd_bm_show.c).  One allocation after the other may fail.      *)
(*                                                                         *)
(* A document is the set of its elements; an element is its path from the  *)
(* root, each step <<name, n>>: the n-th child of that name.  A query      *)
(* step is <<name, index>>, counted from 0, or <<name, EachOf>>.  A loaded *)
(* struct is known by the query path it was read from.  Strings are        *)
(* copied, so a struct stands for its strings as well.                     *)
(***************************************************************************)
EXTENDS FiniteSets, Selections

CONSTANTS
  Documents,   \* what the file may hold: a set of elements, or NoTree
  NoTree,      \* no file, no XML, or no root element
  EachOf       \* a query step without an index

(* The tree of an XML document, as libxml2 parses it: finitely many        *)
(* elements under one root, each with its ancestors and with the elder     *)
(* siblings of its name.                                                   *)
IsTree(d) ==
  /\ IsFiniteSet(d)
  /\ \A e \in d : /\ e \in Seq(STRING \X (Nat \ {0})) /\ e # <<>> /\ e[1][2] = 1
                 /\ \A f \in d : e[1] = f[1]
                 /\ \A k \in 1 .. Len(e) : /\ SubSeq(e, 1, k) \in d
                                          /\ \A n \in 1 .. e[k][2] :
                                               Append(SubSeq(e, 1, k - 1), <<e[k][1], n>>) \in d

ASSUME DocumentAssumption ==
  /\ \A d \in Documents : d = NoTree \/ IsTree(d)
  /\ EachOf \notin Nat

VARIABLES
  dpc,      \* where the command is
  doc,      \* the file's content
  work,     \* the loader's stack: lists and items still to read
  heap,     \* structs allocated and not freed
  held,     \* structs some parent's array or pointer holds
  starved   \* an allocation failed

docvars == <<dpc, doc, work, heap, held, starved>>

DocStart(d) ==
  /\ dpc = "open" /\ doc = d /\ work = <<>>
  /\ heap = {} /\ held = {} /\ starved = FALSE

-----------------------------------------------------------------------------
(* hes_query.c *)

(* _translate_path(): XPath counts from 1. *)
translate_from_0(path) == path     \* mutant: the index is passed on
_translate_path(path) ==
  [i \in 1 .. Len(path) |->
     <<path[i][1], IF path[i][2] = EachOf THEN EachOf ELSE path[i][2] + 1>>]

(* _eval(): the elements a path selects.  xmlXPathEvalExpression() is      *)
(* external.                                                               *)
_eval(path) ==
  LET xp == _translate_path(path)
  IN  {e \in doc : Len(e) = Len(xp) /\ \A i \in 1 .. Len(xp) :
         e[i][1] = xp[i][1] /\ (xp[i][2] = EachOf \/ xp[i][2] = e[i][2])}

hes_query_count(path) == Cardinality(_eval(path))

-----------------------------------------------------------------------------
(* hes_gateway.c *)

Process == << <<"file", EachOf>>, <<"overallProcess", EachOf>> >>
Kind(path) == path[Len(path)][1]

(* The lists each loader reads, in its order. *)
Lists(kind) ==
  CASE kind = "overallProcess" -> <<"lexiconType">>
    [] kind = "lexiconType" -> <<"objectType">>
    [] kind = "objectType" -> <<"data", "operationTable", "addressingTable">>
    [] kind = "operationTable" ->
         <<"data", "inputs", "inputParameters", "outputParameters", "outputs">>
    [] kind = "data" -> <<>>
    [] OTHER -> <<"data">>

(* The lists each deep free goes through. *)
Frees_but_outputs(kind) ==          \* mutant: one group is forgotten
  CASE kind = "overallProcess" -> {"lexiconType"}
    [] kind = "lexiconType" -> {"objectType"}
    [] kind = "objectType" -> {"data", "operationTable", "addressingTable"}
    [] kind = "operationTable" -> {"data", "inputs", "inputParameters", "outputParameters"}
    [] kind = "data" -> {}
    [] OTHER -> {"data"}
Frees(kind) ==
  CASE kind = "overallProcess" -> {"lexiconType"}
    [] kind = "lexiconType" -> {"objectType"}
    [] kind = "objectType" -> {"data", "operationTable", "addressingTable"}
    [] kind = "operationTable" ->
         {"data", "inputs", "inputParameters", "outputParameters", "outputs"}
    [] kind = "data" -> {}
    [] OTHER -> {"data"}

Item(path) == [what |-> "item", path |-> path, list |-> Empty]
ListOf(path, name) == [what |-> "list", path |-> path, list |-> name]

(* hes_query_open(), hes_gateway_load() *)
hes_query_open_fails ==
  /\ dpc = "open"
  /\ starved' = (doc # NoTree)
  /\ dpc' = "done"
  /\ UNCHANGED <<doc, work, heap, held>>

hes_gateway_load ==
  /\ dpc = "open" /\ doc # NoTree
  /\ work' = IF hes_query_count(Process) > 0 THEN <<Item(Process)>> ELSE <<>>
  /\ dpc' = "load"
  /\ UNCHANGED <<doc, heap, held, starved>>

(* _load_*(): the struct, then its lists. *)
LoadItem ==
  /\ dpc = "load" /\ work # <<>> /\ Head(work).what = "item"
  /\ LET path == Head(work).path
         names == Lists(Kind(path))
     IN  /\ heap' = heap \cup {path} /\ held' = held \cup {path}
         /\ work' = [i \in 1 .. Len(names) |-> ListOf(path, names[i])] \o Tail(work)
  /\ UNCHANGED <<dpc, doc, starved>>

(* calloc() fails: the list ends before this item. *)
Siblings(p, q) ==
  Len(p) = Len(q) /\ SubSeq(p, 1, Len(p) - 1) = SubSeq(q, 1, Len(q) - 1) /\ Kind(p) = Kind(q)
LoadItemFails ==
  /\ dpc = "load" /\ work # <<>> /\ Head(work).what = "item"
  /\ work' = Where(Tail(work), LAMBDA t : ~(t.what = "item" /\ Siblings(t.path, Head(work).path)))
  /\ starved' = TRUE
  /\ UNCHANGED <<dpc, doc, heap, held>>

(* HES_GW_LOAD_LIST: as many items as the query counts. *)
AtList == dpc = "load" /\ work # <<>> /\ Head(work).what = "list"
ListCount == hes_query_count(Append(Head(work).path, <<Head(work).list, EachOf>>))

LoadList ==
  /\ AtList
  /\ work' = [i \in 1 .. ListCount |-> Item(Append(Head(work).path, <<Head(work).list, i - 1>>))] \o Tail(work)
  /\ UNCHANGED <<dpc, doc, heap, held, starved>>

(* _handle_list(): its handles cannot be allocated, and the list counts    *)
(* as empty.                                                               *)
_handle_list ==
  /\ AtList /\ ListCount > 0
  /\ work' = Tail(work) /\ starved' = TRUE
  /\ UNCHANGED <<dpc, doc, heap, held>>

(* calloc() of the array itself is not checked. *)
ArrayMissing ==
  /\ AtList /\ ListCount > 0
  /\ dpc' = "crashed" /\ starved' = TRUE
  /\ UNCHANGED <<doc, work, heap, held>>

hes_query_close ==
  /\ dpc = "load" /\ work = <<>>
  /\ dpc' = "show"
  /\ UNCHANGED <<doc, work, heap, held, starved>>

(* test_hes_gateway_api(): the process is read before it is checked. *)
Show ==
  /\ dpc = "show"
  /\ dpc' = IF Process \in held THEN "free" ELSE "crashed"
  /\ UNCHANGED <<doc, work, heap, held, starved>>

(* hes_gateway_free(): what can be reached through the lists. *)
Reached(p) ==
  p \in held /\ \A i \in 3 .. Len(p) : p[i][1] \in Frees(p[i - 1][1])

hes_gateway_free ==
  /\ dpc = "free"
  /\ heap' = {p \in heap : ~Reached(p)}
  /\ held' = {} /\ dpc' = "done"
  /\ UNCHANGED <<doc, work, starved>>

DocNext ==
  \/ hes_query_open_fails \/ hes_gateway_load
  \/ LoadItem \/ LoadItemFails \/ LoadList \/ _handle_list \/ ArrayMissing
  \/ hes_query_close \/ Show \/ hes_gateway_free

-----------------------------------------------------------------------------
(* Properties *)

(* However the load went, and whichever allocations failed on the way, the *)
(* deep free gives back every struct the loaders made.                     *)
AllFreed == dpc = "done" => heap = {}

(* When memory suffices, every element of the process tree is read exactly *)
(* once and no struct stands for an element that is not there (in a        *)
(* document with a single overallProcess, as the format has it).           *)
FaithfulCopy ==
  (dpc = "show" /\ ~starved /\ hes_query_count(Process) = 1) =>
    /\ \A p \in heap : Cardinality(_eval(p)) = 1
    /\ UNION {_eval(p) : p \in heap} = {e \in doc : Len(e) > 1}
=================================================================================
