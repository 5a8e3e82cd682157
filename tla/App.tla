----------------------------------- MODULE App -----------------------------------
(***************************************************************************)
(* The ohmg executable (src/app.c, src/cli/): one binary whose command     *)
(* line chooses what the process is.  Modelled here are the choice and the *)
(* three commands whose processes the modules below describe: the core     *)
(* service module, the BLE interface module with its BlueZ manager, and    *)
(* `bm show`.  A process runs one of them; the others' variables rest.     *)
(***************************************************************************)
EXTENDS BluezManager, Gateway, DocumentTree

CONSTANT Argvs   \* command lines: sequences of words after the program name

ASSUME AppAssumption == Launches # {}   \* the core service module can be started somehow

VARIABLES
  argv,     \* the command line
  process   \* start, one of the commands, or exit

appvars == <<argv, process, blevars, gwvars, docvars>>

-----------------------------------------------------------------------------
(* main() *)

CommandNames == {"help", "bm", "sm", "han", "info", "dm"}
Flags == {"-v", "-q", "--json"}

(* arg_cmd_find_subcmd_index(): the first word that is a command's name,   *)
(* even where it is the value of an option.                                *)
SubcommandAt(words) ==
  LET hits == {i \in 1 .. Len(words) : words[i] \in CommandNames}
  IN  IF hits = {} THEN 0 ELSE CHOOSE i \in hits : \A j \in hits : i <= j

(* arg_parse() of the words before it.  External (argtable3). *)
GlobalOptionsParse(words) ==
  \A i \in 1 .. Len(words) :
    \/ words[i] \in Flags
    \/ words[i] = "--config" /\ i < Len(words)
    \/ i > 1 /\ words[i - 1] = "--config"

(* cmd_sm_proc(), cmd_han_proc(), cmd_bm_proc(): the second word names the *)
(* command.                                                                *)
Leaf(words) ==
  LET k == SubcommandAt(words)
  IN  IF k = 0 \/ ~GlobalOptionsParse(SubSeq(words, 1, k - 1)) \/ Len(words) = k
        THEN "exit"
      ELSE CASE SubSeq(words, k, k + 1) = <<"sm", "core">> -> "sm core"
             [] SubSeq(words, k, k + 1) = <<"han", "ble">> -> "han ble"
             [] SubSeq(words, k, k + 1) = <<"bm", "show">> /\ Len(words) > k + 1 -> "bm show"
             [] OTHER -> "exit"

main ==
  /\ process = "start"
  /\ process' = Leaf(argv)
  /\ UNCHANGED <<argv, blevars, gwvars, docvars>>

-----------------------------------------------------------------------------
(* The world in which the process starts: what matters to its command. *)
Worlds(words) ==
  LET c == Leaf(words) IN
  [bus  : IF c = "han ble" THEN BOOLEAN ELSE {FALSE},
   tags : IF c = "han ble" THEN [Dev -> BOOLEAN] ELSE {All(FALSE)},
   l    : IF c = "sm core" THEN Launches ELSE {CHOOSE l \in Launches : TRUE},
   d    : IF c = "bm show" THEN Documents ELSE {NoTree}]

AppInit ==
  /\ argv \in Argvs /\ process = "start"
  /\ \E w \in Worlds(argv) : BleStart(w.bus, w.tags) /\ Powered(w.l) /\ DocStart(w.d)

cmd_han_ble == process = "han ble" /\ BleNext /\ UNCHANGED <<argv, process, gwvars, docvars>>
cmd_sm_core == process = "sm core" /\ GwNext /\ UNCHANGED <<argv, process, blevars, docvars>>
cmd_bm_show == process = "bm show" /\ DocNext /\ UNCHANGED <<argv, process, blevars, gwvars>>

Finished ==
  \/ process = "han ble" /\ mpc = "closed"
  \/ process = "bm show" /\ dpc \in {"done", "crashed"}

Exit ==
  /\ Finished
  /\ process' = "exit"
  /\ UNCHANGED <<argv, blevars, gwvars, docvars>>

Over == process = "exit" /\ UNCHANGED appvars

AppNext == main \/ cmd_han_ble \/ cmd_sm_core \/ cmd_bm_show \/ Exit \/ Over

(* See BluezManager. *)
BleStep(A) == process = "han ble" /\ A /\ UNCHANGED <<argv, process, gwvars, docvars>>
AppFairness ==
  /\ WF_appvars(main)
  /\ WF_appvars(BleStep(Pass))
  /\ SF_appvars(BleStep(\E t \in 1 .. MaxPass : NextPass(t)))

AppSpec == AppInit /\ [][AppNext]_appvars /\ AppFairness
=================================================================================
