-------------------------------- MODULE Dispatch --------------------------------
(***************************************************************************)
(* The Lexicon router (src/common/hes_dispatch.c): which local object owns *)
(* an address, and how an answer is cut down to the data asked for.        *)
(*                                                                         *)
(* An address is a sequence of segments, a payload a sequence of records   *)
(* <<transCode, value>>; a payload that is one word is a record whose code *)
(* is the word.  A 'da' list is a set of transCodes.                       *)
(***************************************************************************)
EXTENDS FiniteSets, Selections

CONSTANTS
  NoList,     \* the request names no datum
  CommaLists  \* the segments that hold a comma: segment -> the transCodes it lists

(* HES_LX_*: the addresses core_main() registers, in the order it does. *)
Addresses == <<
  <<"lx", "ob", "so", "id">>,
  <<"lx", "ob", "so", "id", "co", "st", "cv">>,
  <<"lx", "ac", "so", "id", "dc", "bm", "cv">>,
  <<"lx", "ob", "so", "ti", "rt", "st", "cv">>,
  <<"lx", "ob", "so", "ti", "tz", "st", "cv">>,
  <<"lx", "ob", "so", "ti", "st", "mp", "cv">>,
  <<"lx", "ob", "so", "aa", "ac", "cv">>,
  <<"lx", "ob", "so", "cr">>,
  <<"lx", "ob", "so", "cr", "ci">> >>
Object == 1 .. Len(Addresses)
NoObject == 0

(* on_boundary(), single_segment(): the path is the object's address, or   *)
(* continues it by one segment.                                            *)
Owns(i, path) ==
  /\ Len(Addresses[i]) <= Len(path) /\ Len(path) <= Len(Addresses[i]) + 1
  /\ SubSeq(path, 1, Len(Addresses[i])) = Addresses[i]
  /\ path[Len(path)] # Empty

(* find_object(): the longest address wins. *)
(* Mutant: the first object that matches wins. *)
find_object_first(path) ==
  LET owners == {i \in Object : Owns(i, path)}
  IN  IF owners = {} THEN NoObject
      ELSE CHOOSE i \in owners : \A j \in owners : i <= j

find_object(path) ==
  LET owners == {i \in Object : Owns(i, path)}
  IN  IF owners = {} THEN NoObject
      ELSE CHOOSE i \in owners : \A j \in owners : Len(Addresses[j]) <= Len(Addresses[i])

(* requested() reads the last segment as it reads a 'da' list. *)
Named(segment) == IF segment \in DOMAIN CommaLists THEN CommaLists[segment] ELSE {segment}

(* The datum in the address wins over the query's list. *)
Requested(i, path, da) ==
  IF Len(path) > Len(Addresses[i]) THEN Named(path[Len(path)]) ELSE da

(* trim_payload(): the object's own order is kept. *)
trim_payload(payload, list) ==
  IF list = NoList THEN payload
  ELSE Where(payload, LAMBDA record : record[1] \in list)
=================================================================================
