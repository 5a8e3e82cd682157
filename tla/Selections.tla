------------------------------- MODULE Selections -------------------------------
(***************************************************************************)
(* The loops that copy some elements of an array, in order: what is copied *)
(* is given as a set of positions, so that facts about it can be proved    *)
(* once for every selection criterion.  And the empty string, by name.     *)
(***************************************************************************)
EXTENDS Naturals, Sequences

Empty == ""

(* The elements of s at the positions in K. *)
Selected(s, K) ==
  LET Upto[k \in 0 .. Len(s)] ==
        IF k = 0 THEN <<>>
        ELSE IF k \in K THEN Append(Upto[k - 1], s[k]) ELSE Upto[k - 1]
  IN  Upto[Len(s)]

(* The elements that pass a test. *)
Where(s, Test(_)) == Selected(s, {k \in 1 .. Len(s) : Test(s[k])})
=================================================================================
