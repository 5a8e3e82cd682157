---------------------------------- MODULE MCApp ----------------------------------
(***************************************************************************)
(* The executable on small worlds: two tags, a group of order 7, a policy  *)
(* with two classes, a binding map with two rows at one address, and       *)
(* documents of up to fifteen elements.                                    *)
(***************************************************************************)
EXTENDS App

CONSTANTS f1, f2

-----------------------------------------------------------------------------
(* The curve: 2, 3 and 6 have the even root.  Under f1 the first candidate *)
(* is outside the group, the second has the odd root, and a third would do *)
(* as well; under f2 only the first will do.                               *)
MCOrder == 7
MCEvenRoots == {2, 3, 6}
MCFp == {f1, f2}
MCHkdf == (f1 :> [k \in 0 .. 3 |-> <<9, 5, 3, 0>>[k + 1]]) @@ (f2 :> [k \in 0 .. 3 |-> <<1, 0, 7, 8>>[k + 1]])

Owner == 4      \* the identity a proof is asked of, with the odd root; its 'pi' is 3

-----------------------------------------------------------------------------
(* Files *)

IdDoc(fp, pi) == [fp |-> fp, pi |-> pi]
Identities ==
  {NoFile, Unreadable, NotObject, IdDoc(Missing, Missing), IdDoc(Malformed, Missing),
   IdDoc(f1, Missing), IdDoc(f1, 2), IdDoc(f1, 3), IdDoc(f2, Missing), IdDoc(f2, Malformed)}

Class(ci, fn, cr, pi) == [ci |-> ci, fn |-> fn, st |-> "au", cr |-> cr, pi |-> pi]
Credential(id, ci, cv) == [id |-> id, ci |-> ci, cv |-> cv]
Group(pi, pt, pr) == [pi |-> pi, pt |-> pt, pr |-> pr]
Permission(pi, st, lo, vn) == [pi |-> pi, st |-> st, lo |-> lo, vn |-> vn]
ProofRow(a, pi) == [at |-> a, pi |-> pi]

(* The first class blocks a1 and then frees it, has a2 only in another     *)
(* status, and frees a3 and then blocks it; the second has no valid        *)
(* credential.                                                             *)
Household ==
  [classes     |-> <<Class(1, "ann", 1, 1), NotObject, Class(2, "bob", 2, 2), Class(3, "eve", 3, 2)>>,
   credentials |-> <<Credential(1, "tok", "ye"), Credential(2, "old", "no"), Credential(9, "lost", "ye")>>,
   groups      |-> <<Group(1, "ps", 1), Group(1, "px", 3), Group(2, "ps", 2)>>,
   permissions |-> <<Permission(1, "au", "a1", "bk"), Permission(1, "au", "a1", "fl"),
                     Permission(1, "un", "a2", "fl"), Permission(2, "au", "a9", "pa"),
                     Permission(1, "au", "a3", "fl"), Permission(1, "au", "a3", "bk")>>,
   proofs      |-> <<ProofRow("a1", 3)>>]

(* proofRequired with a row that is cut off, a row without an address, a   *)
(* malformed id whose slot the next row inherits, and one row too many.    *)
Policies ==
  {NoFile, Unreadable, Household,
   [Household EXCEPT !.proofs = <<>>],
   [Household EXCEPT !.proofs = <<ProofRow("a1", Malformed), NotObject, ProofRow(Missing, 3)>>],
   [Household EXCEPT !.proofs = <<ProofRow("a2", 3), ProofRow("", 3), ProofRow("a9", 2), ProofRow("a1", 3)>>],
   [Household EXCEPT !.classes = <<>>],
   [Household EXCEPT !.classes = <<Class(1, "ann", 1, 1), Class(2, "bob", 1, 1)>>]}

MCLaunches ==
  [identity : Identities, policy : {Household}] \cup [identity : {IdDoc(f2, 1)}, policy : Policies]

MCBmRows == <<[addr |-> "a1", at |-> "bk"], [addr |-> "a3", at |-> "fl"], [addr |-> "a1", at |-> "bk"],
              [addr |-> "a2", at |-> "bk"]>>
MCAddrs == <<[di |-> 1, mt |-> "hi", mi |-> 1], [di |-> 2, mt |-> "wi", mi |-> 1],
             [di |-> 3, mt |-> "sm", mi |-> 1], [di |-> 4, mt |-> "hi", mi |-> 1], [di |-> 4, mt |-> "sm", mi |-> 2]>>
MCRosters == {<<>>, <<[mt |-> "sm", mi |-> 1], [mt |-> "hi", mi |-> 1], [mt |-> "sm", mi |-> 4], [mt |-> "sm", mi |-> 5]>>}

-----------------------------------------------------------------------------
(* Messages *)

Message(verb, p, da, ei, t, di) ==
  [verb |-> verb, path |-> p, da |-> da, ei |-> ei, payload |-> t, di |-> di]
Text(kind, len, intact) == [text |-> kind, len |-> len, intact |-> intact]

Cr == Addresses[9]
Texts == {Missing, Text("bad", 16, TRUE), Text("hex", 16, TRUE), Text("loose", 17, TRUE),
          Text("hex", 28, TRUE), Text("hex", 29, TRUE), Text("hex", 32, FALSE), Text("hex", 33, TRUE)}

MCLists == ("rq,si" :> {"rq", "si"}) @@ ("nh,pi" :> {"pi", "nh"})

MCRequests ==
  {Message("GET", Addresses[o], NoList, Missing, Missing, 0) : o \in Object}
  \cup {Message("GET", Append(Addresses[o], d), NoList, 1, Missing, 0) :
          o \in Object, d \in {"pi", "mt", "si", "dt", "ci", "mc", "", "zz", "rq,si", "nh,pi"}}
  \cup {Message("GET", Addresses[o], {"rq", "ns", "va"}, Missing, Missing, 0) : o \in Object}
  \cup {Message("GET", Cr, NoList, ei, t, 0) : ei \in {1, 2, 3, 4, 5, 7, 9, 13, 100}, t \in Texts}
  \cup {Message("GET", Append(Cr, "sig"), NoList, 100, Text("hex", 16, TRUE), 0)}
  \cup {Message("PUT", p, NoList, Missing, Missing, di) :
          p \in {Addresses[2], <<"lx", "ob">>, <<>>}, di \in 0 .. 5}

(* A proof by a key for a message, and proofs with a part missing or of    *)
(* another identity.                                                       *)
Proof(key, p, t) ==
  [pi |-> Point(key).x, pk |-> Point(key), made |-> <<p, t>>,
   sig |-> crypto_service_sign(key, crypto_proof_message(p, t))]
Proofs ==
  LET own == Proof(Owner, "p1", "v1") IN
  {NoProof, own, Proof(Owner, "p2", "v1"), Proof(Owner, "p1", "v2"), Proof(2, "p1", "v1"),
   [own EXCEPT !.pi = Missing], [own EXCEPT !.pi = 2], [own EXCEPT !.pk = Missing],
   [own EXCEPT !.pk = Point(2)], [own EXCEPT !.sig = Missing]}

MCCommands ==
  [path : {"p1"}, payload : {"v1"}, ci : [token : {"tok"}, proof : Proofs], un : {""}]
  \cup [path : {"p1", "p2"}, payload : {"v1", "v2"}, un : {"", "ann", "bob"},
        ci : [token : {"tok", "old", "lost", "none", ""}, proof : {NoProof, Proof(Owner, "p1", "v1")}]]

-----------------------------------------------------------------------------
(* Documents *)

File == << <<"file", 1>> >>
Op == Append(File, <<"overallProcess", 1>>)
Obj == Op \o << <<"lexiconType", 1>>, <<"objectType", 1>> >>
Table == Append(Obj, <<"operationTable", 1>>)
Inner(e, name) == {Append(e, <<name, 1>>), Append(Append(e, <<name, 1>>), <<"data", 1>>)}

Skeleton == {File, Op, SubSeq(Obj, 1, 3), Obj}
MCDocuments ==
  {NoTree, {File}, {File, Op},
   Skeleton \cup {Append(Op, <<"lexiconType", 2>>), Append(Obj, <<"data", 1>>), Append(Obj, <<"data", 2>>), Append(Obj, <<"data", 3>>)},
   Skeleton \cup {Table, Append(Table, <<"data", 1>>)} \cup Inner(Table, "inputs") \cup Inner(Table, "outputs"),
   Skeleton \cup {Table} \cup Inner(Table, "inputParameters") \cup Inner(Table, "outputParameters") \cup Inner(Obj, "addressingTable"),
   Skeleton \cup {Append(File, <<"overallProcess", 2>>), File \o << <<"overallProcess", 2>>, <<"lexiconType", 1>> >>}}

-----------------------------------------------------------------------------
(* Command lines *)
MCArgvs ==
  {<<>>, <<"-v">>, <<"nonsense">>, <<"sm">>, <<"dm", "core">>,
   <<"sm", "core">>, <<"--config", "bm", "sm", "core">>, <<"--bad", "sm", "core">>,
   <<"--json", "han", "ble">>, <<"bm", "show">>, <<"-q", "--config", "f", "bm", "show", "map.xml">>}
=================================================================================
