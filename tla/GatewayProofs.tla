------------------------------ MODULE GatewayProofs ------------------------------
(***************************************************************************)
(* Proofs about Gateway: the core module's identity, its answers and its   *)
(* decisions, for every group, every policy and identity document, every   *)
(* binding map and every message.  AppProofs states the theorems, about    *)
(* the executable.                                                         *)
(***************************************************************************)
EXTENDS Gateway, SelectionsProofs, FiniteSetTheorems

-----------------------------------------------------------------------------
(* The proofRequired section *)

Reader(rows) ==
  LET F[k \in 0 .. Len(rows)] ==
        IF k = 0 THEN [kept |-> <<>>, slot |-> BlankProof] ELSE ReadProof(F[k - 1], rows[k])
  IN  F
ReaderStep(rows, k, f) ==
  IF k = 0 THEN [kept |-> <<>>, slot |-> BlankProof] ELSE ReadProof(f[k - 1], rows[k])

LEMMA ReaderDef ==
  ASSUME NEW rows, Len(rows) \in Nat
  PROVE  /\ ReadProofs(rows) = Reader(rows)[Len(rows)]
         /\ \A k \in 0 .. Len(rows) : Reader(rows)[k] = ReaderStep(rows, k, Reader(rows))
<1> DEFINE Good(n, f) == f = [k \in 0 .. n |-> ReaderStep(rows, k, f)]
           Bad == {n \in Nat : ~ \E f : Good(n, f)}
<1>1. Bad = {}
  <2> SUFFICES ASSUME Bad # {} PROVE FALSE
    OBVIOUS
  <2>1. PICK n \in Bad : \A j \in Bad : n <= j
    BY LeastOf
  <2>2. CASE n = 0
    <3>1. Good(0, [k \in 0 .. 0 |-> [kept |-> <<>>, slot |-> BlankProof]])
      BY DEF ReaderStep
    <3> QED
      BY <2>1, <2>2, <3>1
  <2>3. CASE n # 0
    <3>1. n - 1 \in Nat /\ n - 1 \notin Bad
      BY <2>1, <2>3
    <3>2. PICK f : Good(n - 1, f)
      BY <3>1
    <3> DEFINE g == [k \in 0 .. n |-> IF k = n THEN ReaderStep(rows, n, f) ELSE f[k]]
    <3>3. \A k \in 0 .. n - 1 : k \in 0 .. n /\ k # n
      BY <3>1
    <3>4. \A k \in 0 .. n - 1 : f[k] = ReaderStep(rows, k, f)
      <4> HIDE DEF ReaderStep
      <4> QED
        BY <3>2
    <3>5. \A k \in 0 .. n - 1 : g[k] = f[k]
      BY <3>3
    <3>6. \A k \in 0 .. n : k = 0 \/ k - 1 \in 0 .. n - 1
      BY <3>1
    <3> HIDE DEF g
    <3>7. \A k \in 0 .. n : ReaderStep(rows, k, g) = ReaderStep(rows, k, f)
      BY <3>5, <3>6 DEF ReaderStep
    <3>8. \A k \in 0 .. n : k = n \/ k \in 0 .. n - 1
      BY <3>1
    <3>9. g[n] = ReaderStep(rows, n, f)
      BY <3>1 DEF g
    <3>10. \A k \in 0 .. n : g[k] = ReaderStep(rows, k, g)
      BY <3>4, <3>5, <3>7, <3>8, <3>9
    <3>11. Good(n, g)
      <4>1. g = [k \in 0 .. n |-> g[k]]
        BY DEF g
      <4> QED
        BY <3>10, <4>1
    <3> QED
      BY <2>1, <3>11
  <2> QED
    BY <2>2, <2>3
<1>2. \E f : Good(Len(rows), f)
  BY <1>1
<1>3. Reader(rows) = CHOOSE f : Good(Len(rows), f)
  BY DEF Reader, ReaderStep
<1>4. Good(Len(rows), Reader(rows))
  BY <1>2, <1>3
<1>5. \A k \in 0 .. Len(rows) : Reader(rows)[k] = ReaderStep(rows, k, Reader(rows))
  <2> HIDE DEF ReaderStep, Reader
  <2> QED
    BY <1>4
<1>6. ReadProofs(rows) = Reader(rows)[Len(rows)]
  BY DEF ReadProofs, Reader
<1> QED
  BY <1>5, <1>6

(* The tables a section with these rows can lead to. *)
Texts(rows) == {Empty} \cup {rows[k].at : k \in 1 .. Len(rows)}
Pis(rows)   == {Malformed} \cup {rows[k].pi : k \in 1 .. Len(rows)}
ProofSlots(rows) == [at : Texts(rows), pi : Pis(rows)]
Bare(row) == [at |-> row.at, pi |-> row.pi]

Good(row) == row.at \notin {Missing, Empty} /\ row.pi \notin {Missing, Malformed}

Read(rows, k, acc) ==
  /\ acc \in [kept : Seq(ProofSlots(rows)), slot : ProofSlots(rows)]
  /\ Len(acc.kept) <= MaxProofs
  /\ (k <= MaxProofs /\ \A j \in 1 .. k : Good(rows[j])) =>
       /\ acc.slot = BlankProof /\ Len(acc.kept) = k
       /\ \A j \in 1 .. k : acc.kept[j] = Bare(rows[j])

LEMMA ReadStep ==
  ASSUME NEW rows, Len(rows) \in Nat, NEW k \in 1 .. Len(rows), NEW acc, Read(rows, k - 1, acc)
  PROVE  Read(rows, k, ReadProof(acc, rows[k]))
<1> DEFINE row == rows[k]
           slot == [at |-> IF row.at = Missing THEN acc.slot.at ELSE row.at,
                    pi |-> IF row.pi = Missing THEN acc.slot.pi ELSE row.pi]
<1>1. /\ MaxProofs \in Nat /\ k \in Nat \ {0}
      /\ acc.kept \in Seq(ProofSlots(rows)) /\ acc.slot \in ProofSlots(rows) /\ Len(acc.kept) \in Nat
      /\ Len(acc.kept) <= MaxProofs
      /\ acc = [kept |-> acc.kept, slot |-> acc.slot]
  BY PolicyAssumption, EmptyFacts DEF Read
<1>2. slot \in ProofSlots(rows)
  BY <1>1 DEF ProofSlots, Texts, Pis
<1>3. Good(row) => slot = Bare(row) /\ slot.at # Empty /\ slot.pi # Malformed
  BY DEF Good, Bare
<1>4. ReadProof(acc, row) =
        IF Len(acc.kept) = MaxProofs THEN acc
        ELSE IF slot.at = Empty \/ slot.pi = Malformed THEN [acc EXCEPT !.slot = slot]
        ELSE [kept |-> Append(acc.kept, slot), slot |-> BlankProof]
  BY DEF ReadProof
<1>5. BlankProof \in ProofSlots(rows)
  BY DEF BlankProof, ProofSlots, Texts, Pis
<1> HIDE DEF slot
<1>6. ASSUME k <= MaxProofs, \A j \in 1 .. k : Good(rows[j])
      PROVE  /\ acc.slot = BlankProof /\ Len(acc.kept) = k - 1
             /\ \A j \in 1 .. k - 1 : acc.kept[j] = Bare(rows[j])
             /\ Good(row) /\ Len(acc.kept) # MaxProofs
  BY <1>1, <1>6 DEF Read
<1>7. CASE Len(acc.kept) = MaxProofs
  <2>1. ReadProof(acc, row) = acc
    BY <1>4, <1>7
  <2>2. ~(k <= MaxProofs /\ \A j \in 1 .. k : Good(rows[j]))
    BY <1>6, <1>7
  <2> QED
    BY <2>1, <2>2 DEF Read
<1>8. CASE Len(acc.kept) # MaxProofs /\ (slot.at = Empty \/ slot.pi = Malformed)
  <2>1. ReadProof(acc, row) = [kept |-> acc.kept, slot |-> slot]
    BY <1>1, <1>4, <1>8
  <2>2. ~(k <= MaxProofs /\ \A j \in 1 .. k : Good(rows[j]))
    BY <1>3, <1>6, <1>8
  <2> QED
    BY <1>1, <1>2, <2>1, <2>2 DEF Read
<1>9. CASE Len(acc.kept) # MaxProofs /\ ~(slot.at = Empty \/ slot.pi = Malformed)
  <2> DEFINE more == Append(acc.kept, slot)
  <2>1. ReadProof(acc, row) = [kept |-> more, slot |-> BlankProof]
    BY <1>4, <1>9
  <2>2. /\ more \in Seq(ProofSlots(rows)) /\ Len(more) = Len(acc.kept) + 1
        /\ more[Len(acc.kept) + 1] = slot
        /\ \A j \in 1 .. Len(acc.kept) : more[j] = acc.kept[j]
    BY <1>1, <1>2, AppendFacts
  <2> HIDE DEF more
  <2>3. Len(more) <= MaxProofs
    BY <1>1, <1>9, <2>2
  <2>4. ASSUME k <= MaxProofs, \A j \in 1 .. k : Good(rows[j])
        PROVE  Len(more) = k /\ \A j \in 1 .. k : more[j] = Bare(rows[j])
    <3>1. /\ Len(acc.kept) = k - 1
          /\ \A j \in 1 .. k - 1 : acc.kept[j] = Bare(rows[j])
          /\ slot = Bare(row)
      BY <1>3, <1>6, <2>4
    <3>2. \A j \in 1 .. k : j = k \/ j \in 1 .. k - 1
      BY <1>1
    <3> QED
      BY <1>1, <2>2, <3>1, <3>2
  <2> QED
    BY <1>5, <2>1, <2>2, <2>3, <2>4 DEF Read
<1> QED
  BY <1>7, <1>8, <1>9

LEMMA ReadFacts ==
  ASSUME NEW rows, Len(rows) \in Nat
  PROVE  Read(rows, Len(rows), ReadProofs(rows))
<1> DEFINE F == Reader(rows)
           Bad == {k \in 0 .. Len(rows) : ~Read(rows, k, F[k])}
<1>1. \A k \in 0 .. Len(rows) : F[k] = ReaderStep(rows, k, F)
  BY ReaderDef
<1> HIDE DEF F
<1>2. Bad = {}
  <2> SUFFICES ASSUME Bad # {} PROVE FALSE
    OBVIOUS
  <2>0. Bad \subseteq Nat
    OBVIOUS
  <2>1. PICK k \in Bad : \A j \in Bad : k <= j
    <3> HIDE DEF Bad
    <3> QED
      BY <2>0, LeastOf
  <2>2. CASE k = 0
    <3>1. F[0] = [kept |-> <<>>, slot |-> BlankProof]
      BY <1>1 DEF ReaderStep
    <3>2. <<>> \in Seq(ProofSlots(rows)) /\ Len(<<>>) = 0 /\ MaxProofs \in Nat
      BY PolicyAssumption
    <3>3. BlankProof \in ProofSlots(rows)
      BY DEF BlankProof, ProofSlots, Texts, Pis
    <3>4. Read(rows, 0, F[0])
      BY <3>1, <3>2, <3>3 DEF Read
    <3> QED
      BY <2>1, <2>2, <3>4
  <2>3. CASE k # 0
    <3>1. k \in 1 .. Len(rows) /\ k - 1 \in 0 .. Len(rows) /\ k - 1 \notin Bad
      BY <2>1, <2>3
    <3>2. Read(rows, k - 1, F[k - 1])
      BY <3>1
    <3>3. F[k] = ReadProof(F[k - 1], rows[k])
      BY <1>1, <2>1, <2>3 DEF ReaderStep
    <3>4. Read(rows, k, F[k])
      BY <3>1, <3>2, <3>3, ReadStep
    <3> QED
      BY <2>1, <3>4
  <2> QED
    BY <2>2, <2>3
<1>3. Read(rows, Len(rows), F[Len(rows)])
  BY <1>2
<1>4. ReadProofs(rows) = F[Len(rows)]
  BY ReaderDef DEF F
<1> QED
  BY <1>3, <1>4

-----------------------------------------------------------------------------
(* The router *)

LEMMA EmptyIsNone == Empty \notin {"id", "cv", "cr", "ci"}
BY Zenon DEF Empty

Endings == {"id", "cv", "cr", "ci"}
LEMMA AddressFacts ==
  /\ Object = 1 .. 9
  /\ \A i \in Object : /\ Len(Addresses[i]) \in Nat \ {0}
                        /\ Addresses[i][Len(Addresses[i])] # Empty
  /\ \A i, j \in Object : Addresses[i] = Addresses[j] => i = j
<1>1. Object = 1 .. 9
  BY DEF Object, Addresses
<1>2. Addresses[1] = <<"lx", "ob", "so", "id">>
  BY DEF Addresses
<1>3. Addresses[2] = <<"lx", "ob", "so", "id", "co", "st", "cv">>
  BY DEF Addresses
<1>4. Addresses[3] = <<"lx", "ac", "so", "id", "dc", "bm", "cv">>
  BY DEF Addresses
<1>5. Addresses[4] = <<"lx", "ob", "so", "ti", "rt", "st", "cv">>
  BY DEF Addresses
<1>6. Addresses[5] = <<"lx", "ob", "so", "ti", "tz", "st", "cv">>
  BY DEF Addresses
<1>7. Addresses[6] = <<"lx", "ob", "so", "ti", "st", "mp", "cv">>
  BY DEF Addresses
<1>8. Addresses[7] = <<"lx", "ob", "so", "aa", "ac", "cv">>
  BY DEF Addresses
<1>9. Addresses[8] = <<"lx", "ob", "so", "cr">>
  BY DEF Addresses
<1>10. Addresses[9] = <<"lx", "ob", "so", "cr", "ci">>
  BY DEF Addresses
<1> DEFINE Fine(a) == Len(a) \in Nat \ {0} /\ a[Len(a)] \in Endings
<1>11. Fine(<<"lx", "ob", "so", "id">>)
  BY DEF Endings
<1>12. Fine(<<"lx", "ob", "so", "id", "co", "st", "cv">>)
  BY DEF Endings
<1>13. Fine(<<"lx", "ac", "so", "id", "dc", "bm", "cv">>)
  BY DEF Endings
<1>14. Fine(<<"lx", "ob", "so", "ti", "rt", "st", "cv">>)
  BY DEF Endings
<1>15. Fine(<<"lx", "ob", "so", "ti", "tz", "st", "cv">>)
  BY DEF Endings
<1>16. Fine(<<"lx", "ob", "so", "ti", "st", "mp", "cv">>)
  BY DEF Endings
<1>17. Fine(<<"lx", "ob", "so", "aa", "ac", "cv">>)
  BY DEF Endings
<1>18. Fine(<<"lx", "ob", "so", "cr">>)
  BY DEF Endings
<1>19. Fine(<<"lx", "ob", "so", "cr", "ci">>)
  BY DEF Endings
<1>20. \A i \in 1 .. 9 : i = 1 \/ i = 2 \/ i = 3 \/ i = 4 \/ i = 5 \/ i = 6 \/ i = 7 \/ i = 8 \/ i = 9
  OBVIOUS
<1>21. \A i \in 1 .. 9 : Fine(Addresses[i])
  <2> HIDE DEF Fine
  <2> QED
    BY <1>2, <1>3, <1>4, <1>5, <1>6, <1>7, <1>8, <1>9, <1>10, <1>11, <1>12, <1>13, <1>14, <1>15,
       <1>16, <1>17, <1>18, <1>19, <1>20
<1>22. \A i, j \in 1 .. 9 : Addresses[i] = Addresses[j] => i = j
  BY <1>2, <1>3, <1>4, <1>5, <1>6, <1>7, <1>8, <1>9, <1>10
<1> QED
  BY <1>1, <1>21, <1>22, EmptyIsNone DEF Endings

(* "/a/x" and "/a?da=x" are owned by the same object, and ask for the same *)
(* datum.                                                                  *)
LEMMA OneSegment ==
  ASSUME NEW path \in Seq(STRING), find_object(path) # NoObject,
         path \notin {Addresses[o] : o \in Object}
  PROVE  LET n == Len(path)
             short == SubSeq(path, 1, n - 1)
             o == find_object(path)
         IN  /\ find_object(short) = o
             /\ \A da : Requested(o, path, da) = Named(path[n])
             /\ \A da : Requested(o, short, da) = da
<1> DEFINE n == Len(path)
           short == SubSeq(path, 1, n - 1)
           owners == {i \in Object : Owns(i, path)}
           heirs == {i \in Object : Owns(i, short)}
<1>1. n \in Nat /\ SubSeq(path, 1, n) = path
  OBVIOUS
<1>2. owners # {} /\ find_object(path) = CHOOSE i \in owners : \A j \in owners : Len(Addresses[j]) <= Len(Addresses[i])
  BY DEF find_object
<1>3. \A i \in owners : Len(Addresses[i]) = n - 1 /\ Addresses[i] = short
  <2> SUFFICES ASSUME NEW i \in owners
               PROVE  Len(Addresses[i]) = n - 1 /\ Addresses[i] = short
    OBVIOUS
  <2>1. /\ Len(Addresses[i]) \in Nat /\ Len(Addresses[i]) <= n /\ n <= Len(Addresses[i]) + 1
        /\ SubSeq(path, 1, Len(Addresses[i])) = Addresses[i] /\ i \in Object
    BY AddressFacts DEF Owns
  <2>2. Len(Addresses[i]) # n
    BY <1>1, <2>1
  <2>3. Len(Addresses[i]) = n - 1
    <3> HIDE DEF n
    <3> QED
      BY <1>1, <2>1, <2>2
  <2> QED
    BY <2>1, <2>3
<1>4. PICK i \in owners : TRUE
  BY <1>2
<1>5. /\ i \in Object /\ Addresses[i] = short /\ Len(short) = n - 1 /\ n - 1 \in Nat \ {0}
      /\ short[Len(short)] # Empty
  BY <1>3, <1>4, AddressFacts
<1>6. owners = {i}
  BY <1>3, <1>4, <1>5, AddressFacts
<1>7. find_object(path) = i
  <2> HIDE DEF owners
  <2>1. Len(Addresses[i]) <= Len(Addresses[i])
    BY <1>5, AddressFacts
  <2>2. \E x \in owners : \A j \in owners : Len(Addresses[j]) <= Len(Addresses[x])
    BY <1>6, <2>1
  <2>3. find_object(path) \in owners
    BY <1>2, <2>2
  <2> QED
    BY <1>6, <2>3
<1>8. short \in Seq(STRING) /\ SubSeq(short, 1, Len(short)) = short
  <2>1. short \in Seq(STRING)
    BY <1>1, <1>5
  <2>2. \A s \in Seq(STRING) : SubSeq(s, 1, Len(s)) = s
    OBVIOUS
  <2> QED
    BY <2>1, <2>2
<1>9. i \in heirs
  <2> HIDE DEF short
  <2> QED
    BY <1>5, <1>8 DEF Owns
<1>10. \A j \in heirs : Len(Addresses[j]) \in Nat /\ Len(Addresses[j]) <= n - 1
                        /\ (Len(Addresses[j]) = n - 1 => j = i)
  <2> SUFFICES ASSUME NEW j \in heirs
               PROVE  Len(Addresses[j]) \in Nat /\ Len(Addresses[j]) <= n - 1
                        /\ (Len(Addresses[j]) = n - 1 => j = i)
    OBVIOUS
  <2>1. /\ j \in Object /\ Len(Addresses[j]) \in Nat /\ Len(Addresses[j]) <= Len(short)
        /\ SubSeq(short, 1, Len(Addresses[j])) = Addresses[j]
    BY AddressFacts DEF Owns
  <2> HIDE DEF short
  <2> QED
    BY <1>5, <1>8, <2>1, AddressFacts
<1>11. find_object(short) = i
  <2>1. find_object(short) = CHOOSE x \in heirs : \A j \in heirs : Len(Addresses[j]) <= Len(Addresses[x])
    BY <1>9 DEF find_object
  <2> HIDE DEF heirs, short
  <2>2. \E x \in heirs : \A j \in heirs : Len(Addresses[j]) <= Len(Addresses[x])
    BY <1>5, <1>9, <1>10
  <2>3. find_object(short) \in heirs /\ \A j \in heirs : Len(Addresses[j]) <= Len(Addresses[find_object(short)])
    BY <2>1, <2>2
  <2>4. n - 1 <= Len(Addresses[find_object(short)])
    BY <1>5, <1>9, <2>3
  <2>5. /\ Len(Addresses[find_object(short)]) \in Nat /\ Len(Addresses[find_object(short)]) <= n - 1
        /\ Len(Addresses[find_object(short)]) = n - 1 => find_object(short) = i
    BY <1>10, <2>3
  <2> HIDE DEF n
  <2> QED
    BY <1>1, <2>4, <2>5
<1>12. Len(Addresses[i]) = n - 1 /\ n > n - 1
  BY <1>1, <1>5
<1>13. \A da : Requested(i, path, da) = Named(path[n]) /\ Requested(i, short, da) = da
  <2> HIDE DEF short
  <2> QED
    BY <1>1, <1>5, <1>12 DEF Requested
<1> QED
  BY <1>7, <1>11, <1>13

LEMMA FormsAgree ==
  ASSUME NEW m, m.path \in Seq(STRING), {"path", "da", "ei", "payload"} \subseteq DOMAIN m,
         Local(m), m.path \notin {Addresses[o] : o \in Object}
  PROVE  Reply(m) = Reply([m EXCEPT !.path = SubSeq(m.path, 1, Len(m.path) - 1), !.da = Named(m.path[Len(m.path)])])
<1> DEFINE q == [m EXCEPT !.path = SubSeq(m.path, 1, Len(m.path) - 1), !.da = Named(m.path[Len(m.path)])]
           o == find_object(m.path)
<1>1. /\ q.path = SubSeq(m.path, 1, Len(m.path) - 1) /\ q.da = Named(m.path[Len(m.path)])
      /\ q.ei = m.ei /\ q.payload = m.payload
  OBVIOUS
<1>2. /\ find_object(q.path) = o /\ Requested(o, m.path, m.da) = Named(m.path[Len(m.path)])
      /\ Requested(o, q.path, q.da) = q.da
  BY <1>1, OneSegment DEF Local
<1> HIDE DEF q, o
<1>3. on_get(o, q) = on_get(o, m)
  BY <1>1 DEF on_get
<1>4. Reply(q) = trim_payload(on_get(o, q), Requested(o, q.path, q.da))
  BY <1>2 DEF Reply
<1>5. Reply(m) = trim_payload(on_get(o, m), Requested(o, m.path, m.da))
  BY DEF Reply, o
<1> QED
  BY <1>1, <1>2, <1>3, <1>4, <1>5 DEF q

-----------------------------------------------------------------------------
(* The answers: of all the records, only an identity proof is a signature. *)

Honest(p, key, t) ==
  \E S : p \in Seq(S) /\ \A e \in S : e[1] = "sig" => key # Missing /\ e[2] = crypto_service_sign(key, t)

LEMMA NoSignature ==
  ASSUME NEW p, NEW S, p \in Seq(S), \A e \in S : e[1] # "sig", NEW key, NEW t
  PROVE  Honest(p, key, t)
BY DEF Honest

LEMMA OneRecord ==
  ASSUME NEW word, NEW v, NEW key, NEW t, word # "sig"
  PROVE  Honest(<< <<word, v>> >>, key, t)
<1> DEFINE S == {<<word, v>>}
<1>1. << <<word, v>> >> \in Seq(S)
  OBVIOUS
<1>2. \A e \in S : e[1] # "sig"
  OBVIOUS
<1> HIDE DEF S
<1> QED
  BY <1>1, <1>2, NoSignature

LEMMA TableRecords ==
  ASSUME NEW n \in Nat, NEW word, NEW f, NEW key, NEW t, word # "sig"
  PROVE  Honest([i \in 1 .. n |-> <<word, f[i]>>], key, t)
<1> DEFINE S == {<<word, f[i]>> : i \in 1 .. n}
<1>1. [i \in 1 .. n |-> <<word, f[i]>>] \in Seq(S)
  OBVIOUS
<1>2. \A e \in S : e[1] # "sig"
  OBVIOUS
<1> HIDE DEF S
<1> QED
  BY <1>1, <1>2, NoSignature

LEMMA IdStatusHonest ==
  ASSUME NEW key, NEW t PROVE Honest(id_status_on_get, key, t)
<1> DEFINE inv == core_gateway_inventory
           S == {<<"pi", pubId>>, <<"vr", "set">>, <<"hs", "set">>, <<"ch", "set">>, <<"pd", "set">>,
                 <<"nh", inv.nh>>, <<"nw", inv.nw>>, <<"ns", inv.ns>>,
                 <<"vl", "set">>, <<"il", "set">>, <<"ll", "set">>, <<"rl", "set">>}
<1>1. id_status_on_get \in Seq(S)
  BY DEF id_status_on_get
<1>2. \A e \in S : e[1] # "sig"
  OBVIOUS
<1> QED
  BY <1>1, <1>2 DEF Honest

LEMMA SmallHonest ==
  ASSUME NEW key, NEW t
  PROVE  /\ Honest(id_config_on_get, key, t) /\ Honest(crypto_config_on_get, key, t)
         /\ Honest(build_realtime_payload, key, t) /\ Honest(build_localtz_payload, key, t)
         /\ Honest(build_source_payload, key, t)
<1>2. Honest(id_config_on_get, key, t)
  <2> DEFINE S == {<<"rq", "ma">>, <<"si", "ye">>}
  <2>1. id_config_on_get \in Seq(S)
    BY DEF id_config_on_get
  <2>2. \A e \in S : e[1] # "sig"
    OBVIOUS
  <2> HIDE DEF S
  <2> QED
    BY <2>1, <2>2, NoSignature
<1>3. Honest(crypto_config_on_get, key, t)
  <2> DEFINE S == {<<"vr", "1.0.0">>, <<"rq", "ma">>, <<"si", "no">>}
  <2>1. crypto_config_on_get \in Seq(S)
    BY DEF crypto_config_on_get
  <2>2. \A e \in S : e[1] # "sig"
    OBVIOUS
  <2> HIDE DEF S
  <2> QED
    BY <2>1, <2>2, NoSignature
<1>4. Honest(build_realtime_payload, key, t)
  <2> DEFINE S == {<<"dt", "ss">>, <<"va", "set">>}
  <2>1. build_realtime_payload \in Seq(S)
    BY DEF build_realtime_payload
  <2>2. \A e \in S : e[1] # "sig"
    OBVIOUS
  <2> HIDE DEF S
  <2> QED
    BY <2>1, <2>2, NoSignature
<1>5. Honest(build_localtz_payload, key, t)
  <2> DEFINE format == "ai,ai"
             S == {<<"dt", format>>, <<"va", "set">>}
  <2>1. build_localtz_payload \in Seq(S)
    BY DEF build_localtz_payload
  <2> HIDE DEF format
  <2>2. \A e \in S : e[1] # "sig"
    OBVIOUS
  <2> HIDE DEF S
  <2> QED
    BY <2>1, <2>2, NoSignature
<1>6. Honest(build_source_payload, key, t)
  <2> DEFINE S == {<<"dt", "sl">>, <<"va", "set">>}
  <2>1. build_source_payload \in Seq(S)
    BY DEF build_source_payload
  <2>2. \A e \in S : e[1] # "sig"
    OBVIOUS
  <2> HIDE DEF S
  <2> QED
    BY <2>1, <2>2, NoSignature
<1> QED
  BY <1>2, <1>3, <1>4, <1>5, <1>6

LEMMA CryptoHonest ==
  ASSUME NEW key, NEW ei, NEW t PROVE Honest(crypto_on_get(key, ei, t), key, t)
<1>1. \A word : word # "sig" => Honest(Answers(word), key, t)
  BY OneRecord DEF Answers
<1>2. Honest(crypto_identity_proof(key, t), key, t)
  <2> DEFINE pub == crypto_service_public_key(key)
             S == {<<"pi", pub.x>>, <<"pk", pub>>, <<"sig", crypto_service_sign(key, t)>>}
             p == << <<"pi", pub.x>>, <<"pk", pub>>, <<"sig", crypto_service_sign(key, t)>> >>
  <2>1. p \in Seq(S)
    OBVIOUS
  <2>2. key # Missing => \A e \in S : e[1] = "sig" => key # Missing /\ e[2] = crypto_service_sign(key, t)
    OBVIOUS
  <2> HIDE DEF S, p
  <2>3. key # Missing => Honest(p, key, t)
    BY <2>1, <2>2 DEF Honest
  <2>4. \/ crypto_identity_proof(key, t) = Answers("error:bad-challenge")
        \/ crypto_identity_proof(key, t) = Answers("error:no-identity-key")
        \/ key # Missing /\ crypto_identity_proof(key, t) = p
    BY DEF crypto_identity_proof, p
  <2> QED
    BY <1>1, <2>3, <2>4
<1>3. \A c : Honest(decrypt(c, t), key, t)
  <2> TAKE c
  <2>1. \A v : Honest(<< <<"plaintext", v>> >>, key, t)
    BY OneRecord
  <2>2. Honest(decrypt_aead(c, t), key, t)
    BY <1>1, <2>1 DEF decrypt_aead
  <2>3. Honest(decrypt_block_or_feedback(c, t), key, t)
    BY <1>1, <2>1 DEF decrypt_block_or_feedback, Plaintext
  <2> QED
    BY <1>1, <2>2, <2>3 DEF decrypt
<1>4. \A x : Honest(<< <<"ei", x>>, <<"ks", 32>>, <<"it", 256>>, <<"au", 64>> >>, key, t)
  <2> TAKE x
  <2> DEFINE S == {<<"ei", x>>, <<"ks", 32>>, <<"it", 256>>, <<"au", 64>>}
             p == << <<"ei", x>>, <<"ks", 32>>, <<"it", 256>>, <<"au", 64>> >>
  <2>1. p \in Seq(S)
    OBVIOUS
  <2>2. \A e \in S : e[1] # "sig"
    OBVIOUS
  <2>3. Honest(p, key, t)
    <3> HIDE DEF S, p
    <3> QED
      BY <2>1, <2>2, NoSignature
  <2> QED
    BY <2>3
<1>5. \A x, y, z : Honest(<< <<"ei", x>>, <<"nc", y>>, <<"ks", 16>>, <<"mc", z>> >>, key, t)
  <2> TAKE x, y, z
  <2> DEFINE S == {<<"ei", x>>, <<"nc", y>>, <<"ks", 16>>, <<"mc", z>>}
             p == << <<"ei", x>>, <<"nc", y>>, <<"ks", 16>>, <<"mc", z>> >>
  <2>1. p \in Seq(S)
    OBVIOUS
  <2>2. \A e \in S : e[1] # "sig"
    OBVIOUS
  <2>3. Honest(p, key, t)
    <3> HIDE DEF S, p
    <3> QED
      BY <2>1, <2>2, NoSignature
  <2> QED
    BY <2>3
<1> QED
  BY <1>1, <1>2, <1>3, <1>4, <1>5 DEF crypto_on_get

LEMMA ArrayLength ==
  ASSUME NEW rows, IsArray(rows), NEW K PROVE Len(Selected(rows, K)) \in Nat
<1>1. Selected(rows, K) \in Seq(Range(rows))
  BY SelectedFacts DEF IsArray, Copied
<1> QED
  BY <1>1, EmptyFacts

LEMMA PolicyShape ==
  ASSUME NEW l \in Launches
  PROVE  /\ load_policy(l.policy).loaded \in BOOLEAN
         /\ Len(load_policy(l.policy).classes) \in Nat
         /\ Len(load_policy(l.policy).proofs) \in Nat /\ Len(load_policy(l.policy).proofs) <= MaxProofs
<1>0. MaxProofs \in Nat /\ MaxClasses \in Nat
  BY PolicyAssumption
<1>1. CASE l.policy \in {NoFile, Unreadable}
  BY <1>0, <1>1 DEF load_policy, EmptyPolicy
<1>2. CASE l.policy \notin {NoFile, Unreadable}
  <2> DEFINE p == load_policy(l.policy)
  <2>1. p.loaded = TRUE /\ p.classes = Clipped(l.policy.classes, MaxClasses) /\ p.proofs = ProofRows(l.policy.proofs)
    BY <1>2 DEF load_policy
  <2>2. IsArray(l.policy.classes) /\ IsArray(l.policy.proofs)
    BY <1>2, LaunchAssumption
  <2>3. Len(Clipped(l.policy.classes, MaxClasses)) \in Nat
    <3>1. /\ Objects(l.policy.classes) \in Seq(Range(l.policy.classes))
          /\ Len(Objects(l.policy.classes)) \in Nat
      BY <2>2, SelectedFacts, ArrayLength DEF Objects, Where, IsArray, Copied
    <3> QED
      BY <1>0, <3>1 DEF Clipped
  <2>4. Len(Objects(l.policy.proofs)) \in Nat
    BY <2>2, ArrayLength DEF Objects, Where
  <2>5. Len(ProofRows(l.policy.proofs)) \in Nat /\ Len(ProofRows(l.policy.proofs)) <= MaxProofs
    <3>1. Read(Objects(l.policy.proofs), Len(Objects(l.policy.proofs)), ReadProofs(Objects(l.policy.proofs)))
      BY <2>4, ReadFacts
    <3> QED
      BY <3>1, EmptyFacts DEF Read, ProofRows
  <2> QED
    BY <2>1, <2>3, <2>5
<1> QED
  BY <1>1, <1>2

LEMMA DiscoveryHonest ==
  ASSUME NEW key, NEW t, roster \in Rosters \cup {Missing}
  PROVE  Honest(id_discovery_on_get, key, t)
<1> DEFINE maps == core_gateway_inventory.maps
<1>1. \A n \in Nat : Capped(n) \in Nat
  BY RosterAssumption DEF Capped
<1>2. Len(maps) \in Nat
  <2>1. CASE roster = Missing
    <3>1. maps = [i \in 1 .. Capped(1) |-> 1]
      BY <2>1 DEF core_gateway_inventory
    <3>2. \A n \in Nat : Len([i \in 1 .. n |-> 1]) \in Nat
      OBVIOUS
    <3> QED
      BY <1>1, <3>1, <3>2
  <2>2. CASE roster # Missing
    <3> DEFINE c == Capped(Len(OfType("sm")))
    <3>1. c \in Nat
      BY <1>1, <2>2, RosterAssumption, ArrayLength DEF OfType, Where
    <3>2. maps = [i \in 1 .. c |-> OfType("sm")[i].mi]
      BY <2>2 DEF core_gateway_inventory
    <3> HIDE DEF c
    <3>3. Len([i \in 1 .. c |-> OfType("sm")[i].mi]) \in Nat
      BY <3>1
    <3> QED
      BY <3>2, <3>3
  <2> QED
    BY <2>1, <2>2
<1>3. Honest([i \in 1 .. Len(maps) |-> <<"mt", <<"sm", maps[i], 0>> >>], key, t)
  <2> DEFINE n == Len(maps)
             f == [i \in 1 .. n |-> <<"sm", maps[i], 0>>]
  <2>1. Honest([i \in 1 .. n |-> <<"mt", f[i]>>], key, t)
    <3> HIDE DEF f, n
    <3>1. n \in Nat
      BY <1>2 DEF n
    <3> QED
      BY <3>1, TableRecords
  <2> HIDE DEF maps
  <2>2. [i \in 1 .. n |-> <<"mt", f[i]>>] = [i \in 1 .. n |-> <<"mt", <<"sm", maps[i], 0>> >>]
    OBVIOUS
  <2> QED
    BY <2>1, <2>2
<1> QED
  BY <1>3 DEF id_discovery_on_get

LEMMA AuthHonest ==
  ASSUME NEW key, NEW t, Len(policy.classes) \in Nat
  PROVE  Honest(auth_on_get(policy), key, t)
<1>1. CASE policy.classes = <<>>
  BY <1>1, OneRecord DEF auth_on_get
<1>2. CASE policy.classes # <<>>
  <2> DEFINE c == policy.classes
             n == Len(c)
             f == [i \in 1 .. n |-> <<c[i].ci, c[i].fn, c[i].st>>]
  <2>1. Honest([i \in 1 .. n |-> <<"ci", f[i]>>], key, t)
    <3> HIDE DEF f, n
    <3>1. n \in Nat
      BY DEF n
    <3> QED
      BY <3>1, TableRecords
  <2> HIDE DEF c
  <2>2. [i \in 1 .. n |-> <<"ci", f[i]>>] = [i \in 1 .. n |-> <<"ci", <<c[i].ci, c[i].fn, c[i].st>> >>]
    OBVIOUS
  <2>3. auth_on_get(policy) = [i \in 1 .. n |-> <<"ci", <<c[i].ci, c[i].fn, c[i].st>> >>]
    BY <1>2 DEF auth_on_get, c
  <2> QED
    BY <2>1, <2>2, <2>3
<1> QED
  BY <1>1, <1>2

(* Whatever is asked, a signature in the answer is made with the service's *)
(* key over the payload of the request.                                    *)
LEMMA ReplyHonest ==
  ASSUME NEW m, Local(m), roster \in Rosters \cup {Missing}, Len(policy.classes) \in Nat
  PROVE  \A k \in 1 .. Len(Reply(m)) : Reply(m)[k][1] = "sig" =>
           cryptoKey # Missing /\ Reply(m)[k][2] = crypto_service_sign(cryptoKey, m.payload)
<1> DEFINE o == find_object(m.path)
           p == on_get(o, m)
           list == Requested(o, m.path, m.da)
<1>1. Honest(p, cryptoKey, m.payload)
  <2>1. \/ p = id_config_on_get \/ p = id_status_on_get \/ p = id_discovery_on_get
        \/ p = build_realtime_payload \/ p = build_localtz_payload \/ p = build_source_payload
        \/ p = auth_on_get(policy) \/ p = crypto_config_on_get
        \/ p = crypto_on_get(cryptoKey, m.ei, m.payload)
    BY DEF on_get
  <2> HIDE DEF p
  <2> QED
    BY <2>1, SmallHonest, IdStatusHonest, DiscoveryHonest, AuthHonest, CryptoHonest
<1>2. PICK S : /\ p \in Seq(S)
               /\ \A e \in S : e[1] = "sig" =>
                    cryptoKey # Missing /\ e[2] = crypto_service_sign(cryptoKey, m.payload)
  BY <1>1 DEF Honest
<1>3. Reply(m) = trim_payload(p, list)
  BY DEF Reply
<1> HIDE DEF p, list, o
<1>4. trim_payload(p, list) \in Seq(S)
  BY <1>2, SelectedFacts DEF trim_payload, Where, Copied
<1>5. \A k \in 1 .. Len(Reply(m)) : Reply(m)[k] \in S
  BY <1>3, <1>4
<1> QED
  BY <1>2, <1>5

-----------------------------------------------------------------------------
(* Concatenations *)

FlatFn(seqs) ==
  LET flatten[i \in 1 .. Len(seqs)] == IF i = 1 THEN seqs[i] ELSE flatten[i - 1] \o seqs[i]
  IN  flatten
FlatStep(seqs, i, f) == IF i = 1 THEN seqs[i] ELSE f[i - 1] \o seqs[i]

LEMMA FlatDef ==
  ASSUME NEW seqs, Len(seqs) \in Nat \ {0}
  PROVE  /\ FlattenSeq(seqs) = FlatFn(seqs)[Len(seqs)]
         /\ \A k \in 1 .. Len(seqs) : FlatFn(seqs)[k] = FlatStep(seqs, k, FlatFn(seqs))
<1> DEFINE Solves(n, f) == f = [k \in 1 .. n |-> FlatStep(seqs, k, f)]
           Bad == {n \in Nat : ~ \E f : Solves(n, f)}
<1>1. Bad = {}
  <2> SUFFICES ASSUME Bad # {} PROVE FALSE
    OBVIOUS
  <2>1. PICK n \in Bad : \A j \in Bad : n <= j
    BY LeastOf
  <2>2. CASE n = 0
    <3>1. Solves(0, [k \in 1 .. 0 |-> <<>>])
      BY DEF FlatStep
    <3> QED
      BY <2>1, <2>2, <3>1
  <2>3. CASE n # 0
    <3>1. n - 1 \in Nat /\ n - 1 \notin Bad
      BY <2>1, <2>3
    <3>2. PICK f : Solves(n - 1, f)
      BY <3>1
    <3> DEFINE g == [k \in 1 .. n |-> IF k = n THEN FlatStep(seqs, n, f) ELSE f[k]]
    <3>3. \A k \in 1 .. n - 1 : k \in 1 .. n /\ k # n
      BY <3>1
    <3>4. \A k \in 1 .. n - 1 : f[k] = FlatStep(seqs, k, f)
      <4> HIDE DEF FlatStep
      <4> QED
        BY <3>2
    <3>5. \A k \in 1 .. n - 1 : g[k] = f[k]
      BY <3>3
    <3>6. \A k \in 1 .. n : k = 1 \/ k - 1 \in 1 .. n - 1
      BY <3>1
    <3>9. g[n] = FlatStep(seqs, n, f)
      BY <3>1, <2>3
    <3>12. g = [k \in 1 .. n |-> g[k]]
      OBVIOUS
    <3> HIDE DEF g
    <3>7. \A k \in 1 .. n : FlatStep(seqs, k, g) = FlatStep(seqs, k, f)
      BY <3>5, <3>6 DEF FlatStep
    <3>8. \A k \in 1 .. n : k = n \/ k \in 1 .. n - 1
      BY <3>1
    <3>10. \A k \in 1 .. n : g[k] = FlatStep(seqs, k, g)
      BY <3>4, <3>5, <3>7, <3>8, <3>9
    <3>11. Solves(n, g)
      BY <3>10, <3>12
    <3> QED
      BY <2>1, <3>11
  <2> QED
    BY <2>2, <2>3
<1>2. \E f : Solves(Len(seqs), f)
  BY <1>1
<1>3. FlatFn(seqs) = CHOOSE f : Solves(Len(seqs), f)
  BY DEF FlatFn, FlatStep
<1>4. Solves(Len(seqs), FlatFn(seqs))
  BY <1>2, <1>3
<1>5. \A k \in 1 .. Len(seqs) : FlatFn(seqs)[k] = FlatStep(seqs, k, FlatFn(seqs))
  <2> HIDE DEF FlatStep, FlatFn
  <2> QED
    BY <1>4
<1>6. FlattenSeq(seqs) = FlatFn(seqs)[Len(seqs)]
  BY DEF FlattenSeq, FlatFn
<1> QED
  BY <1>5, <1>6

(* The last row about an address, and how it fares in a concatenation. *)
Hit(s, a) == \E k \in 1 .. Len(s) : s[k].lo = a
LastHit(s, a, e) ==
  \E k \in 1 .. Len(s) : s[k] = e /\ e.lo = a /\ \A j \in k + 1 .. Len(s) : s[j].lo # a

Joined(seqs, S, k, t) ==
  /\ t \in Seq(S)
  /\ \A a : Hit(t, a) => \E j \in 1 .. k : Hit(seqs[j], a)
  /\ \A a, e : \A c \in 1 .. k :
       (LastHit(seqs[c], a, e) /\ \A d \in 1 .. k : d # c => ~Hit(seqs[d], a)) => LastHit(t, a, e)

LEMMA ConcatFacts ==
  ASSUME NEW S, NEW s \in Seq(S), NEW t \in Seq(S)
  PROVE  /\ s \o t \in Seq(S) /\ Len(s) \in Nat /\ Len(t) \in Nat /\ Len(s \o t) = Len(s) + Len(t)
         /\ \A k \in 1 .. Len(s) : (s \o t)[k] = s[k]
         /\ \A k \in 1 .. Len(t) : (s \o t)[Len(s) + k] = t[k]
         /\ \A k \in 1 .. Len(s \o t) : k \in 1 .. Len(s) \/ (k - Len(s) \in 1 .. Len(t) /\ k = Len(s) + (k - Len(s)))
OBVIOUS

LEMMA HitConcat ==
  ASSUME NEW S, NEW s \in Seq(S), NEW t \in Seq(S), NEW a
  PROVE  /\ Hit(s \o t, a) => Hit(s, a) \/ Hit(t, a)
         /\ ~Hit(t, a) => \A e : LastHit(s, a, e) => LastHit(s \o t, a, e)
         /\ \A e : LastHit(t, a, e) => LastHit(s \o t, a, e)
<1> DEFINE u == s \o t
<1>1. /\ Len(s) \in Nat /\ Len(t) \in Nat /\ Len(u) = Len(s) + Len(t)
      /\ \A k \in 1 .. Len(s) : u[k] = s[k]
      /\ \A k \in 1 .. Len(t) : u[Len(s) + k] = t[k]
      /\ \A k \in 1 .. Len(u) : k \in 1 .. Len(s) \/ (k - Len(s) \in 1 .. Len(t) /\ k = Len(s) + (k - Len(s)))
  BY ConcatFacts
<1> HIDE DEF u
<1>2. Hit(u, a) => Hit(s, a) \/ Hit(t, a)
  BY <1>1 DEF Hit
<1>3. ASSUME NEW e, LastHit(s, a, e), ~Hit(t, a) PROVE LastHit(u, a, e)
  <2>0. PICK x \in 1 .. Len(s) : s[x] = e /\ e.lo = a /\ \A j \in x + 1 .. Len(s) : s[j].lo # a
    BY <1>3 DEF LastHit
  <2>1. x \in 1 .. Len(u) /\ u[x] = e
    BY <1>1, <2>0
  <2>2. ASSUME NEW j \in x + 1 .. Len(u) PROVE u[j].lo # a
    <3>1. j \in 1 .. Len(u)
      BY <1>1, <2>0
    <3>2. CASE j \in 1 .. Len(s)
      <4>1. j \in x + 1 .. Len(s)
        BY <1>1, <2>0, <3>2
      <4> QED
        BY <1>1, <2>0, <3>2, <4>1
    <3>3. CASE j - Len(s) \in 1 .. Len(t) /\ j = Len(s) + (j - Len(s))
      <4>1. u[j] = t[j - Len(s)]
        BY <1>1, <3>3
      <4> QED
        BY <1>3, <3>3, <4>1 DEF Hit
    <3> QED
      BY <1>1, <3>1, <3>2, <3>3
  <2> QED
    BY <2>0, <2>1, <2>2 DEF LastHit
<1>4. ASSUME NEW e, LastHit(t, a, e) PROVE LastHit(u, a, e)
  <2>0. PICK x \in 1 .. Len(t) : t[x] = e /\ e.lo = a /\ \A j \in x + 1 .. Len(t) : t[j].lo # a
    BY <1>4 DEF LastHit
  <2>1. Len(s) + x \in 1 .. Len(u) /\ u[Len(s) + x] = e
    BY <1>1, <2>0
  <2>2. ASSUME NEW j \in (Len(s) + x) + 1 .. Len(u) PROVE u[j].lo # a
    <3>1. j - Len(s) \in x + 1 .. Len(t) /\ j - Len(s) \in 1 .. Len(t) /\ j = Len(s) + (j - Len(s))
      BY <1>1, <2>1
    <3>2. u[j] = t[j - Len(s)]
      BY <1>1, <3>1
    <3> QED
      BY <2>0, <3>1, <3>2
  <2> QED
    BY <2>0, <2>1, <2>2 DEF LastHit
<1> QED
  BY <1>2, <1>3, <1>4 DEF u

LEMMA JoinedStep ==
  ASSUME NEW S, NEW seqs, NEW k \in Nat \ {0, 1}, NEW t, Joined(seqs, S, k - 1, t), seqs[k] \in Seq(S)
  PROVE  Joined(seqs, S, k, t \o seqs[k])
<1> DEFINE s == seqs[k]
           u == t \o s
<1>0. t \in Seq(S) /\ u \in Seq(S) /\ s \in Seq(S)
  BY ConcatFacts DEF Joined
<1>1. /\ \A c \in 1 .. k : c = k \/ c \in 1 .. k - 1
      /\ \A c \in 1 .. k - 1 : c \in 1 .. k /\ c # k
      /\ k \in 1 .. k
  OBVIOUS
<1>2. ASSUME NEW a, Hit(u, a) PROVE \E j \in 1 .. k : Hit(seqs[j], a)
  <2>1. Hit(t, a) \/ Hit(s, a)
    BY <1>0, <1>2, HitConcat
  <2> QED
    BY <1>1, <2>1 DEF Joined
<1>3. ASSUME NEW a, NEW e, NEW c \in 1 .. k, LastHit(seqs[c], a, e),
             \A d \in 1 .. k : d # c => ~Hit(seqs[d], a)
      PROVE  LastHit(u, a, e)
  <2>1. CASE c = k
    BY <1>0, <1>3, <2>1, HitConcat
  <2>2. CASE c \in 1 .. k - 1
    <3>1. LastHit(t, a, e)
      BY <1>1, <1>3, <2>2 DEF Joined
    <3>2. ~Hit(s, a)
      BY <1>1, <1>3, <2>2
    <3> QED
      BY <1>0, <3>1, <3>2, HitConcat
  <2> QED
    BY <1>1, <2>1, <2>2
<1> HIDE DEF u
<1>4. Joined(seqs, S, k, u)
  BY <1>0, <1>2, <1>3 DEF Joined
<1> QED
  BY <1>4 DEF u

LEMMA FlattenFacts ==
  ASSUME NEW S, NEW seqs, Len(seqs) \in Nat, seqs = <<>> <=> Len(seqs) = 0,
         \A k \in 1 .. Len(seqs) : seqs[k] \in Seq(S)
  PROVE  Joined(seqs, S, Len(seqs), FlattenSeq(seqs))
<1>1. CASE Len(seqs) = 0
  <2>1. FlattenSeq(seqs) = <<>> /\ <<>> \in Seq(S) /\ Len(<<>>) = 0
    BY <1>1 DEF FlattenSeq
  <2>2. \A a : ~Hit(<<>>, a)
    BY <2>1 DEF Hit
  <2> QED
    BY <1>1, <2>1, <2>2 DEF Joined
<1>2. CASE Len(seqs) # 0
  <2> DEFINE F == FlatFn(seqs)
             Bad == {k \in 1 .. Len(seqs) : ~Joined(seqs, S, k, F[k])}
  <2>1. \A k \in 1 .. Len(seqs) : F[k] = FlatStep(seqs, k, F)
    BY <1>2, FlatDef
  <2> HIDE DEF F
  <2>2. Bad = {}
    <3> SUFFICES ASSUME Bad # {} PROVE FALSE
      OBVIOUS
    <3>0. Bad \subseteq Nat
      OBVIOUS
    <3>1. PICK k \in Bad : \A j \in Bad : k <= j
      <4> HIDE DEF Bad
      <4> QED
        BY <3>0, LeastOf
    <3>2. CASE k = 1
      <4>1. F[1] = seqs[1] /\ seqs[1] \in Seq(S)
        BY <2>1, <3>1, <3>2 DEF FlatStep
      <4>2. \A c \in 1 .. 1 : c = 1
        OBVIOUS
      <4>3. Joined(seqs, S, 1, F[1])
        BY <4>1, <4>2 DEF Joined
      <4> QED
        BY <3>1, <3>2, <4>3
    <3>3. CASE k # 1
      <4>1. k \in Nat \ {0, 1} /\ k - 1 \in 1 .. Len(seqs) /\ k - 1 \notin Bad /\ seqs[k] \in Seq(S)
        BY <3>1, <3>3
      <4>2. Joined(seqs, S, k - 1, F[k - 1])
        BY <4>1
      <4>3. F[k] = F[k - 1] \o seqs[k]
        BY <2>1, <3>1, <3>3 DEF FlatStep
      <4>4. Joined(seqs, S, k, F[k])
        BY <4>1, <4>2, <4>3, JoinedStep
      <4> QED
        BY <3>1, <4>4
    <3> QED
      BY <3>2, <3>3
  <2>3. Joined(seqs, S, Len(seqs), F[Len(seqs)])
    BY <1>2, <2>2
  <2>4. FlattenSeq(seqs) = F[Len(seqs)]
    BY <1>2, FlatDef DEF F
  <2> QED
    BY <2>3, <2>4
<1> QED
  BY <1>1, <1>2

-----------------------------------------------------------------------------
(* The walk *)

LEMMA WhereArray ==
  ASSUME NEW S, NEW rows \in Seq(S), NEW K PROVE Selected(rows, K) \in Seq(S)
BY SelectedFacts DEF Copied

LEMMA ClippedArray ==
  ASSUME NEW rows, IsArray(rows), NEW max \in Nat PROVE Clipped(rows, max) \in Seq(Range(rows))
<1>1. Objects(rows) \in Seq(Range(rows)) /\ Len(Objects(rows)) \in Nat
  BY SelectedFacts, ArrayLength DEF Objects, Where, IsArray, Copied
<1>2. \A S : \A s \in Seq(S) : \A n \in 0 .. Len(s) : SubSeq(s, 1, n) \in Seq(S)
  OBVIOUS
<1>3. (IF Len(Objects(rows)) < max THEN Len(Objects(rows)) ELSE max) \in 0 .. Len(Objects(rows))
  BY <1>1
<1> QED
  BY <1>1, <1>2, <1>3 DEF Clipped

(* Its tables are sequences. *)
Sized(p) ==
  /\ \E S : p.classes \in Seq(S)
  /\ \E S : p.credentials \in Seq(S)
  /\ \E S : p.groups \in Seq(S)
  /\ \E S : p.permissions \in Seq(S)

LEMMA PolicySized ==
  ASSUME NEW l \in Launches PROVE Sized(load_policy(l.policy))
<1>1. CASE l.policy \in {NoFile, Unreadable}
  <2>1. <<>> \in Seq({})
    OBVIOUS
  <2> QED
    BY <1>1, <2>1 DEF load_policy, EmptyPolicy, Sized
<1>2. CASE l.policy \notin {NoFile, Unreadable}
  <2>1. /\ IsArray(l.policy.classes) /\ IsArray(l.policy.credentials)
        /\ IsArray(l.policy.groups) /\ IsArray(l.policy.permissions)
    BY <1>2, LaunchAssumption
  <2>2. MaxClasses \in Nat /\ MaxCredentials \in Nat /\ MaxGroups \in Nat /\ MaxPermissions \in Nat
    BY PolicyAssumption
  <2> DEFINE p == load_policy(l.policy)
  <2>3. /\ p.classes = Clipped(l.policy.classes, MaxClasses)
        /\ p.credentials = Clipped(l.policy.credentials, MaxCredentials)
        /\ p.groups = Clipped(l.policy.groups, MaxGroups)
        /\ p.permissions = Clipped(l.policy.permissions, MaxPermissions)
    BY <1>2 DEF load_policy
  <2>4. /\ p.classes \in Seq(Range(l.policy.classes)) /\ p.credentials \in Seq(Range(l.policy.credentials))
        /\ p.groups \in Seq(Range(l.policy.groups)) /\ p.permissions \in Seq(Range(l.policy.permissions))
    BY <2>1, <2>2, <2>3, ClippedArray
  <2> HIDE DEF p
  <2> QED
    BY <2>4 DEF Sized, p
<1> QED
  BY <1>1, <1>2

(* A table made by a bound variable. *)
LEMMA TableLength ==
  ASSUME NEW n \in Nat, NEW f, f = [k \in 1 .. n |-> f[k]]
  PROVE  Len(f) = n /\ (f = <<>> <=> n = 0)
OBVIOUS

LEMMA ApplicableArray ==
  ASSUME NEW p, NEW S, p.permissions \in Seq(S), NEW G, p.groups \in Seq(G), NEW cls
  PROVE  Applicable(p, cls) \in Seq(S)
<1> DEFINE groups == Where(p.groups, LAMBDA g : g.pi = cls.pi /\ g.pt = "ps")
           parts == [k \in 1 .. Len(groups) |->
                       Where(p.permissions, LAMBDA q : q.pi = groups[k].pr /\ q.st = cls.st)]
<1>1. groups \in Seq(G) /\ Len(groups) \in Nat
  BY WhereArray, EmptyFacts DEF Where
<1> HIDE DEF groups
<1>2. \A k \in 1 .. Len(groups) : parts[k] \in Seq(S)
  BY WhereArray DEF Where
<1>3. Applicable(p, cls) = FlattenSeq(parts)
  BY DEF Applicable, groups
<1>4. parts = [k \in 1 .. Len(groups) |-> parts[k]]
  OBVIOUS
<1> HIDE DEF parts
<1>5. Len(parts) = Len(groups) /\ (parts = <<>> <=> Len(parts) = 0)
  BY <1>1, <1>4, TableLength
<1>6. Joined(parts, S, Len(parts), FlattenSeq(parts))
  BY <1>1, <1>2, <1>5, FlattenFacts
<1> QED
  BY <1>3, <1>6 DEF Joined

(* Propagation writes what the classes have to say, one after the other. *)
LEMMA WritesFacts ==
  ASSUME NEW p, Sized(p)
  PROVE  \E S : /\ Writes(p) \in Seq(S)
                /\ \A cls : Applicable(p, cls) \in Seq(S)
                /\ \A a, e : \A c \in 1 .. Len(p.classes) :
                     ( /\ LastHit(Applicable(p, p.classes[c]), a, e)
                       /\ \A d \in 1 .. Len(p.classes) : d # c => ~Hit(Applicable(p, p.classes[d]), a))
                       => LastHit(Writes(p), a, e)
<1>1. PICK S : p.permissions \in Seq(S)
  BY DEF Sized
<1>2. PICK G : p.groups \in Seq(G)
  BY DEF Sized
<1>3. PICK C : p.classes \in Seq(C)
  BY DEF Sized
<1>4. \A cls : Applicable(p, cls) \in Seq(S)
  BY <1>1, <1>2, ApplicableArray
<1> DEFINE n == Len(p.classes)
           parts == [i \in 1 .. n |-> Applicable(p, p.classes[i])]
<1>5. n \in Nat
  BY <1>3, EmptyFacts
<1>6. parts = [i \in 1 .. n |-> parts[i]] /\ \A i \in 1 .. n : parts[i] = Applicable(p, p.classes[i])
  OBVIOUS
<1>7. Writes(p) = FlattenSeq(parts)
  BY DEF Writes
<1> HIDE DEF parts, n
<1>8. Len(parts) = n /\ (parts = <<>> <=> Len(parts) = 0)
  BY <1>5, <1>6, TableLength
<1>9. Joined(parts, S, n, Writes(p))
  BY <1>4, <1>5, <1>6, <1>7, <1>8, FlattenFacts
<1>10. Writes(p) \in Seq(S)
  BY <1>9 DEF Joined
<1>11. ASSUME NEW a, NEW e, NEW c \in 1 .. n, LastHit(Applicable(p, p.classes[c]), a, e),
              \A d \in 1 .. n : d # c => ~Hit(Applicable(p, p.classes[d]), a)
       PROVE  LastHit(Writes(p), a, e)
  BY <1>6, <1>9, <1>11 DEF Joined
<1> QED
  BY <1>4, <1>10, <1>11 DEF n

(* The queue of writes. *)
LEMMA QueueFacts ==
  ASSUME NEW S, NEW s \in Seq(S), NEW n \in 0 .. Len(s)
  PROVE  LET q == SubSeq(s, n + 1, Len(s))
         IN  /\ q = <<>> <=> n = Len(s)
             /\ n # Len(s) => Head(q) = s[n + 1] /\ Tail(q) = SubSeq(s, n + 2, Len(s))
<1>1. SubSeq(s, n + 1, Len(s)) \in Seq(S) /\ Len(SubSeq(s, n + 1, Len(s))) = Len(s) - n
  OBVIOUS
<1>2. SubSeq(s, n + 1, Len(s)) = <<>> <=> n = Len(s)
  <2> DEFINE q == SubSeq(s, n + 1, Len(s))
  <2>1. q \in Seq(S) /\ Len(q) = Len(s) - n /\ Len(s) \in Nat /\ n \in Nat
    BY <1>1
  <2> HIDE DEF q
  <2>2. q = <<>> <=> Len(q) = 0
    BY <2>1, EmptyFacts
  <2>3. q = <<>> <=> n = Len(s)
    BY <2>1, <2>2
  <2> QED
    BY <2>3 DEF q
<1>3. n # Len(s) => Head(SubSeq(s, n + 1, Len(s))) = s[n + 1]
  OBVIOUS
<1>4. n # Len(s) => Tail(SubSeq(s, n + 1, Len(s))) = SubSeq(s, n + 2, Len(s))
  OBVIOUS
<1> QED
  BY <1>2, <1>3, <1>4

(* A row holds the last of the first n writes about its address, and those *)
(* are the ones that are made.                                             *)
Written(w, n, a, v) ==
  \A j \in 1 .. n : (w[j].lo = a /\ \A i \in j + 1 .. n : w[i].lo # a) => v = w[j].vn

Propagation(pc, p, queue, field) ==
  pc \in {"propagate", "serve"} =>
    \E n \in 0 .. Len(Writes(p)) :
      /\ queue = SubSeq(Writes(p), n + 1, Len(Writes(p)))
      /\ pc = "serve" => n = Len(Writes(p))
      /\ \A r \in MapRow : r \in FirstAt(BmRows[r].addr) => Written(Writes(p), n, BmRows[r].addr, field[r])

LEMMA WrittenStep ==
  ASSUME NEW w, NEW n \in Nat, NEW a, NEW v, Written(w, n, a, v)
  PROVE  /\ w[n + 1].lo # a => Written(w, n + 1, a, v)
         /\ w[n + 1].lo = a => Written(w, n + 1, a, w[n + 1].vn)
<1>1. \A j \in 1 .. n + 1 : j = n + 1 \/ (j \in 1 .. n /\ n + 1 \in j + 1 .. n + 1)
  OBVIOUS
<1>2. \A j \in 1 .. n : \A i \in j + 1 .. n : i \in j + 1 .. n + 1
  OBVIOUS
<1> QED
  BY <1>1, <1>2 DEF Written

-----------------------------------------------------------------------------
(* The inductive invariant.  The key is somewhere only between its         *)
(* derivation and the next stop, and 'pi' is its even point; every 'pi'    *)
(* ever published has one origin; the tables are the files'; and what the  *)
(* last message got is what the tables give it.                            *)

GwTypes ==
  /\ gpc \in {"identity", "bus", "services", "propagate", "serve", "exited"}
  /\ files \in Launches /\ bus \in {"closed", "open", "deaf"}
  /\ DOMAIN at = MapRow
  /\ roster \in Rosters \cup {Missing}
  /\ psaFault \in BOOLEAN
  /\ published \subseteq 1 .. Order - 1 /\ pubId \in published \cup {Missing}

Keys ==
  /\ idKey \in EvenRoots \cup {Missing} /\ cryptoKey \in EvenRoots \cup {Missing}
  /\ idKey # Missing => pubId = Point(idKey).x /\ gpc \in {"bus", "services"}
  /\ cryptoKey # Missing => pubId = Point(cryptoKey).x /\ gpc \in {"propagate", "serve"}

(* Where a 'pi' may come from: the pinned one; and, as long as PSA has not *)
(* failed, the first usable counter.                                       *)
FirstCounter(fp, k) == k \in Counters(fp) /\ \A j \in Counters(fp) : ~(j < k)
Origin(doc, fault, pi) ==
  /\ doc.pi # Missing => pi = doc.pi
  /\ fault \/ \E k \in 0 .. 3 : FirstCounter(doc.fp, k) /\ pi = Point(DerivedKey(doc.fp, k)).x
Stationary == \A pi \in published : Origin(files.identity, psaFault, pi)

Tables == policy = IF gpc \in {"propagate", "serve"} THEN load_policy(files.policy) ELSE EmptyPolicy

(* What core_authorize() saw to. *)
Seen(p, m, addr) ==
  LET pi == required_proof_pi(p, addr)
  IN  p.loaded /\ (pi = Missing \/ crypto_verify_proof(m.ci.proof, pi, crypto_proof_message(m.path, m.payload)))

Outcome ==
  \/ last = Nothing
  \/ /\ gpc = "serve"
     /\ \/ \E m \in Requests : Local(m) /\ last = [kind |-> "answer", msg |-> m, out |-> Reply(m)]
        \/ \E m \in Requests : last = [kind |-> "refused", msg |-> m]
        \/ \E m \in Requests : last = [kind |-> "relayed", msg |-> m]
        \/ \E m \in Requests : last = [kind |-> "dropped", msg |-> m]
        \/ \E m \in Commands : \E addr, ok :
             last = [kind |-> "gate", msg |-> m, at |-> addr, ok |-> ok] /\ (ok => Seen(policy, m, addr))

Propagated == Propagation(gpc, policy, todo, at)

GwInv == GwTypes /\ Keys /\ Stationary /\ Tables /\ Propagated /\ Outcome

LEMMA GwInit ==
  ASSUME NEW l \in Launches, Powered(l) PROVE GwInv
BY DEF Powered, GwInv, GwTypes, Keys, Stationary, Tables, Propagated, Propagation, Outcome, MapRow, Defaults

(* The key on the even root, and its point. *)
LEMMA DerivedFacts ==
  ASSUME NEW fp \in Fp, NEW k \in Counters(fp)
  PROVE  /\ DerivedKey(fp, k) \in EvenRoots
         /\ Point(DerivedKey(fp, k)).x \in 1 .. Order - 1
<1> DEFINE d == hkdf_sha256(fp, k)
<1>1. d \in Nat /\ d \in 1 .. Order - 1 /\ Order - d \in 1 .. Order - 1 /\ Order \in Nat
  BY CurveAssumption DEF Counters, Usable, hkdf_sha256
<1> HIDE DEF d
<1>2. DerivedKey(fp, k) = IF d \in EvenRoots THEN d ELSE Order - d
  BY DEF DerivedKey, Point, scalar_negate, d
<1>3. DerivedKey(fp, k) \in EvenRoots
  BY <1>1, <1>2, CurveAssumption
<1>4. \A e \in 1 .. Order - 1 : Point(e).x \in 1 .. Order - 1
  BY <1>1 DEF Point
<1> QED
  BY <1>1, <1>2, <1>3, <1>4

LEMMA LoadIdentityStep ==
  ASSUME GwInv, NEW k \in 0 .. 3, LoadIdentity(k) PROVE GwInv'
<1> DEFINE doc == files.identity
           key == DerivedKey(doc.fp, k)
           pi == Point(key).x
<1>1. /\ gpc = "identity" /\ Provisioned(doc) /\ k \in Counters(doc.fp)
      /\ document_pi_matches(doc.pi, pi)
      /\ idKey' = key /\ pubId' = pi /\ published' = published \cup {pi}
      /\ psaFault' = (psaFault \/ \E j \in Counters(doc.fp) : j < k)
      /\ gpc' = "bus"
      /\ UNCHANGED <<files, bus, policy, at, todo, cryptoKey, roster, last>>
  BY DEF LoadIdentity, mapvars
<1>2. doc.fp \in Fp
  BY <1>1, LaunchAssumption DEF GwInv, GwTypes
<1>3. key \in EvenRoots /\ pi \in 1 .. Order - 1
  BY <1>1, <1>2, DerivedFacts
<1>4. doc.pi # Missing => pi = doc.pi
  BY <1>1 DEF document_pi_matches
<1> HIDE DEF key, pi, doc
<1>5. psaFault' \in BOOLEAN
  BY <1>1 DEF GwInv, GwTypes
<1>6. GwTypes'
  BY <1>1, <1>3, <1>5 DEF GwInv, GwTypes
<1>7. Keys'
  <2>1. cryptoKey = Missing
    BY <1>1 DEF GwInv, Keys
  <2> QED
    BY <1>1, <1>3, <2>1 DEF GwInv, Keys, pi
<1>8. Stationary'
  <2>1. files' = files /\ doc = files.identity
    BY <1>1 DEF doc
  <2> SUFFICES ASSUME NEW q \in published' PROVE Origin(doc, psaFault', q)
    BY <2>1 DEF Stationary
  <2>2. CASE q \in published
    <3>1. Origin(doc, psaFault, q)
      BY <2>1, <2>2 DEF GwInv, Stationary
    <3>2. psaFault => psaFault'
      BY <1>1
    <3> QED
      BY <3>1, <3>2 DEF Origin
  <2>3. CASE q = pi
    <3>1. psaFault' \/ FirstCounter(doc.fp, k)
      BY <1>1 DEF FirstCounter
    <3> QED
      BY <1>4, <2>3, <3>1 DEF Origin, pi, key
  <2> QED
    BY <1>1, <2>2, <2>3
<1>9. Tables' /\ Propagated' /\ Outcome'
  <2>1. last = Nothing
    BY <1>1 DEF GwInv, Outcome
  <2> QED
    BY <1>1, <2>1 DEF GwInv, Tables, Propagated, Propagation, Outcome
<1> QED
  BY <1>6, <1>7, <1>8, <1>9 DEF GwInv

LEMMA PropagationSteps ==
  ASSUME GwInv, \/ RefuseIdentity \/ hes_bus_hub_open \/ StartServices \/ auth_service_propagate
                \/ EnterService \/ PassOver \/ Shutdown \/ Restart
                \/ \E l \in Rosters : core_inventory_refresh(l)
  PROVE  Propagated'
<1> USE DEF mapvars, keyvars
<1>1. ASSUME RefuseIdentity \/ hes_bus_hub_open \/ Shutdown \/ Restart PROVE Propagated'
  <2>1. gpc' \notin {"propagate", "serve"}
    BY <1>1 DEF RefuseIdentity, hes_bus_hub_open, Shutdown, Restart
  <2> QED
    BY <2>1 DEF Propagated, Propagation
<1>2. ASSUME StartServices PROVE Propagated'
  <2> DEFINE p == load_policy(files.policy)
  <2>1. policy' = p /\ todo' = Writes(p) /\ gpc' = "propagate"
    BY <1>2 DEF StartServices
  <2>2. Sized(p)
    BY PolicySized DEF GwInv, GwTypes
  <2> HIDE DEF p
  <2>3. PICK S : Writes(p) \in Seq(S)
    BY <2>2, WritesFacts
  <2>4. Writes(p) = SubSeq(Writes(p), 0 + 1, Len(Writes(p))) /\ 0 \in 0 .. Len(Writes(p))
    BY <2>3
  <2>5. \A a, v : Written(Writes(p), 0, a, v)
    BY DEF Written
  <2>6. Propagation("propagate", p, Writes(p), at')
    BY <2>4, <2>5 DEF Propagation
  <2> QED
    BY <2>1, <2>6 DEF Propagated
<1>3. ASSUME auth_service_propagate PROVE Propagated'
  <2> DEFINE w == Writes(policy)
  <2>1. /\ gpc = "propagate" /\ gpc' = "propagate" /\ policy' = policy /\ todo # <<>> /\ todo' = Tail(todo)
        /\ at' = [r \in MapRow |-> IF r \in FirstAt(Head(todo).lo) THEN Head(todo).vn ELSE at[r]]
    BY <1>3 DEF auth_service_propagate
  <2>2. PICK n \in 0 .. Len(w) :
          /\ todo = SubSeq(w, n + 1, Len(w))
          /\ \A r \in MapRow : r \in FirstAt(BmRows[r].addr) => Written(w, n, BmRows[r].addr, at[r])
    BY <2>1 DEF GwInv, Propagated, Propagation
  <2>3. PICK S : w \in Seq(S)
    <3>1. Sized(policy)
      BY <2>1, PolicySized DEF GwInv, GwTypes, Tables
    <3> QED
      BY <3>1, WritesFacts
  <2> HIDE DEF w
  <2>4. n # Len(w) /\ Head(todo) = w[n + 1] /\ todo' = SubSeq(w, n + 2, Len(w))
    BY <2>1, <2>2, <2>3, QueueFacts
  <2>5. /\ n \in Nat /\ n + 1 \in 0 .. Len(w) /\ (n + 1) + 1 = n + 2
        /\ todo' = SubSeq(w, (n + 1) + 1, Len(w))
    BY <2>3, <2>4
  <2>6. ASSUME NEW r \in MapRow, r \in FirstAt(BmRows[r].addr)
        PROVE  Written(w, n + 1, BmRows[r].addr, at'[r])
    <3> DEFINE a == BmRows[r].addr
    <3>1. Written(w, n, a, at[r])
      BY <2>2, <2>6
    <3>2. r \in FirstAt(w[n + 1].lo) <=> w[n + 1].lo = a
      BY <2>6 DEF FirstAt
    <3>3. at'[r] = IF w[n + 1].lo = a THEN w[n + 1].vn ELSE at[r]
      BY <2>1, <2>4, <3>2
    <3> HIDE DEF a
    <3>4. Written(w, n + 1, a, at'[r])
      BY <2>5, <3>1, <3>3, WrittenStep
    <3> QED
      BY <3>4 DEF a
  <2>7. Propagation("propagate", policy, todo', at')
    BY <2>5, <2>6 DEF Propagation, w
  <2> QED
    BY <2>1, <2>7 DEF Propagated
<1>4. ASSUME EnterService PROVE Propagated'
  <2> DEFINE w == Writes(policy)
  <2>1. gpc = "propagate" /\ todo = <<>> /\ gpc' = "serve" /\ UNCHANGED <<policy, todo, at>>
    BY <1>4 DEF EnterService
  <2>2. PICK n \in 0 .. Len(w) :
          /\ todo = SubSeq(w, n + 1, Len(w))
          /\ \A r \in MapRow : r \in FirstAt(BmRows[r].addr) => Written(w, n, BmRows[r].addr, at[r])
    BY <2>1 DEF GwInv, Propagated, Propagation
  <2>3. PICK S : w \in Seq(S)
    <3>1. Sized(policy)
      BY <2>1, PolicySized DEF GwInv, GwTypes, Tables
    <3> QED
      BY <3>1, WritesFacts
  <2>4. n = Len(w)
    <3> HIDE DEF w
    <3> QED
      BY <2>1, <2>2, <2>3, QueueFacts
  <2>5. Propagation("serve", policy, todo, at)
    BY <2>2, <2>4 DEF Propagation
  <2> QED
    BY <2>1, <2>5 DEF Propagated
<1>5. ASSUME PassOver \/ \E l \in Rosters : core_inventory_refresh(l) PROVE Propagated'
  BY <1>5 DEF PassOver, core_inventory_refresh, GwInv, Propagated
<1> QED
  BY <1>1, <1>2, <1>3, <1>4, <1>5

(* The steps of start-up and stop. *)
LEMMA QuietSteps ==
  ASSUME GwInv, \/ RefuseIdentity \/ hes_bus_hub_open \/ StartServices \/ auth_service_propagate
                \/ EnterService \/ PassOver \/ Shutdown \/ Restart
                \/ \E l \in Rosters : core_inventory_refresh(l)
  PROVE  GwInv'
<1> USE DEF mapvars, keyvars
<1>1. GwTypes'
  <2>1. files' = files /\ psaFault' = psaFault /\ published' = published
    BY DEF RefuseIdentity, hes_bus_hub_open, StartServices, auth_service_propagate, EnterService,
           PassOver, Shutdown, Restart, core_inventory_refresh
  <2>2. DOMAIN at' = MapRow
    BY DEF RefuseIdentity, hes_bus_hub_open, StartServices, auth_service_propagate, EnterService,
           PassOver, Shutdown, Restart, core_inventory_refresh, Defaults, GwInv, GwTypes
  <2>3. /\ gpc' \in {"identity", "bus", "services", "propagate", "serve", "exited"}
        /\ bus' \in {"closed", "open", "deaf"} /\ roster' \in Rosters \cup {Missing}
        /\ pubId' \in {pubId, Missing}
    BY DEF RefuseIdentity, hes_bus_hub_open, StartServices, auth_service_propagate, EnterService,
           PassOver, Shutdown, Restart, core_inventory_refresh, GwInv, GwTypes
  <2>4. psaFault' \in BOOLEAN
    BY <2>1 DEF GwInv, GwTypes
  <2> QED
    BY <2>1, <2>2, <2>3, <2>4 DEF GwInv, GwTypes, MapRow
<1>2. Keys'
  BY DEF RefuseIdentity, hes_bus_hub_open, StartServices, auth_service_propagate, EnterService,
         PassOver, Shutdown, Restart, core_inventory_refresh, GwInv, Keys, Idle
<1>3. Stationary'
  <2>1. files' = files /\ psaFault' = psaFault /\ published' = published
    BY DEF RefuseIdentity, hes_bus_hub_open, StartServices, auth_service_propagate, EnterService,
           PassOver, Shutdown, Restart, core_inventory_refresh
  <2> QED
    BY <2>1 DEF GwInv, Stationary
<1>4. Tables'
  BY DEF RefuseIdentity, hes_bus_hub_open, StartServices, auth_service_propagate, EnterService,
         PassOver, Shutdown, Restart, core_inventory_refresh, GwInv, GwTypes, Tables, Idle
<1>5. Outcome'
  <2>1. last' = Nothing
    BY DEF RefuseIdentity, hes_bus_hub_open, StartServices, auth_service_propagate, EnterService,
           PassOver, Shutdown, Restart, core_inventory_refresh, GwInv, Outcome, Idle
  <2> QED
    BY <2>1 DEF Outcome
<1>6. Propagated'
  BY PropagationSteps
<1> QED
  BY <1>1, <1>2, <1>3, <1>4, <1>5, <1>6 DEF GwInv

(* An answer depends only on what a message does not change. *)
LEMMA ReplyStable ==
  ASSUME NEW CONSTANT m, UNCHANGED <<policy, roster, pubId, cryptoKey>> PROVE Reply(m)' = Reply(m)
<1>1. core_gateway_inventory' = core_gateway_inventory
  BY DEF core_gateway_inventory, OfType, Where
<1>2. \A o : on_get(o, m)' = on_get(o, m)
  BY <1>1 DEF on_get, id_config_on_get, id_status_on_get, id_discovery_on_get, crypto_config_on_get,
              build_realtime_payload, build_localtz_payload, build_source_payload
<1> QED
  BY <1>2 DEF Reply

(* One message. *)
LEMMA MessageSteps ==
  ASSUME GwInv, \/ \E m \in Requests : Answer(m) \/ RefusePut(m) \/ Relay(m)
                \/ \E m \in Commands, r \in MapRow : Authorize(m, r)
  PROVE  GwInv'
<1>1. /\ gpc = "serve"
      /\ UNCHANGED <<gpc, files, bus, policy, at, todo, idKey, cryptoKey, pubId, published, psaFault, roster>>
  BY DEF Answer, RefusePut, Relay, Authorize, mapvars, keyvars, Idle
<1>2. GwTypes'
  <2>1. psaFault' \in BOOLEAN
    BY <1>1 DEF GwInv, GwTypes
  <2> QED
    BY <1>1, <2>1 DEF GwInv, GwTypes, MapRow
<1>3. Keys' /\ Stationary' /\ Tables' /\ Propagated'
  BY <1>1 DEF GwInv, Keys, Stationary, Tables, Propagated
<1>4. Outcome'
  <2>1. ASSUME NEW m \in Requests, Answer(m) PROVE Outcome'
    <3>1. Local(m) /\ last' = [kind |-> "answer", msg |-> m, out |-> Reply(m)]
      BY <2>1 DEF Answer
    <3>2. Reply(m)' = Reply(m)
      BY <1>1, ReplyStable
    <3>3. Local(m)'
      BY <3>1 DEF Local
    <3> QED
      BY <1>1, <3>1, <3>2, <3>3 DEF Outcome
  <2>2. ASSUME NEW m \in Requests, RefusePut(m) \/ Relay(m) PROVE Outcome'
    <3>1. \/ last' = [kind |-> "refused", msg |-> m]
          \/ last' = [kind |-> "relayed", msg |-> m]
          \/ last' = [kind |-> "dropped", msg |-> m]
      BY <2>2 DEF RefusePut, Relay
    <3> QED
      BY <1>1, <3>1 DEF Outcome
  <2>3. ASSUME NEW m \in Commands, NEW r \in MapRow, Authorize(m, r) PROVE Outcome'
    <3> DEFINE addr == BmRows[r].addr
               ok == core_authorize(m, addr)
    <3>1. last' = [kind |-> "gate", msg |-> m, at |-> addr, ok |-> ok]
      BY <2>3 DEF Authorize
    <3>2. ok => Seen(policy, m, addr)
      <4>1. core_authorize(m, addr) => policy.loaded
        BY DEF core_authorize, authorize
      <4> QED
        BY <4>1 DEF core_authorize, Seen
    <3> HIDE DEF addr, ok
    <3>3. ok => Seen(policy', m, addr)
      BY <1>1, <3>2
    <3> QED
      BY <1>1, <3>1, <3>3 DEF Outcome
  <2> QED
    BY <2>1, <2>2, <2>3
<1> QED
  BY <1>2, <1>3, <1>4 DEF GwInv

LEMMA GwInvStep ==
  ASSUME GwInv, [GwNext]_gwvars PROVE GwInv'
<1>1. CASE UNCHANGED gwvars
  <2>1. UNCHANGED <<gpc, files, bus, policy, at, todo, idKey, cryptoKey, pubId, published, psaFault, roster, last>>
    BY <1>1 DEF gwvars, mapvars, keyvars
  <2>2. GwTypes'
    <3>1. psaFault' \in BOOLEAN
      BY <2>1 DEF GwInv, GwTypes
    <3> QED
      BY <2>1, <3>1 DEF GwInv, GwTypes, MapRow
  <2>3. Keys' /\ Stationary' /\ Tables' /\ Propagated'
    BY <2>1 DEF GwInv, Keys, Stationary, Tables, Propagated
  <2>4. Outcome'
    <3>2. CASE last = Nothing
      BY <2>1, <3>2 DEF Outcome
    <3>3. ASSUME NEW m \in Requests, Local(m) /\ last = [kind |-> "answer", msg |-> m, out |-> Reply(m)]
          PROVE  Outcome'
      <4>1. gpc' = "serve"
        BY <2>1, <3>3 DEF GwInv, Outcome, Nothing
      <4>2. Local(m)' /\ last' = [kind |-> "answer", msg |-> m, out |-> Reply(m)]
        BY <2>1, <3>3 DEF Local
      <4>3. Reply(m)' = Reply(m)
        BY <2>1, ReplyStable
      <4> QED
        BY <4>1, <4>2, <4>3 DEF Outcome
    <3>4. ASSUME NEW m \in Commands, NEW addr, NEW ok, gpc = "serve",
                 last = [kind |-> "gate", msg |-> m, at |-> addr, ok |-> ok],
                 ok => Seen(policy, m, addr)
          PROVE  Outcome'
      <4>1. /\ gpc' = "serve" /\ last' = [kind |-> "gate", msg |-> m, at |-> addr, ok |-> ok]
            /\ ok => Seen(policy', m, addr)
        BY <2>1, <3>4
      <4> QED
        BY <4>1 DEF Outcome
    <3>5. CASE gpc = "serve" /\ \E m \in Requests : \/ last = [kind |-> "refused", msg |-> m]
                                                    \/ last = [kind |-> "relayed", msg |-> m]
                                                    \/ last = [kind |-> "dropped", msg |-> m]
      BY <2>1, <3>5 DEF Outcome
    <3> QED
      BY <3>2, <3>3, <3>4, <3>5 DEF GwInv, Outcome
  <2> QED
    BY <2>2, <2>3, <2>4 DEF GwInv
<1>2. CASE GwNext
  BY <1>2, LoadIdentityStep, QuietSteps, MessageSteps DEF GwNext
<1> QED
  BY <1>1, <1>2

-----------------------------------------------------------------------------
(* What the invariant says. *)

LEMMA GwInvTypes == ASSUME GwInv PROVE GwTypeOK
<1>1. policy.loaded \in BOOLEAN /\ Len(policy.proofs) <= MaxProofs
  <2>1. CASE gpc \in {"propagate", "serve"}
    BY <2>1, PolicyShape DEF GwInv, GwTypes, Tables
  <2>2. CASE gpc \notin {"propagate", "serve"}
    BY <2>2, PolicyAssumption DEF GwInv, Tables, EmptyPolicy
  <2> QED
    BY <2>1, <2>2
<1>2. {idKey, cryptoKey} \subseteq 1 .. Order - 1 \cup {Missing} /\ Missing \in {idKey, cryptoKey}
  BY CurveAssumption DEF GwInv, Keys
<1>3. last.kind \in {"none", "answer", "refused", "relayed", "dropped", "gate"}
  BY DEF GwInv, Outcome, Nothing
<1> QED
  BY <1>1, <1>2, <1>3 DEF GwInv, GwTypes, GwTypeOK

LEMMA GwInvStationary == ASSUME GwInv PROVE PiStationary
<1> SUFFICES ASSUME ~psaFault \/ files.identity.pi # Missing
             PROVE  Cardinality(published) <= 1
  BY DEF PiStationary
<1>1. \A p, q \in published : p = q
  <2> SUFFICES ASSUME NEW p \in published, NEW q \in published PROVE p = q
    OBVIOUS
  <2>1. Origin(files.identity, psaFault, p) /\ Origin(files.identity, psaFault, q)
    BY DEF GwInv, Stationary
  <2>2. CASE files.identity.pi # Missing
    BY <2>1, <2>2 DEF Origin
  <2>3. CASE ~psaFault
    <3>1. PICK j \in 0 .. 3 : FirstCounter(files.identity.fp, j) /\ p = Point(DerivedKey(files.identity.fp, j)).x
      BY <2>1, <2>3 DEF Origin
    <3>2. PICK k \in 0 .. 3 : FirstCounter(files.identity.fp, k) /\ q = Point(DerivedKey(files.identity.fp, k)).x
      BY <2>1, <2>3 DEF Origin
    <3>3. j = k
      BY <3>1, <3>2 DEF FirstCounter
    <3> QED
      BY <3>1, <3>2, <3>3
  <2> QED
    BY <2>2, <2>3
<1>2. CASE published = {}
  BY <1>2, FS_EmptySet
<1>3. CASE published # {}
  <2>1. PICK p : published = {p}
    BY <1>1, <1>3
  <2> QED
    BY <2>1, FS_Singleton
<1> QED
  BY <1>2, <1>3

LEMMA GwInvForms == ASSUME GwInv PROVE TwoFormsAgree
<1> SUFFICES ASSUME last.kind = "answer", last.msg.path \notin {Addresses[o] : o \in Object}
             PROVE  last.out = Reply([last.msg EXCEPT !.path = SubSeq(last.msg.path, 1, Len(last.msg.path) - 1),
                                                      !.da = Named(last.msg.path[Len(last.msg.path)])])
  BY DEF TwoFormsAgree
<1>1. PICK m \in Requests : Local(m) /\ last = [kind |-> "answer", msg |-> m, out |-> Reply(m)]
  BY DEF GwInv, Outcome, Nothing
<1>2. last.msg = m /\ last.out = Reply(m)
  BY <1>1
<1>3. m.path \in Seq(STRING) /\ {"path", "da", "ei", "payload"} \subseteq DOMAIN m
  BY RequestAssumption
<1> QED
  BY <1>1, <1>2, <1>3, FormsAgree

LEMMA GwInvVerifies == ASSUME GwInv PROVE ProofVerifies
<1> SUFFICES ASSUME last.kind = "answer", NEW k \in 1 .. Len(last.out), last.out[k][1] = "sig"
             PROVE  crypto_verify_message([x |-> pubId, even |-> TRUE], last.msg.payload, last.out[k][2])
  BY DEF ProofVerifies
<1>1. PICK m \in Requests : Local(m) /\ last = [kind |-> "answer", msg |-> m, out |-> Reply(m)]
  BY DEF GwInv, Outcome, Nothing
<1>2. last.msg = m /\ last.out = Reply(m) /\ gpc = "serve"
  BY <1>1 DEF GwInv, Outcome, Nothing
<1>3. Len(policy.classes) \in Nat /\ roster \in Rosters \cup {Missing}
  BY <1>2, PolicyShape DEF GwInv, GwTypes, Tables
<1>4. cryptoKey # Missing /\ last.out[k][2] = crypto_service_sign(cryptoKey, m.payload)
  BY <1>1, <1>2, <1>3, ReplyHonest
<1>5. crypto_service_public_key(cryptoKey) = [x |-> pubId, even |-> TRUE]
  BY <1>4 DEF GwInv, Keys, Point, crypto_service_public_key
<1>6. last.out[k][2].by = cryptoKey /\ last.out[k][2].msg = m.payload
  BY <1>4 DEF crypto_service_sign
<1> QED
  BY <1>2, <1>5, <1>6 DEF crypto_verify_message

(* A section that is well formed and fits is kept as it stands. *)
LEMMA ProofsKept ==
  ASSUME NEW rows, IsArray(rows), WellFormed(rows)
  PROVE  /\ ProofRows(rows) \in Seq(ProofSlots(Objects(rows)))
         /\ Len(ProofRows(rows)) = Len(rows)
         /\ \A k \in 1 .. Len(rows) : ProofRows(rows)[k] = Bare(rows[k])
<1> DEFINE K == {k \in 1 .. Len(rows) : rows[k] # NotObject}
           objects == Objects(rows)
<1>0. Len(rows) \in Nat /\ Len(rows) <= MaxProofs
  BY EmptyFacts DEF IsArray, WellFormed
<1>1. \A k \in 1 .. Len(rows) : k \in K
  BY DEF WellFormed
<1>2. objects = Selected(rows, K)
  BY DEF Objects, Where
<1> HIDE DEF K, objects
<1>3. Copied(rows, Range(rows), K, Len(rows), objects)
  BY <1>2, SelectedFacts DEF IsArray
<1>4. Len(objects) = Len(rows) /\ \A k \in 1 .. Len(rows) : objects[k] = rows[k]
  BY <1>1, <1>3 DEF Copied
<1>5. Read(objects, Len(objects), ReadProofs(objects))
  BY <1>0, <1>4, ReadFacts
<1>6. \A k \in 1 .. Len(rows) : Good(objects[k])
  BY <1>4 DEF WellFormed, Good
<1>7. /\ ReadProofs(objects).kept \in Seq(ProofSlots(objects))
      /\ Len(ReadProofs(objects).kept) = Len(rows)
      /\ \A k \in 1 .. Len(rows) : ReadProofs(objects).kept[k] = Bare(objects[k])
  BY <1>0, <1>4, <1>5, <1>6 DEF Read
<1> QED
  BY <1>4, <1>7 DEF ProofRows, objects

LEMMA GwInvDeclared == ASSUME GwInv PROVE ProofAsDeclared
<1> DEFINE rows == files.policy.proofs
           named == {rows[k].pi : k \in {j \in 1 .. Len(rows) : rows[j].at = last.at}}
<1> SUFFICES ASSUME last.kind = "gate", last.ok, WellFormed(rows), named # {}
             PROVE  \E pi \in named : ProvenBy(last.msg, pi)
  BY DEF ProofAsDeclared
<1>0. PICK m \in Commands : \E addr, ok :
        last = [kind |-> "gate", msg |-> m, at |-> addr, ok |-> ok] /\ (ok => Seen(policy, m, addr))
  BY DEF GwInv, Outcome, Nothing
<1>1. PICK addr, ok :
        last = [kind |-> "gate", msg |-> m, at |-> addr, ok |-> ok] /\ (ok => Seen(policy, m, addr))
  BY <1>0
<1>2. last.msg = m /\ last.at = addr /\ gpc = "serve" /\ Seen(policy, m, addr)
  BY <1>1 DEF GwInv, Outcome, Nothing
<1>3. policy.loaded /\ policy = load_policy(files.policy)
  BY <1>2 DEF GwInv, Tables, Seen
<1>4. files.policy \notin {NoFile, Unreadable} /\ policy.proofs = ProofRows(rows)
  BY <1>3 DEF load_policy, EmptyPolicy
<1>5. IsArray(rows) /\ Len(rows) \in Nat
  BY <1>4, LaunchAssumption, EmptyFacts DEF GwInv, GwTypes, IsArray
<1> HIDE DEF rows
<1>6. /\ policy.proofs \in Seq(ProofSlots(Objects(rows))) /\ Len(policy.proofs) = Len(rows)
      /\ \A k \in 1 .. Len(rows) : policy.proofs[k] = Bare(rows[k])
  BY <1>4, <1>5, ProofsKept
<1> DEFINE K == {k \in 1 .. Len(policy.proofs) : policy.proofs[k].at = addr}
           hits == Selected(policy.proofs, K)
<1>7. \A k \in 1 .. Len(rows) : (k \in K <=> rows[k].at = addr) /\ policy.proofs[k].pi = rows[k].pi
  <2> TAKE k \in 1 .. Len(rows)
  <2>1. policy.proofs[k] = [at |-> rows[k].at, pi |-> rows[k].pi]
    BY <1>6 DEF Bare
  <2>2. policy.proofs[k].at = rows[k].at /\ policy.proofs[k].pi = rows[k].pi
    BY <2>1
  <2>3. k \in 1 .. Len(policy.proofs)
    BY <1>6
  <2> QED
    BY <2>2, <2>3
<1>8. \E k \in 1 .. Len(rows) : k \in K
  BY <1>2, <1>7
<1>9. required_proof_pi(policy, addr) = IF hits = <<>> THEN Missing ELSE hits[1].pi
  BY DEF required_proof_pi, Where
<1>10. Copied(policy.proofs, ProofSlots(Objects(rows)), K, Len(rows), hits)
  BY <1>6, SelectedFacts
<1> HIDE DEF K, hits
<1>11. PICK i \in 1 .. Len(rows) : i \in K /\ hits[1] = policy.proofs[i] /\ hits # <<>>
  BY <1>8, <1>10 DEF Copied
<1> DEFINE pi == required_proof_pi(policy, addr)
<1>12. pi = rows[i].pi /\ rows[i].at = last.at /\ pi # Missing
  BY <1>2, <1>7, <1>9, <1>11 DEF WellFormed
<1>13. pi \in named
  BY <1>12
<1>14. crypto_verify_proof(m.ci.proof, pi, crypto_proof_message(m.path, m.payload))
  BY <1>2, <1>12 DEF Seen
<1> HIDE DEF pi
<1>15. /\ m.ci.proof # NoProof /\ m.ci.proof.sig # Missing
       /\ Point(m.ci.proof.sig.by).x = pi
       /\ m.ci.proof.sig.msg = <<m.path, m.payload>>
  BY <1>14 DEF crypto_verify_proof, proof_fields, crypto_pi_matches, crypto_verify_message,
               crypto_service_public_key, crypto_proof_message
<1>16. m.ci.proof.made = <<m.path, m.payload>>
  <2> DEFINE made == m.ci.proof.made
  <2>1. made = <<made[1], made[2]>> /\ m.ci.proof.sig.msg = <<made[1], made[2]>>
    BY <1>15, SignatureAssumption DEF crypto_proof_message
  <2> QED
    BY <1>15, <2>1
<1> QED
  BY <1>2, <1>13, <1>15, <1>16 DEF ProvenBy

(* The decision on a credential that speaks for one class. *)
Speaks(p, cred, c) ==
  /\ cred.cv = "ye" /\ cred.ci # Empty /\ p.classes[c].cr = cred.id
  /\ \A d \in 1 .. c - 1 : p.classes[d].cr # cred.id
  /\ \A j \in 1 .. Len(p.credentials) : p.credentials[j].ci = cred.ci => p.credentials[j] = cred

Decided(p, cred, c, addr, e) ==
  /\ LastHit(Applicable(p, p.classes[c]), addr, e)
  /\ authorize(p, [token |-> cred.ci, proof |-> NoProof], Empty, addr) <=> e.vn = "fl"

LEMMA Decision ==
  ASSUME NEW p, Sized(p), p.loaded = TRUE, NEW c \in 1 .. Len(p.classes), NEW k \in 1 .. Len(p.credentials),
         NEW addr, NEW cred, cred = p.credentials[k], Speaks(p, cred, c), Hit(Applicable(p, p.classes[c]), addr)
  PROVE  \E e : Decided(p, cred, c, addr, e)
<1> USE DEF Speaks
<1> DEFINE msg == [token |-> cred.ci, proof |-> NoProof]
           KC == {i \in 1 .. Len(p.credentials) : credential_matches(p.credentials[i].ci, msg)}
           creds == Selected(p.credentials, KC)
<1>1. PICK S : p.credentials \in Seq(S)
  BY DEF Sized
<1>2. PICK C : p.classes \in Seq(C) /\ Len(p.classes) \in Nat
  BY EmptyFacts DEF Sized
<1>3. Copied(p.credentials, S, KC, Len(p.credentials), creds)
  BY <1>1, SelectedFacts
<1>4. k \in KC /\ \A i \in KC : i \in 1 .. Len(p.credentials) /\ p.credentials[i] = cred
  BY DEF credential_matches
<1> HIDE DEF KC, creds
<1>5. creds # <<>> /\ creds[1] = cred
  BY <1>3, <1>4 DEF Copied
<1> DEFINE KL == {i \in 1 .. Len(p.classes) : p.classes[i].cr = creds[1].id}
           classes == Selected(p.classes, KL)
<1>6. Copied(p.classes, C, KL, Len(p.classes), classes)
  BY <1>2, SelectedFacts
<1>7. c \in KL /\ \A d \in 1 .. c - 1 : d \notin KL
  BY <1>5
<1>8. KL \subseteq 1 .. Len(p.classes)
  OBVIOUS
<1> HIDE DEF KL, classes
<1>9. classes # <<>> /\ classes[1] = p.classes[c]
  <2>1. PICK i \in 1 .. Len(p.classes) : i \in KL /\ classes[1] = p.classes[i] /\ \A h \in 1 .. i - 1 : h \notin KL
    BY <1>6, <1>7 DEF Copied
  <2>2. i = c
    BY <1>2, <1>7, <2>1
  <2> QED
    BY <1>6, <1>7, <2>1, <2>2 DEF Copied
<1> DEFINE app == Applicable(p, p.classes[c])
           KP == {i \in 1 .. Len(app) : app[i].lo = addr}
           perms == Selected(app, KP)
<1>10. PICK R : app \in Seq(R)
  BY WritesFacts
<1>11. Copied(app, R, KP, Len(app), perms)
  BY <1>10, SelectedFacts
<1>12. \E i \in 1 .. Len(app) : i \in KP
  BY DEF Hit
<1>13. \A i \in 1 .. Len(app) : i \in KP <=> app[i].lo = addr
  OBVIOUS
<1> HIDE DEF KP, perms, app
<1>14. PICK i \in 1 .. Len(app) : i \in KP /\ perms[Len(perms)] = app[i] /\ \A h \in i + 1 .. Len(app) : h \notin KP
  BY <1>11, <1>12 DEF Copied
<1>15. LastHit(app, addr, app[i])
  <2>1. \A h \in i + 1 .. Len(app) : h \in 1 .. Len(app)
    OBVIOUS
  <2> QED
    BY <1>13, <1>14, <2>1 DEF LastHit
<1>16. perms # <<>>
  BY <1>11, <1>12 DEF Copied
<1>17. perms = Selected(Applicable(p, classes[1]), {j \in 1 .. Len(Applicable(p, classes[1])) : Applicable(p, classes[1])[j].lo = addr})
  BY <1>9 DEF perms, KP, app
<1>18. authorize(p, msg, Empty, addr) <=>
         /\ p.loaded /\ (msg.token # Empty \/ msg.proof # NoProof)
         /\ creds # <<>> /\ creds[1].cv = "ye"
         /\ classes # <<>> /\ Empty \in {Empty, classes[1].fn}
         /\ perms # <<>> /\ perms[Len(perms)].vn = "fl"
  BY <1>17 DEF authorize, Where, creds, KC, classes, KL, Last
<1>19. authorize(p, msg, Empty, addr) <=> app[i].vn = "fl"
  BY <1>5, <1>9, <1>14, <1>16, <1>18
<1> QED
  BY <1>15, <1>19 DEF app, Decided

LEMMA GwInvWalks == ASSUME GwInv PROVE WalksAgree
<1> SUFFICES ASSUME gpc = "serve", NEW r \in MapRow, NEW c \in 1 .. Len(policy.classes),
                    NEW k \in 1 .. Len(policy.credentials),
                    r \in FirstAt(BmRows[r].addr), SoleClass(c, BmRows[r].addr),
                    SpeaksFor(policy.credentials[k], c)
             PROVE  at[r] = "fl" <=>
                      authorize(policy, [token |-> policy.credentials[k].ci, proof |-> NoProof], Empty, BmRows[r].addr)
  BY DEF WalksAgree
<1> DEFINE addr == BmRows[r].addr
           cred == policy.credentials[k]
           w == Writes(policy)
<1>1. policy = load_policy(files.policy) /\ Sized(policy)
  BY PolicySized DEF GwInv, GwTypes, Tables
<1>2. policy.loaded = TRUE
  <2>1. files.policy \in {NoFile, Unreadable} => Len(policy.classes) = 0
    BY <1>1 DEF load_policy, EmptyPolicy
  <2>2. files.policy \notin {NoFile, Unreadable} => policy.loaded = TRUE
    BY <1>1 DEF load_policy
  <2>3. Len(policy.classes) # 0
    OBVIOUS
  <2> QED
    BY <2>1, <2>2, <2>3
<1>3. /\ Hit(Applicable(policy, policy.classes[c]), addr)
      /\ \A d \in 1 .. Len(policy.classes) : d # c => ~Hit(Applicable(policy, policy.classes[d]), addr)
  BY DEF SoleClass, Governs, Hit
<1> HIDE DEF addr, cred
<1>4. PICK e : Decided(policy, cred, c, addr, e)
  <2>1. cred = policy.credentials[k] /\ Speaks(policy, cred, c)
    BY DEF SpeaksFor, Speaks, cred
  <2> QED
    BY <1>1, <1>2, <1>3, <2>1, Decision
<1>5. LastHit(w, addr, e)
  BY <1>1, <1>3, <1>4, WritesFacts DEF Decided
<1>6. Written(w, Len(w), addr, at[r])
  BY DEF GwInv, Propagated, Propagation, addr
<1>7. at[r] = e.vn
  BY <1>5, <1>6 DEF LastHit, Written
<1> QED
  BY <1>4, <1>7 DEF Decided, addr, cred
=================================================================================
