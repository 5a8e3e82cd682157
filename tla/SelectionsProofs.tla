---------------------------- MODULE SelectionsProofs ----------------------------
(***************************************************************************)
(* What a selection holds, for every sequence and every set of positions.  *)
(* Induction over the length of a table is done by its least               *)
(* counterexample; that the recursion of Selected has a solution is proved *)
(* first, in the same way.                                                 *)
(***************************************************************************)
EXTENDS Selections, NaturalsInduction, WellFoundedInduction, TLAPS

(* A nonempty set of naturals has a least element. *)
LEMMA LeastOf ==
  ASSUME NEW T, T \subseteq Nat, T # {}
  PROVE  \E i \in T : \A j \in T : i <= j
<1>1. PICK i \in T : \A j \in T : ~(<<j, i>> \in OpToRel(<, Nat))
  BY WFMin, NatLessThanWellFounded, Zenon
<1>2. \A j \in T : j < i => <<j, i>> \in OpToRel(<, Nat)
  BY DEF OpToRel
<1>3. \A j \in T : ~(j < i)
  BY <1>1, <1>2, Zenon
<1> QED
  BY <1>3

LEMMA AppendFacts ==
  ASSUME NEW S, NEW s \in Seq(S), NEW x \in S
  PROVE  /\ Append(s, x) \in Seq(S) /\ Append(s, x) # <<>>
         /\ Len(s) \in Nat /\ Len(Append(s, x)) = Len(s) + 1
         /\ Append(s, x)[Len(s) + 1] = x
         /\ \A k \in 1 .. Len(s) : Append(s, x)[k] = s[k]
OBVIOUS

LEMMA EmptyFacts == \A S : \A s \in Seq(S) : Len(s) \in Nat /\ (s = <<>> <=> Len(s) = 0)
OBVIOUS

Upto(s, K) ==
  LET F[k \in 0 .. Len(s)] ==
        IF k = 0 THEN <<>>
        ELSE IF k \in K THEN Append(F[k - 1], s[k]) ELSE F[k - 1]
  IN  F
UptoStep(s, K, k, f) ==
  IF k = 0 THEN <<>> ELSE IF k \in K THEN Append(f[k - 1], s[k]) ELSE f[k - 1]

(* The recursion has a solution. *)
LEMMA UptoDef ==
  ASSUME NEW s, NEW K, Len(s) \in Nat
  PROVE  /\ Selected(s, K) = Upto(s, K)[Len(s)]
         /\ \A k \in 0 .. Len(s) : Upto(s, K)[k] = UptoStep(s, K, k, Upto(s, K))
<1> DEFINE Good(n, f) == f = [k \in 0 .. n |-> UptoStep(s, K, k, f)]
           Bad == {n \in Nat : ~ \E f : Good(n, f)}
<1>1. Bad = {}
  <2> SUFFICES ASSUME Bad # {} PROVE FALSE
    OBVIOUS
  <2>1. PICK n \in Bad : \A j \in Bad : n <= j
    BY LeastOf
  <2>2. CASE n = 0
    <3>1. Good(0, [k \in 0 .. 0 |-> <<>>])
      BY DEF UptoStep
    <3> QED
      BY <2>1, <2>2, <3>1
  <2>3. CASE n # 0
    <3>1. n - 1 \in Nat /\ n - 1 \notin Bad
      BY <2>1, <2>3
    <3>2. PICK f : Good(n - 1, f)
      BY <3>1
    <3> DEFINE g == [k \in 0 .. n |-> IF k = n THEN UptoStep(s, K, n, f) ELSE f[k]]
    <3>3. \A k \in 0 .. n - 1 : k \in 0 .. n /\ k # n
      BY <3>1
    <3>4. \A k \in 0 .. n - 1 : f[k] = UptoStep(s, K, k, f)
      <4> HIDE DEF UptoStep
      <4> QED
        BY <3>2
    <3>5. \A k \in 0 .. n - 1 : g[k] = f[k]
      BY <3>3
    <3>6. \A k \in 0 .. n : k = 0 \/ k - 1 \in 0 .. n - 1
      BY <3>1
    <3> HIDE DEF g
    <3>7. \A k \in 0 .. n : UptoStep(s, K, k, g) = UptoStep(s, K, k, f)
      BY <3>5, <3>6 DEF UptoStep
    <3>8. \A k \in 0 .. n : k = n \/ k \in 0 .. n - 1
      BY <3>1
    <3>9. g[n] = UptoStep(s, K, n, f)
      BY <3>1 DEF g
    <3>10. \A k \in 0 .. n : g[k] = UptoStep(s, K, k, g)
      BY <3>4, <3>5, <3>7, <3>8, <3>9
    <3>11. Good(n, g)
      <4>1. g = [k \in 0 .. n |-> g[k]]
        BY DEF g
      <4> QED
        BY <3>10, <4>1
    <3> QED
      BY <2>1, <3>11
  <2> QED
    BY <2>2, <2>3
<1>2. \E f : Good(Len(s), f)
  BY <1>1
<1>3. Upto(s, K) = CHOOSE f : Good(Len(s), f)
  BY DEF Upto, UptoStep
<1>4. Good(Len(s), Upto(s, K))
  BY <1>2, <1>3
<1>5. \A k \in 0 .. Len(s) : Upto(s, K)[k] = UptoStep(s, K, k, Upto(s, K))
  <2> HIDE DEF UptoStep, Upto
  <2> QED
    BY <1>4
<1>6. Selected(s, K) = Upto(s, K)[Len(s)]
  BY DEF Selected, Upto
<1> QED
  BY <1>5, <1>6

(* What has been copied after k positions. *)
Copied(s, S, K, k, t) ==
  /\ t \in Seq(S)
  /\ \A j \in 1 .. Len(t) : \E i \in 1 .. k : i \in K /\ t[j] = s[i]
  /\ t = <<>> <=> \A i \in 1 .. k : i \notin K
  /\ t # <<>> => \E i \in 1 .. k : i \in K /\ t[1] = s[i] /\ \A h \in 1 .. i - 1 : h \notin K
  /\ t # <<>> => \E i \in 1 .. k : i \in K /\ t[Len(t)] = s[i] /\ \A h \in i + 1 .. k : h \notin K
  /\ (\A i \in 1 .. k : i \in K) => Len(t) = k /\ \A j \in 1 .. k : t[j] = s[j]

LEMMA CopiedStep ==
  ASSUME NEW S, NEW s \in Seq(S), NEW K, NEW k \in 1 .. Len(s), NEW t, Copied(s, S, K, k - 1, t)
  PROVE  Copied(s, S, K, k, IF k \in K THEN Append(t, s[k]) ELSE t)
<1>1. /\ s[k] \in S /\ t \in Seq(S) /\ k \in Nat \ {0} /\ Len(t) \in Nat
      /\ \A i \in 1 .. k : i = k \/ i \in 1 .. k - 1
      /\ \A i \in 1 .. k - 1 : i \in 1 .. k
      /\ k \in 1 .. k
  BY DEF Copied
<1>2. CASE k \notin K
  BY <1>1, <1>2 DEF Copied
<1>3. CASE k \in K
  <2> DEFINE u == Append(t, s[k])
  <2>1. /\ u \in Seq(S) /\ u # <<>> /\ Len(u) = Len(t) + 1 /\ u[Len(t) + 1] = s[k]
        /\ \A j \in 1 .. Len(t) : u[j] = t[j]
    BY <1>1, AppendFacts
  <2> HIDE DEF u
  <2>2. \A j \in 1 .. Len(u) : j = Len(t) + 1 \/ j \in 1 .. Len(t)
    BY <1>1, <2>1
  <2>3. \A j \in 1 .. Len(u) : \E i \in 1 .. k : i \in K /\ u[j] = s[i]
    <3> SUFFICES ASSUME NEW j \in 1 .. Len(u)
                 PROVE  \E i \in 1 .. k : i \in K /\ u[j] = s[i]
      OBVIOUS
    <3>1. CASE j = Len(t) + 1
      BY <1>1, <1>3, <2>1, <3>1
    <3>2. CASE j \in 1 .. Len(t)
      <4>1. PICK i \in 1 .. k - 1 : i \in K /\ t[j] = s[i]
        BY <3>2 DEF Copied
      <4> QED
        BY <1>1, <2>1, <3>2, <4>1
    <3> QED
      BY <2>2, <3>1, <3>2
  <2>4. \E i \in 1 .. k : i \in K /\ u[1] = s[i] /\ \A h \in 1 .. i - 1 : h \notin K
    <3>1. CASE t = <<>>
      <4>1. u[1] = s[k] /\ \A h \in 1 .. k - 1 : h \notin K
        BY <1>1, <2>1, <3>1, EmptyFacts DEF Copied
      <4> QED
        BY <1>1, <1>3, <4>1
    <3>2. CASE t # <<>>
      <4>1. u[1] = t[1]
        BY <1>1, <2>1, <3>2, EmptyFacts
      <4> QED
        BY <1>1, <3>2, <4>1 DEF Copied
    <3> QED
      BY <3>1, <3>2
  <2>5. (\A i \in 1 .. k : i \in K) => Len(u) = k /\ \A j \in 1 .. k : u[j] = s[j]
    <3> SUFFICES ASSUME \A i \in 1 .. k : i \in K
                 PROVE  Len(u) = k /\ \A j \in 1 .. k : u[j] = s[j]
      OBVIOUS
    <3>1. Len(t) = k - 1 /\ \A j \in 1 .. k - 1 : t[j] = s[j]
      BY <1>1 DEF Copied
    <3> QED
      BY <1>1, <2>1, <3>1
  <2>6. \E i \in 1 .. k : i \in K
    BY <1>1, <1>3
  <2>8. \E i \in 1 .. k : i \in K /\ u[Len(u)] = s[i] /\ \A h \in i + 1 .. k : h \notin K
    BY <1>1, <1>3, <2>1
  <2>7. Copied(s, S, K, k, u)
    BY <2>1, <2>3, <2>4, <2>5, <2>6, <2>8 DEF Copied
  <2> QED
    BY <1>3, <2>7 DEF u
<1> QED
  BY <1>2, <1>3

LEMMA SelectedFacts ==
  ASSUME NEW S, NEW s \in Seq(S), NEW K
  PROVE  Copied(s, S, K, Len(s), Selected(s, K))
<1>0. Len(s) \in Nat
  OBVIOUS
<1> DEFINE F == Upto(s, K)
           Bad == {k \in 0 .. Len(s) : ~Copied(s, S, K, k, F[k])}
<1>1. \A k \in 0 .. Len(s) : F[k] = UptoStep(s, K, k, F)
  BY <1>0, UptoDef
<1> HIDE DEF F
<1>2. Bad = {}
  <2> SUFFICES ASSUME Bad # {} PROVE FALSE
    OBVIOUS
  <2>0. Bad \subseteq Nat
    BY <1>0
  <2>1. PICK k \in Bad : \A j \in Bad : k <= j
    <3> HIDE DEF Bad
    <3> QED
      BY <2>0, LeastOf
  <2>2. CASE k = 0
    <3>1. F[0] = <<>>
      BY <1>0, <1>1 DEF UptoStep
    <3>2. <<>> \in Seq(S) /\ Len(<<>>) = 0
      OBVIOUS
    <3>3. Copied(s, S, K, 0, F[0])
      BY <3>1, <3>2 DEF Copied
    <3> QED
      BY <2>1, <2>2, <3>3
  <2>3. CASE k # 0
    <3>1. k \in 1 .. Len(s) /\ k - 1 \in 0 .. Len(s) /\ k - 1 \notin Bad
      BY <1>0, <2>1, <2>3
    <3>2. Copied(s, S, K, k - 1, F[k - 1])
      BY <3>1
    <3>3. F[k] = IF k \in K THEN Append(F[k - 1], s[k]) ELSE F[k - 1]
      BY <1>1, <2>1, <2>3 DEF UptoStep
    <3>4. Copied(s, S, K, k, F[k])
      BY <3>1, <3>2, <3>3, CopiedStep
    <3> QED
      BY <2>1, <3>4
  <2> QED
    BY <2>2, <2>3
<1>3. Copied(s, S, K, Len(s), F[Len(s)])
  BY <1>0, <1>2
<1>4. Selected(s, K) = F[Len(s)]
  BY <1>0, UptoDef DEF F
<1> QED
  BY <1>3, <1>4
=================================================================================
