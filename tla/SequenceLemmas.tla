--------------------------- MODULE SequenceLemmas ---------------------------
(***************************************************************************)
(* What the proofs of this project need about numbers and sequences beyond *)
(* the library's theorems.                                                 *)
(***************************************************************************)
EXTENDS SequencesExt, SequenceTheorems, FiniteSetTheorems, WellFoundedInduction, TLAPS

(* Every set of naturals has a least element. *)
LEMMA LeastNat ==
    ASSUME NEW T, T \subseteq Nat, T # {}
    PROVE  \E x \in T : \A y \in T : x <= y
<1>1. PICK x \in T : \A y \in T : ~(<<y, x>> \in OpToRel(<, Nat))
  BY NatLessThanWellFounded, WFMin, Zenon
<1>2. \A y \in T : ~(y < x)
  BY <1>1 DEF OpToRel
<1> QED
  BY <1>2

(* Induction: a set with 0 and with the successor of each of its members   *)
(* below n has every number up to n.                                       *)
LEMMA Climb ==
    ASSUME NEW n \in Nat, NEW T, 0 \in T,
           \A i \in 0..(n - 1) : i \in T => i + 1 \in T
    PROVE  \A i \in 0..n : i \in T
<1> DEFINE Bad == {i \in 0..n : i \notin T}
<1>1. SUFFICES ASSUME Bad # {} PROVE FALSE
  OBVIOUS
<1>2. Bad \subseteq Nat
  OBVIOUS
<1>3. PICK m \in Bad : \A y \in Bad : m <= y
  <2> HIDE DEF Bad
  <2> QED
    BY <1>1, <1>2, LeastNat
<1>4. m \in 0..n /\ m # 0
  BY <1>3
<1>5. m - 1 \in 0..(n - 1) /\ m - 1 \notin Bad
  BY <1>3, <1>4
<1>6. m - 1 \in T /\ (m - 1) + 1 = m
  BY <1>4, <1>5
<1>7. m \in T
  BY <1>5, <1>6
<1> QED
  BY <1>3, <1>7

-----------------------------------------------------------------------------
(* FlattenSeq: the partial concatenations exist, and it is the last one. *)
Flattens(f, seqs, n) ==
    \A i \in 1..n : f[i] = IF i = 1 THEN seqs[i] ELSE f[i - 1] \o seqs[i]

LEMMA FlattenExists ==
    ASSUME NEW S, NEW seqs \in Seq(Seq(S)), Len(seqs) # 0
    PROVE  \E f \in [1..Len(seqs) -> Seq(S)] :
              f = [i \in 1..Len(seqs) |-> IF i = 1 THEN seqs[i] ELSE f[i - 1] \o seqs[i]]
<1> DEFINE n == Len(seqs)
           T == {k \in 0..n : \E f \in [1..k -> Seq(S)] : Flattens(f, seqs, k)}
<1>1. n \in Nat /\ \A i \in 1..n : seqs[i] \in Seq(S)
  OBVIOUS
<1>2. 0 \in T
  <2> DEFINE e == [i \in 1..0 |-> <<>>]
  <2>1. Flattens(e, seqs, 0) /\ e \in [1..0 -> Seq(S)] /\ 0 \in 0..n
    BY <1>1 DEF Flattens
  <2> HIDE DEF e
  <2> QED
    BY <2>1
<1>3. ASSUME NEW k \in 0..(n - 1), k \in T PROVE k + 1 \in T
  <2>1. PICK f \in [1..k -> Seq(S)] : Flattens(f, seqs, k)
    BY <1>3
  <2> DEFINE new == IF k + 1 = 1 THEN seqs[k + 1] ELSE f[k] \o seqs[k + 1]
             g == [i \in 1..(k + 1) |-> IF i = k + 1 THEN new ELSE f[i]]
  <2>2. k \in Nat /\ seqs[k + 1] \in Seq(S) /\ k + 1 \in 0..n
    BY <1>1
  <2>3. new \in Seq(S)
    <3>1. CASE k = 0
      BY <3>1, <2>2
    <3>2. CASE k # 0
      <4>1. f[k] \in Seq(S)
        BY <3>2, <2>2
      <4>2. f[k] \o seqs[k + 1] \in Seq(S)
        BY <4>1, <2>2, ConcatProperties
      <4> QED
        BY <4>2, <3>2, <2>2
    <3> QED
      BY <3>1, <3>2
  <2>4. g \in [1..(k + 1) -> Seq(S)]
    <3> HIDE DEF new
    <3> QED
      BY <2>2, <2>3
  <2>5. Flattens(g, seqs, k + 1)
    <3>1. ASSUME NEW i \in 1..(k + 1)
          PROVE  g[i] = IF i = 1 THEN seqs[i] ELSE g[i - 1] \o seqs[i]
      <4>1. CASE i = k + 1
        <5>1. g[i] = new
          BY <4>1, <2>2
        <5>2. CASE i = 1
          BY <5>1, <5>2, <4>1, <2>2
        <5>3. CASE i # 1
          <6>1. i - 1 \in 1..(k + 1) /\ i - 1 = k /\ k # k + 1
            BY <4>1, <5>3, <2>2
          <6>2. g[i - 1] = f[k]
            BY <6>1
          <6> QED
            BY <5>1, <5>3, <6>2, <4>1, <2>2
        <5> QED
          BY <5>2, <5>3
      <4>2. CASE i # k + 1
        <5>1. i \in 1..k /\ g[i] = f[i]
          BY <4>2, <2>2
        <5>2. i # 1 => i - 1 \in 1..(k + 1) /\ i - 1 # k + 1
          BY <5>1, <2>2
        <5>3. i # 1 => g[i - 1] = f[i - 1]
          BY <5>2
        <5>4. f[i] = IF i = 1 THEN seqs[i] ELSE f[i - 1] \o seqs[i]
          BY <2>1, <5>1 DEF Flattens
        <5> QED
          BY <5>1, <5>3, <5>4, Zenon
      <4> QED
        BY <4>1, <4>2
    <3> HIDE DEF g
    <3> QED
      BY <3>1 DEF Flattens
  <2> HIDE DEF g
  <2> QED
    BY <2>2, <2>4, <2>5
<1>4. n \in T
  <2> HIDE DEF T
  <2>1. n \in Nat /\ n \in 0..n
    BY <1>1
  <2> HIDE DEF n
  <2> QED
    BY <1>2, <1>3, <2>1, Climb
<1>5. PICK f \in [1..n -> Seq(S)] : Flattens(f, seqs, n)
  BY <1>4
<1>6. f = [i \in 1..n |-> IF i = 1 THEN seqs[i] ELSE f[i - 1] \o seqs[i]]
  BY <1>5 DEF Flattens
<1> QED
  BY <1>6

LEMMA FlattenSteps ==
    ASSUME NEW S, NEW seqs \in Seq(Seq(S)), Len(seqs) # 0
    PROVE  \E f \in [1..Len(seqs) -> Seq(S)] :
              /\ Flattens(f, seqs, Len(seqs))
              /\ FlattenSeq(seqs) = f[Len(seqs)]
<1> DEFINE n == Len(seqs)
           P(f) == f = [i \in 1..n |-> IF i = 1 THEN seqs[i] ELSE f[i - 1] \o seqs[i]]
           F == CHOOSE f : P(f)
<1>1. FlattenSeq(seqs) = F[n]
  BY DEF FlattenSeq
<1>2. PICK g \in [1..n -> Seq(S)] : P(g)
  BY FlattenExists
<1>3. P(F)
  <2> HIDE DEF P
  <2> QED
    BY <1>2
<1>4. n \in Nat /\ \A i \in 1..n : seqs[i] \in Seq(S)
  OBVIOUS
<1> HIDE DEF F
<1>5. Flattens(F, seqs, n) /\ DOMAIN F = 1..n
  BY <1>3, <1>4 DEF Flattens
<1> DEFINE T == {k \in 0..n : \A i \in 1..k : F[i] \in Seq(S)}
<1>6. 0 \in T
  BY <1>4
<1>7. ASSUME NEW k \in 0..(n - 1), k \in T PROVE k + 1 \in T
  <2>1. k \in Nat /\ k + 1 \in 1..n /\ k + 1 \in 0..n /\ \A i \in 1..k : F[i] \in Seq(S)
    BY <1>4, <1>7
  <2>2. F[k + 1] = IF k + 1 = 1 THEN seqs[k + 1] ELSE F[(k + 1) - 1] \o seqs[k + 1]
    BY <2>1, <1>5 DEF Flattens
  <2>3. seqs[k + 1] \in Seq(S) /\ (k + 1) - 1 = k
    BY <2>1, <1>4
  <2>4. F[k + 1] \in Seq(S)
    <3>1. CASE k = 0
      BY <3>1, <2>2, <2>3
    <3>2. CASE k # 0
      <4>1. k \in 1..k /\ k + 1 # 1
        BY <3>2, <2>1
      <4>2. F[k] \in Seq(S)
        BY <4>1, <2>1
      <4>3. F[k] \o seqs[k + 1] \in Seq(S)
        BY <4>2, <2>3, ConcatProperties
      <4> QED
        BY <2>2, <2>3, <4>1, <4>3
    <3> QED
      BY <3>1, <3>2
  <2> QED
    BY SMTT(40), <2>1, <2>4
<1>8. n \in T
  <2>1. n \in 0..n
    BY <1>4
  <2> HIDE DEF T, n
  <2> QED
    BY <1>4, <1>6, <1>7, <2>1, Climb
<1>9. F = [i \in 1..n |-> F[i]] /\ \A i \in 1..n : F[i] \in Seq(S)
  BY <1>3, <1>8
<1>10. F \in [1..n -> Seq(S)]
  BY <1>9
<1> QED
  BY <1>1, <1>5, <1>10

(* FlattenSeq: type, and what it does to an element at the end. *)
LEMMA FlattenEmpty == FlattenSeq(<<>>) = <<>>
BY DEF FlattenSeq

LEMMA FlattenType ==
    ASSUME NEW S, NEW seqs \in Seq(Seq(S))
    PROVE  FlattenSeq(seqs) \in Seq(S)
<1>1. CASE Len(seqs) = 0
  <2>1. FlattenSeq(seqs) = seqs /\ seqs = <<>>
    BY <1>1 DEF FlattenSeq
  <2> QED
    BY <2>1
<1>2. CASE Len(seqs) # 0
  <2>1. PICK f \in [1..Len(seqs) -> Seq(S)] : FlattenSeq(seqs) = f[Len(seqs)]
    BY <1>2, FlattenSteps
  <2>2. Len(seqs) \in 1..Len(seqs)
    BY <1>2
  <2> QED
    BY <2>1, <2>2
<1> QED
  BY <1>1, <1>2

LEMMA FlattenAppend ==
    ASSUME NEW S, NEW seqs \in Seq(Seq(S)), NEW t \in Seq(S)
    PROVE  FlattenSeq(Append(seqs, t)) = FlattenSeq(seqs) \o t
<1> DEFINE n == Len(seqs)
           more == Append(seqs, t)
<1>1. /\ n \in Nat /\ more \in Seq(Seq(S)) /\ Len(more) = n + 1 /\ more[n + 1] = t
      /\ \A i \in 1..n : more[i] = seqs[i]
  OBVIOUS
<1>2. PICK g \in [1..(n + 1) -> Seq(S)] :
        Flattens(g, more, n + 1) /\ FlattenSeq(more) = g[n + 1]
  <2>1. Len(more) # 0
    BY <1>1
  <2> HIDE DEF more
  <2> QED
    BY <1>1, <2>1, FlattenSteps
<1>3. g[n + 1] = IF n + 1 = 1 THEN more[n + 1] ELSE g[(n + 1) - 1] \o more[n + 1]
  <2>1. n + 1 \in 1..(n + 1) /\ Flattens(g, more, n + 1)
    BY <1>1, <1>2
  <2> HIDE DEF more, n
  <2> QED
    BY <2>1 DEF Flattens
<1>4. CASE n = 0
  <2>1. FlattenSeq(seqs) = <<>>
    <3>1. seqs = <<>>
      BY <1>4
    <3> QED
      BY <3>1, FlattenEmpty
  <2>2. FlattenSeq(more) = t
    BY <1>1, <1>2, <1>3, <1>4
  <2> QED
    BY <2>1, <2>2, ConcatEmptySeq
<1>5. CASE n # 0
  <2>1. PICK f \in [1..n -> Seq(S)] : Flattens(f, seqs, n) /\ FlattenSeq(seqs) = f[n]
    BY <1>5, FlattenSteps
  <2> DEFINE T == {k \in 0..n : k # 0 => f[k] = g[k]}
  <2>2. 0 \in T
    BY <1>1
  <2>3. ASSUME NEW k \in 0..(n - 1), k \in T PROVE k + 1 \in T
    <3>1. k + 1 \in 1..n /\ k + 1 \in 1..(n + 1) /\ (k + 1) - 1 = k /\ k + 1 \in 0..n
      BY <1>1
    <3>2. f[k + 1] = IF k + 1 = 1 THEN seqs[k + 1] ELSE f[(k + 1) - 1] \o seqs[k + 1]
      BY <2>1, <3>1 DEF Flattens
    <3>3. g[k + 1] = IF k + 1 = 1 THEN more[k + 1] ELSE g[(k + 1) - 1] \o more[k + 1]
      BY <1>2, <3>1 DEF Flattens
    <3>4. more[k + 1] = seqs[k + 1] /\ (k + 1 # 1 => f[k] = g[k])
      BY <1>1, <2>3, <3>1
    <3>5. f[k + 1] = g[k + 1]
      <4> HIDE DEF more
      <4> QED
        BY <3>1, <3>2, <3>3, <3>4
    <3> QED
      BY <3>1, <3>5
  <2>4. n \in T
    <3>1. n \in 0..n
      BY <1>1
    <3> HIDE DEF T, n
    <3> QED
      BY <1>1, <2>2, <2>3, <3>1, Climb
  <2>5. f[n] = g[n] /\ n + 1 # 1 /\ (n + 1) - 1 = n
    BY <2>4, <1>1, <1>5
  <2>6. g[n + 1] = g[n] \o t
    <3> HIDE DEF more, n
    <3> QED
      BY <1>1, <1>3, <2>5
  <2> QED
    BY <1>2, <2>1, <2>5, <2>6, Zenon
<1> QED
  BY <1>4, <1>5

(* Concatenation is associative, with the equation as a predicate: the     *)
(* provers instantiate it where the equation itself gets in their way.     *)
Assoc(s, t, u) == (s \o t) \o u = s \o (t \o u)

LEMMA Regroup ==
    ASSUME NEW S, NEW s \in Seq(S), NEW t \in Seq(S), NEW u \in Seq(S)
    PROVE  Assoc(s, t, u)
BY DEF Assoc

(* The concatenation of two lists of sequences. *)
LEMMA FlattenConcat ==
    ASSUME NEW S, NEW a \in Seq(Seq(S)), NEW b \in Seq(Seq(S))
    PROVE  FlattenSeq(a \o b) = FlattenSeq(a) \o FlattenSeq(b)
<1> DEFINE n == Len(b)
           T == {k \in 0..n : FlattenSeq(a \o SubSeq(b, 1, k))
                                = FlattenSeq(a) \o FlattenSeq(SubSeq(b, 1, k))}
<1>1. n \in Nat /\ FlattenSeq(a) \in Seq(S)
  BY FlattenType
<1>2. 0 \in T
  <2>1. SubSeq(b, 1, 0) = <<>> /\ a \o <<>> = a /\ FlattenSeq(a) \o <<>> = FlattenSeq(a)
    BY <1>1, ConcatEmptySeq, SubSeqEmpty
  <2>2. FlattenSeq(a \o SubSeq(b, 1, 0)) = FlattenSeq(a) \o FlattenSeq(SubSeq(b, 1, 0))
    BY <2>1, FlattenEmpty, Zenon
  <2>3. 0 \in 0..n
    BY <1>1
  <2> QED
    BY <2>2, <2>3
<1>3. ASSUME NEW k \in 0..(n - 1), k \in T PROVE k + 1 \in T
  <2> DEFINE p == SubSeq(b, 1, k)
             q == SubSeq(b, 1, k + 1)
             t == b[k + 1]
  <2>1. k \in Nat /\ k + 1 \in 0..n /\ k + 1 \in 1..n
    BY <1>1
  <2>2. p \in Seq(Seq(S)) /\ t \in Seq(S) /\ q = Append(p, t)
    BY <2>1, <1>1
  <2>3. a \o q = Append(a \o p, t) /\ a \o p \in Seq(Seq(S))
    <3> HIDE DEF p, q, t
    <3> QED
      BY SMTT(40), <2>2
  <2>4. FlattenSeq(q) = FlattenSeq(p) \o t /\ FlattenSeq(p) \in Seq(S)
    <3> HIDE DEF p, q, t
    <3> QED
      BY <2>2, FlattenAppend, FlattenType
  <2>5. FlattenSeq(a \o q) = FlattenSeq(a \o p) \o t
    <3> HIDE DEF p, q, t
    <3> QED
      BY <2>2, <2>3, FlattenAppend
  <2>6. FlattenSeq(a \o p) = FlattenSeq(a) \o FlattenSeq(p)
    BY <1>3
  <2>7. (FlattenSeq(a) \o FlattenSeq(p)) \o t = FlattenSeq(a) \o (FlattenSeq(p) \o t)
    <3> DEFINE fa == FlattenSeq(a)
               fp == FlattenSeq(p)
    <3>1. fa \in Seq(S) /\ fp \in Seq(S) /\ t \in Seq(S)
      BY <1>1, <2>2, <2>4
    <3> HIDE DEF p, q, t, fa, fp
    <3>2. Assoc(fa, fp, t)
      BY <3>1, Regroup, Zenon
    <3> QED
      BY <3>2, Zenon DEF fa, fp, Assoc
  <2>8. FlattenSeq(a \o q) = FlattenSeq(a) \o FlattenSeq(q)
    BY <2>4, <2>5, <2>6, <2>7, Zenon
  <2> QED
    BY <2>1, <2>8
<1>4. n \in T
  <2>1. n \in 0..n
    BY <1>1
  <2> HIDE DEF T, n
  <2> QED
    BY <1>1, <1>2, <1>3, <2>1, Climb
<1>5. SubSeq(b, 1, n) = b
  BY SubSeqFull
<1> QED
  BY <1>4, <1>5

(* A list of empty sequences. *)
LEMMA FlattenNone ==
    ASSUME NEW S, NEW seqs \in Seq(Seq(S)), \A i \in 1..Len(seqs) : seqs[i] = <<>>
    PROVE  FlattenSeq(seqs) = <<>>
<1> DEFINE n == Len(seqs)
<1>1. n \in Nat
  OBVIOUS
<1>2. CASE n = 0
  <2>1. seqs = <<>>
    BY <1>2
  <2> QED
    BY <2>1, FlattenEmpty
<1>3. CASE n # 0
  <2>1. PICK f \in [1..n -> Seq(S)] : Flattens(f, seqs, n) /\ FlattenSeq(seqs) = f[n]
    BY <1>3, FlattenSteps
  <2> DEFINE T == {k \in 0..n : k = 0 \/ f[k] = <<>>}
  <2>2. 0 \in T
    BY <1>1
  <2>3. ASSUME NEW i \in 0..(n - 1), i \in T PROVE i + 1 \in T
    <3>1. i + 1 \in 1..n /\ seqs[i + 1] = <<>> /\ (i = 0 \/ f[i] = <<>>) /\ (i + 1) - 1 = i /\ i \in Nat
      BY <1>1, <2>3
    <3>2. f[i + 1] = IF i + 1 = 1 THEN seqs[i + 1] ELSE f[i] \o seqs[i + 1]
      BY <2>1, <3>1 DEF Flattens
    <3>3. <<>> \o <<>> = <<>>
      OBVIOUS
    <3>4. f[i + 1] = <<>>
      <4>1. CASE i = 0
        BY <3>1, <3>2, <4>1
      <4>2. CASE i # 0
        BY <3>1, <3>2, <3>3, <4>2
      <4> QED
        BY <4>1, <4>2
    <3> QED
      BY <3>1, <3>4
  <2> HIDE DEF T
  <2>4. \A i \in 0..n : i \in T
    BY <1>1, <2>2, <2>3, Climb
  <2>5. n \in T
    BY <1>1, <2>4
  <2> QED
    BY <1>3, <2>1, <2>5 DEF T
<1> QED
  BY <1>2, <1>3

-----------------------------------------------------------------------------
(* Least and greatest elements, as Min and Max choose them. *)
LEMMA MinIs ==
    ASSUME NEW T, T \subseteq Nat, T # {}
    PROVE  Min(T) \in T /\ \A y \in T : Min(T) <= y
<1>1. \E x \in T : \A y \in T : x <= y
  BY LeastNat
<1> QED
  BY <1>1 DEF Min

LEMMA MaxIs ==
    ASSUME NEW n \in Nat, NEW T, T \subseteq 0..n, T # {}
    PROVE  Max(T) \in T /\ \A y \in T : y <= Max(T)
<1> DEFINE D == {n - x : x \in T}
<1>0. \A x \in T : x \in Nat /\ x <= n
  OBVIOUS
<1>1. D \subseteq Nat /\ D # {}
  <2>1. \A x \in T : n - x \in Nat
    BY <1>0
  <2>2. D \subseteq Nat
    BY <2>1
  <2>3. \E x : x \in T
    OBVIOUS
  <2>4. D # {}
    BY <2>3
  <2> QED
    BY <2>2, <2>4
<1>2. PICK d \in D : \A y \in D : d <= y
  <2> HIDE DEF D
  <2> QED
    BY <1>1, LeastNat
<1>3. PICK x \in T : d = n - x
  BY <1>2
<1>4. \A y \in T : y <= x
  <2> SUFFICES ASSUME NEW y \in T PROVE y <= x
    OBVIOUS
  <2>1. n - y \in D
    OBVIOUS
  <2>2. d <= n - y
    BY <1>2, <2>1
  <2>3. x \in Nat /\ y \in Nat
    OBVIOUS
  <2> QED
    BY <1>3, <2>2, <2>3
<1>5. \E z \in T : \A y \in T : z >= y
  <2>1. \A y \in T : y \in Nat /\ x \in Nat
    OBVIOUS
  <2> QED
    BY <1>4, <2>1
<1>6. Max(T) \in T /\ \A y \in T : Max(T) >= y
  BY <1>5 DEF Max
<1> DEFINE m == Max(T)
<1>7. m \in T /\ \A y \in T : m >= y
  BY <1>6
<1> HIDE DEF m
<1>8. m \in T /\ \A y \in T : y <= m
  BY <1>0, <1>7
<1> QED
  BY <1>8 DEF m

(* A finite set of naturals is bounded. *)
LEMMA MaxOfFinite ==
    ASSUME NEW T, T \subseteq Nat, T # {}, IsFiniteSet(T)
    PROVE  Max(T) \in T /\ \A y \in T : y <= Max(T)
<1> DEFINE c == Cardinality(T)
           P == {i \in 0..c : \A S \in SUBSET T : IsFiniteSet(S) /\ Cardinality(S) = i
                               => \E m \in Nat : \A x \in S : x <= m}
<1>0. c \in Nat
  BY FS_CardinalityType
<1>1. \E m \in Nat : \A x \in T : x <= m
  <2>1. 0 \in P
    <3>1. \A S \in SUBSET T : IsFiniteSet(S) /\ Cardinality(S) = 0 => S = {}
      BY FS_EmptySet
    <3>2. 0 \in Nat /\ 0 \in 0..c
      BY <1>0
    <3> QED
      BY <3>1, <3>2
  <2>2. ASSUME NEW i \in 0..(c - 1), i \in P PROVE i + 1 \in P
    <3>1. i + 1 \in 0..c /\ i \in Nat
      BY <1>0
    <3>2. ASSUME NEW S \in SUBSET T, IsFiniteSet(S), Cardinality(S) = i + 1
          PROVE  \E m \in Nat : \A x \in S : x <= m
      <4>1. S # {}
        BY <3>1, <3>2, FS_EmptySet
      <4>2. PICK y : y \in S
        BY <4>1
      <4>8. IsFiniteSet(S \ {y}) /\ Cardinality(S \ {y}) = Cardinality(S) - 1
        BY <3>2, <4>2, FS_RemoveElement
      <4>3. IsFiniteSet(S \ {y}) /\ Cardinality(S \ {y}) = i
        BY <3>1, <3>2, <4>8
      <4>4. PICK m \in Nat : \A x \in S \ {y} : x <= m
        BY <2>2, <4>3
      <4>5. y \in Nat /\ \A x \in S : x \in Nat
        BY <4>2
      <4>6. \A x \in S : x <= m + y
        BY <4>4, <4>5
      <4>7. m + y \in Nat
        BY <4>5
      <4> QED
        BY <4>6, <4>7
    <3> QED
      BY <3>1, <3>2
  <2>3. \A i \in 0..c : i \in P
    <3> HIDE DEF P, c
    <3> QED
      BY <1>0, <2>1, <2>2, Climb
  <2>4. c \in P
    BY <1>0, <2>3
  <2> QED
    BY <2>4
<1>2. PICK m \in Nat : \A x \in T : x <= m
  BY <1>1
<1>3. T \subseteq 0..m
  BY <1>2
<1> QED
  BY <1>3, MaxIs

LEMMA MinOfTwo ==
    ASSUME NEW a \in Int, NEW b \in Int
    PROVE  Min({a, b}) = IF a <= b THEN a ELSE b
<1>1. \E x \in {a, b} : \A y \in {a, b} : x =< y
  OBVIOUS
<1>2. Min({a, b}) \in {a, b} /\ \A y \in {a, b} : Min({a, b}) =< y
  BY <1>1 DEF Min
<1> QED
  BY <1>2

LEMMA MaxOfTwo ==
    ASSUME NEW a \in Int, NEW b \in Int
    PROVE  Max({a, b}) = IF a >= b THEN a ELSE b
<1>1. \E x \in {a, b} : \A y \in {a, b} : x >= y
  OBVIOUS
<1>2. Max({a, b}) \in {a, b} /\ \A y \in {a, b} : Max({a, b}) >= y
  BY <1>1 DEF Max
<1> QED
  BY <1>2

-----------------------------------------------------------------------------
(* FoldLeft is a function on the sets of places, its recursion the removal *)
(* of the last place. F stands for the operator that is folded, on the set *)
(* X where it is known to stay.                                            *)
Folded(F, base, seq, g, n) ==
    \A s \in SUBSET (1..n) :
        g[s] = IF s = {} THEN base ELSE F[<<g[s \ {Max(s)}], seq[Max(s)]>>]

LEMMA FoldExists ==
    ASSUME NEW X, NEW K, NEW F, \A x \in X, k \in K : F[<<x, k>>] \in X,
           NEW base \in X, NEW seq \in Seq(K)
    PROVE  \E g \in [SUBSET (1..Len(seq)) -> X] : Folded(F, base, seq, g, Len(seq))
<1> DEFINE n == Len(seq)
           T == {m \in 0..n : \E g \in [SUBSET (1..m) -> X] : Folded(F, base, seq, g, m)}
<1>1. n \in Nat /\ \A i \in 1..n : seq[i] \in K
  OBVIOUS
<1>2. 0 \in T
  <2> DEFINE e == [s \in SUBSET (1..0) |-> base]
  <2>1. \A s \in SUBSET (1..0) : s = {}
    OBVIOUS
  <2>2. Folded(F, base, seq, e, 0)
    BY <2>1 DEF Folded
  <2>3. e \in [SUBSET (1..0) -> X] /\ 0 \in 0..n
    BY <1>1
  <2> HIDE DEF e
  <2> QED
    BY <2>2, <2>3
<1>3. ASSUME NEW m \in 0..(n - 1), m \in T PROVE m + 1 \in T
  <2>1. PICK g \in [SUBSET (1..m) -> X] : Folded(F, base, seq, g, m)
    BY <1>3
  <2>2. m \in Nat /\ m + 1 \in 0..n /\ seq[m + 1] \in K
    BY <1>1
  <2> DEFINE k == seq[m + 1]
             h == [s \in SUBSET (1..(m + 1)) |->
                     IF m + 1 \in s THEN F[<<g[s \ {m + 1}], k>>] ELSE g[s]]
  <2>3. \A s \in SUBSET (1..(m + 1)) : s \ {m + 1} \in SUBSET (1..m)
    BY <2>2
  <2>4. \A s \in SUBSET (1..(m + 1)) : m + 1 \notin s => s \in SUBSET (1..m)
    BY <2>2
  <2>5. h \in [SUBSET (1..(m + 1)) -> X]
    <3>1. ASSUME NEW s \in SUBSET (1..(m + 1))
          PROVE  (IF m + 1 \in s THEN F[<<g[s \ {m + 1}], k>>] ELSE g[s]) \in X
      <4>1. CASE m + 1 \in s
        <5>1. g[s \ {m + 1}] \in X
          BY <2>3
        <5> QED
          BY <4>1, <5>1, <2>2
      <4>2. CASE m + 1 \notin s
        BY <4>2, <2>4
      <4> QED
        BY <4>1, <4>2
    <3> QED
      BY <3>1
  <2>6. ASSUME NEW s \in SUBSET (1..(m + 1)), s # {}
        PROVE  h[s] = F[<<h[s \ {Max(s)}], seq[Max(s)]>>]
    <3>1. s \subseteq 0..(m + 1) /\ m + 1 \in Nat
      BY <2>2
    <3>2. Max(s) \in s /\ \A y \in s : y <= Max(s)
      BY <2>6, <3>1, MaxIs
    <3>3. CASE m + 1 \in s
      <4>1. Max(s) = m + 1
        BY <3>2, <3>3, <2>2
      <4> DEFINE t == s \ {m + 1}
      <4>2. t \in SUBSET (1..(m + 1)) /\ m + 1 \notin t
        OBVIOUS
      <4>3. h[t] = g[t]
        BY <4>2
      <4>4. h[s] = F[<<g[t], k>>]
        BY <3>3
      <4> QED
        BY <4>1, <4>3, <4>4
    <3>4. CASE m + 1 \notin s
      <4>1. s \in SUBSET (1..m)
        BY <3>4, <2>4
      <4> DEFINE t == s \ {Max(s)}
      <4>2. t \in SUBSET (1..(m + 1)) /\ m + 1 \notin t
        BY <3>4
      <4>3. h[t] = g[t] /\ h[s] = g[s]
        BY <3>4, <4>2
      <4>4. g[s] = F[<<g[t], seq[Max(s)]>>]
        BY <2>1, <2>6, <4>1 DEF Folded
      <4> QED
        BY <4>3, <4>4
    <3> QED
      BY <3>3, <3>4
  <2>7. h[{}] = base
    <3>1. {} \in SUBSET (1..(m + 1)) /\ {} \in SUBSET (1..m)
      OBVIOUS
    <3>2. h[{}] = g[{}]
      BY <3>1
    <3> QED
      BY <2>1, <3>1, <3>2 DEF Folded
  <2> HIDE DEF h
  <2>8. Folded(F, base, seq, h, m + 1)
    BY <2>6, <2>7 DEF Folded
  <2> QED
    BY <2>2, <2>5, <2>8
<1>4. n \in T
  <2> HIDE DEF T
  <2>1. n \in Nat /\ n \in 0..n
    BY <1>1
  <2> HIDE DEF n
  <2> QED
    BY <1>2, <1>3, <2>1, Climb
<1> QED
  BY <1>4

Unfolds(X, F, base, seq, h) ==
    /\ h[{}] = base
    /\ \A s \in SUBSET (1..Len(seq)) : s # {} /\ h[s \ {Max(s)}] \in X =>
           h[s] = F[<<h[s \ {Max(s)}], seq[Max(s)]>>]

StepsOf(F, base, seq, v) ==
    v[0] = base /\ \A i \in 1..Len(seq) : v[i] = F[<<v[i - 1], seq[i]>>]

LEMMA FoldSteps ==
    ASSUME NEW X, NEW K, NEW F, \A x \in X, k \in K : F[<<x, k>>] \in X,
           NEW base \in X, NEW seq \in Seq(K), NEW h, Unfolds(X, F, base, seq, h)
    PROVE  \E v \in [0..Len(seq) -> X] : StepsOf(F, base, seq, v) /\ h[1..Len(seq)] = v[Len(seq)]
<1> USE DEF Unfolds, StepsOf
<1> DEFINE n == Len(seq)
           T == {i \in 0..n : h[1..i] \in X}
<1>1. n \in Nat /\ \A i \in 1..n : seq[i] \in K
  OBVIOUS
<1>2. 0 \in T
  <2>1. 1..0 = {} /\ 0 \in 0..n
    BY <1>1
  <2> QED
    BY <2>1, Zenon
<1>3. ASSUME NEW i \in 0..(n - 1), h[1..i] \in X
      PROVE  h[1..(i + 1)] = F[<<h[1..i], seq[i + 1]>>] /\ h[1..(i + 1)] \in X
  <2> DEFINE s == 1..(i + 1)
  <2>0. i \in Nat /\ i + 1 \in 1..n /\ i + 1 <= n
    BY <1>1
  <2>1. i \in Nat /\ i + 1 \in 1..n /\ s \in SUBSET (1..n) /\ s # {}
    <3>1. i + 1 \in s
      BY <2>0
    <3>2. \A j \in s : j \in 1..n
      BY <1>1, <2>0
    <3> HIDE DEF s
    <3> QED
      BY <2>0, <3>1, <3>2
  <2>2. Max(s) = i + 1
    <3>1. s \subseteq 0..(i + 1) /\ i + 1 \in Nat /\ i + 1 \in s
      BY <2>1
    <3>2. Max(s) \in s /\ \A y \in s : y <= Max(s)
      BY <2>1, <3>1, MaxIs
    <3> QED
      BY <2>1, <3>1, <3>2
  <2>3. s \ {i + 1} = 1..i
    BY <2>1
  <2>4. h[s] = F[<<h[1..i], seq[i + 1]>>]
    <3> HIDE DEF s
    <3> QED
      BY <1>3, <2>1, <2>2, <2>3
  <2>5. seq[i + 1] \in K
    BY <1>1, <2>1
  <2> QED
    BY <1>3, <2>4, <2>5
<1>4. \A i \in 0..(n - 1) : i \in T => i + 1 \in T
  <2> SUFFICES ASSUME NEW i \in 0..(n - 1), i \in T PROVE i + 1 \in T
    OBVIOUS
  <2>1. h[1..i] \in X /\ i + 1 \in 0..n
    BY <1>1
  <2>2. h[1..(i + 1)] \in X
    BY <1>3, <2>1
  <2> QED
    BY <2>1, <2>2
<1>5. \A i \in 0..n : i \in T
  <2> HIDE DEF T, n
  <2> QED
    BY <1>1, <1>2, <1>4, Climb
<1> DEFINE v == [i \in 0..n |-> h[1..i]]
<1>6. v \in [0..n -> X]
  BY <1>5
<1>7. v[0] = base
  <2>1. 1..0 = {} /\ 0 \in 0..n
    BY <1>1
  <2>2. v[0] = h[1..0]
    BY <2>1
  <2> QED
    BY <2>1, <2>2, Zenon
<1>8. \A i \in 1..n : v[i] = F[<<v[i - 1], seq[i]>>]
  <2> SUFFICES ASSUME NEW i \in 1..n PROVE v[i] = F[<<v[i - 1], seq[i]>>]
    OBVIOUS
  <2> DEFINE j == i - 1
  <2>1. j \in 0..(n - 1) /\ j \in 0..n /\ i \in 0..n /\ j + 1 = i
    BY <1>1
  <2>2. h[1..j] \in X
    BY <1>5, <2>1
  <2> HIDE DEF j
  <2>3. h[1..(j + 1)] = F[<<h[1..j], seq[j + 1]>>]
    BY <1>3, <2>1, <2>2
  <2>4. v[i] = h[1..i] /\ v[j] = h[1..j]
    BY <2>1
  <2>5. v[i] = F[<<v[j], seq[i]>>]
    BY <2>1, <2>3, <2>4
  <2> QED
    BY <2>5 DEF j
<1>9. h[1..n] = v[n]
  BY <1>1
<1> HIDE DEF v
<1> QED
  BY <1>6, <1>7, <1>8, <1>9

-----------------------------------------------------------------------------
(* Sums over the subsets of a finite set, as MapThenSumSet adds them up. *)
Sums(f, L, g) ==
    \A s \in SUBSET L :
        g[s] = IF s = {} THEN 0 ELSE f[CHOOSE x \in s : TRUE] + g[s \ {CHOOSE x \in s : TRUE}]

(* The subsets of L are reached one element at a time. *)
LEMMA SubsetsByOne ==
    ASSUME NEW L, IsFiniteSet(L), NEW P, {} \in P,
           \A s \in SUBSET L : s # {} /\ s \ {CHOOSE x \in s : TRUE} \in P => s \in P
    PROVE  \A s \in SUBSET L : s \in P
<1> DEFINE c == Cardinality(L)
           Q == {i \in 0..c : \A s \in SUBSET L : Cardinality(s) = i => s \in P}
<1>0. c \in Nat
  BY FS_CardinalityType
<1>1. \A s \in SUBSET L : IsFiniteSet(s) /\ Cardinality(s) \in Nat /\ Cardinality(s) <= c
  BY FS_Subset, FS_CardinalityType
<1>2. 0 \in Q
  BY <1>0, <1>1, FS_EmptySet
<1>3. ASSUME NEW i \in 0..(c - 1), i \in Q PROVE i + 1 \in Q
  <2>1. i + 1 \in 0..c /\ i \in Nat /\ i + 1 # 0
    BY <1>0
  <2>2. ASSUME NEW s \in SUBSET L, Cardinality(s) = i + 1 PROVE s \in P
    <3>1. s # {}
      BY <2>1, <2>2, FS_EmptySet
    <3> DEFINE x == CHOOSE y \in s : TRUE
    <3>2. x \in s
      BY <3>1
    <3> HIDE DEF x
    <3>3. IsFiniteSet(s)
      BY <1>1
    <3>4. Cardinality(s \ {x}) = Cardinality(s) - 1
      BY <3>2, <3>3, FS_RemoveElement
    <3>5. Cardinality(s \ {x}) = i /\ s \ {x} \in SUBSET L
      BY <2>1, <2>2, <3>4
    <3>6. s \ {x} \in P
      BY <1>3, <3>5
    <3> QED
      BY <3>1, <3>6 DEF x
  <2> QED
    BY <2>1, <2>2
<1>4. \A i \in 0..c : i \in Q
  <2> HIDE DEF Q, c
  <2> QED
    BY <1>0, <1>2, <1>3, Climb
<1> SUFFICES ASSUME NEW s \in SUBSET L PROVE s \in P
  OBVIOUS
<1>5. Cardinality(s) \in 0..c
  BY <1>0, <1>1
<1> QED
  BY <1>4, <1>5

(* The chosen element of a non-empty set. *)
LEMMA ChosenIn == \A s : s # {} => (CHOOSE x \in s : TRUE) \in s
OBVIOUS

LEMMA SumsExist ==
    ASSUME NEW L, IsFiniteSet(L), NEW f \in [L -> Int]
    PROVE  \E g \in [SUBSET L -> Int] : Sums(f, L, g)
<1> DEFINE c == Cardinality(L)
           Upto(i) == {s \in SUBSET L : Cardinality(s) <= i}
           el(s) == CHOOSE x \in s : TRUE
           Good(g, i) == \A s \in Upto(i) : g[s] = IF s = {} THEN 0 ELSE f[el(s)] + g[s \ {el(s)}]
           Q == {i \in 0..c : \E g \in [SUBSET L -> Int] : Good(g, i)}
<1>0. c \in Nat
  BY FS_CardinalityType
<1>1. \A s \in SUBSET L : IsFiniteSet(s) /\ Cardinality(s) \in Nat /\ Cardinality(s) <= c
  BY FS_Subset, FS_CardinalityType
<1>c. \A s \in SUBSET L : s # {} => /\ el(s) \in s /\ f[el(s)] \in Int
                                   /\ s \ {el(s)} \in SUBSET L
                                   /\ Cardinality(s \ {el(s)}) = Cardinality(s) - 1
  <2> SUFFICES ASSUME NEW s \in SUBSET L, s # {}
               PROVE  /\ el(s) \in s /\ f[el(s)] \in Int
                      /\ s \ {el(s)} \in SUBSET L
                      /\ Cardinality(s \ {el(s)}) = Cardinality(s) - 1
    OBVIOUS
  <2> DEFINE x == el(s)
  <2>1. x \in s
    BY ChosenIn
  <2> HIDE DEF x
  <2>2. Cardinality(s \ {x}) = Cardinality(s) - 1
    BY <2>1, <1>1, FS_RemoveElement
  <2>3. f[x] \in Int /\ s \ {x} \in SUBSET L
    BY <2>1
  <2> QED
    BY <2>1, <2>2, <2>3 DEF x
<1> HIDE DEF el
<1>2. 0 \in Q
  <2> DEFINE e == [s \in SUBSET L |-> 0]
  <2>1. \A s \in Upto(0) : s = {}
    <3> SUFFICES ASSUME NEW s \in Upto(0) PROVE s = {}
      OBVIOUS
    <3>1. Cardinality(s) = 0 /\ IsFiniteSet(s)
      BY <1>1
    <3> QED
      BY <3>1, FS_EmptySet
  <2>2. e \in [SUBSET L -> Int] /\ Good(e, 0)
    BY <2>1
  <2> HIDE DEF e, Good
  <2> QED
    BY <1>0, <2>2
<1>3. ASSUME NEW i \in 0..(c - 1), i \in Q PROVE i + 1 \in Q
  <2>1. i + 1 \in 0..c /\ i \in Nat
    BY <1>0
  <2>2. PICK g \in [SUBSET L -> Int] : Good(g, i)
    BY <1>3
  <2> DEFINE h == [s \in SUBSET L |-> IF Cardinality(s) = i + 1 THEN f[el(s)] + g[s \ {el(s)}]
                                      ELSE g[s]]
  <2>3. h \in [SUBSET L -> Int]
    <3>1. ASSUME NEW s \in SUBSET L, Cardinality(s) = i + 1 PROVE f[el(s)] + g[s \ {el(s)}] \in Int
      <4>0. Cardinality(s) # 0
        BY <3>1, <2>1
      <4>1. s # {}
        BY <4>0, FS_EmptySet
      <4>2. f[el(s)] \in Int /\ s \ {el(s)} \in SUBSET L
        BY <4>1, <1>c
      <4> QED
        BY <4>2
    <3> QED
      BY <3>1
  <2>4. \A s \in SUBSET L : Cardinality(s) # i + 1 => h[s] = g[s]
    OBVIOUS
  <2>5. \A s \in SUBSET L : Cardinality(s) = i + 1 => h[s] = f[el(s)] + g[s \ {el(s)}]
    OBVIOUS
  <2> HIDE DEF h
  <2>6. Good(h, i + 1)
    <3> SUFFICES ASSUME NEW s \in SUBSET L, Cardinality(s) <= i + 1
                 PROVE  h[s] = IF s = {} THEN 0 ELSE f[el(s)] + h[s \ {el(s)}]
      OBVIOUS
    <3>1. CASE s = {}
      <4>1. Cardinality(s) = 0
        BY <3>1, FS_EmptySet
      <4>2. s \in Upto(i)
        BY <4>1, <2>1
      <4> QED
        BY <3>1, <4>1, <4>2, <2>1, <2>2, <2>4
    <3>2. CASE s # {}
      <4> DEFINE t == s \ {el(s)}
      <4>1. t \in SUBSET L /\ Cardinality(t) = Cardinality(s) - 1
        BY <3>2, <1>c
      <4>2. h[t] = g[t]
        BY <4>1, <2>1, <2>4, <1>1
      <4>3. CASE Cardinality(s) = i + 1
        BY <3>2, <4>2, <4>3, <2>5
      <4>4. CASE Cardinality(s) # i + 1
        <5>1. s \in Upto(i)
          BY <4>4, <2>1, <1>1
        <5>2. g[s] = f[el(s)] + g[t]
          BY <5>1, <2>2, <3>2
        <5> QED
          BY <5>2, <4>2, <4>4, <2>4, <3>2
      <4> QED
        BY <4>3, <4>4
    <3> QED
      BY <3>1, <3>2
  <2> HIDE DEF Good
  <2> QED
    BY <2>1, <2>3, <2>6
<1>4. \A i \in 0..c : i \in Q
  <2> HIDE DEF Q, c
  <2> QED
    BY <1>0, <1>2, <1>3, Climb
<1>5. PICK g \in [SUBSET L -> Int] : Good(g, c)
  <2>1. c \in Q
    <3> HIDE DEF c, Q
    <3> QED
      BY <1>0, <1>4
  <2> QED
    BY <2>1
<1>6. Upto(c) = SUBSET L
  BY <1>1
<1>7. Sums(f, L, g)
  BY <1>5, <1>6 DEF Sums, el
<1> QED
  BY <1>7

(* Raising f by d at one place raises the sums over it by d. *)
RaisedAt(L, f, h, l, d) == \A x \in L : h[x] = IF x = l THEN f[x] + d ELSE f[x]

SumRaised(L, a, b, l, d) == \A s \in SUBSET L : a[s] \in Int /\ b[s] = IF l \in s THEN a[s] + d ELSE a[s]

LEMMA SumsDiffer ==
    ASSUME NEW L, IsFiniteSet(L), NEW f \in [L -> Int], NEW h \in [L -> Int],
           NEW a, Sums(f, L, a), NEW b, Sums(h, L, b),
           NEW l, NEW d \in Int, RaisedAt(L, f, h, l, d)
    PROVE  SumRaised(L, a, b, l, d)
<1> USE DEF RaisedAt, SumRaised
<1> DEFINE el(s) == CHOOSE x \in s : TRUE
           P == {s \in SUBSET L : a[s] \in Int /\ b[s] = IF l \in s THEN a[s] + d ELSE a[s]}
<1>0. \A s \in SUBSET L : s # {} => /\ a[s] = f[el(s)] + a[s \ {el(s)}]
                                   /\ b[s] = h[el(s)] + b[s \ {el(s)}]
                                   /\ el(s) \in s
  BY ChosenIn DEF Sums
<1>1. {} \in P
  <2>1. {} \in SUBSET L
    OBVIOUS
  <2>2. a[{}] = 0 /\ b[{}] = 0
    BY <2>1 DEF Sums
  <2> QED
    BY <2>1, <2>2
<1>2. \A s \in SUBSET L : s # {} /\ s \ {el(s)} \in P => s \in P
  <2> SUFFICES ASSUME NEW s \in SUBSET L, s # {}, s \ {el(s)} \in P PROVE s \in P
    OBVIOUS
  <2> DEFINE x == el(s)
             t == s \ {x}
  <2>1. a[s] = f[x] + a[t] /\ b[s] = h[x] + b[t] /\ x \in s
    BY <1>0
  <2>2. a[t] \in Int /\ b[t] = IF l \in t THEN a[t] + d ELSE a[t]
    OBVIOUS
  <2> HIDE DEF x
  <2>3. f[x] \in Int /\ h[x] = IF x = l THEN f[x] + d ELSE f[x]
    BY <2>1
  <2>4. l \in t <=> l \in s /\ l # x
    OBVIOUS
  <2>5. a[s] \in Int
    BY <2>1, <2>2, <2>3
  <2>6. b[s] = IF l \in s THEN a[s] + d ELSE a[s]
    <3>1. CASE l = x
      <4>1. h[x] = f[x] + d /\ b[t] = a[t]
        BY <3>1, <2>2, <2>3, <2>4
      <4> HIDE DEF t
      <4> QED
        BY <3>1, <4>1, <2>1, <2>2, <2>3
    <3>2. CASE l # x
      <4>1. h[x] = f[x] /\ b[t] = IF l \in s THEN a[t] + d ELSE a[t]
        BY <3>2, <2>2, <2>3, <2>4
      <4> HIDE DEF t
      <4> QED
        BY <3>2, <4>1, <2>1, <2>2, <2>3
    <3> QED
      BY <3>1, <3>2
  <2> QED
    BY <2>5, <2>6
<1>3. \A s \in SUBSET L : s \in P
  <2> HIDE DEF P
  <2> QED
    BY <1>1, <1>2, SubsetsByOne
<1> QED
  BY <1>3

(* A sum of numbers that are not positive is not positive. *)
LEMMA SumsBelow ==
    ASSUME NEW L, IsFiniteSet(L), NEW f \in [L -> Int], \A x \in L : f[x] <= 0,
           NEW a, Sums(f, L, a)
    PROVE  \A s \in SUBSET L : a[s] \in Int /\ a[s] <= 0
<1> DEFINE el(s) == CHOOSE x \in s : TRUE
           P == {s \in SUBSET L : a[s] \in Int /\ a[s] <= 0}
<1>0. \A s \in SUBSET L : s # {} => a[s] = f[el(s)] + a[s \ {el(s)}] /\ el(s) \in s
  BY ChosenIn DEF Sums
<1>1. {} \in P
  BY DEF Sums
<1>2. \A s \in SUBSET L : s # {} /\ s \ {el(s)} \in P => s \in P
  <2> SUFFICES ASSUME NEW s \in SUBSET L, s # {}, s \ {el(s)} \in P PROVE s \in P
    OBVIOUS
  <2> DEFINE x == el(s)
             t == s \ {x}
  <2>1. a[s] = f[x] + a[t] /\ x \in s
    BY <1>0
  <2>2. a[t] \in Int /\ a[t] <= 0
    OBVIOUS
  <2> HIDE DEF x, t
  <2>3. f[x] \in Int /\ f[x] <= 0
    BY <2>1
  <2> QED
    BY <2>1, <2>2, <2>3
<1>3. \A s \in SUBSET L : s \in P
  <2> HIDE DEF P
  <2> QED
    BY <1>1, <1>2, SubsetsByOne
<1> QED
  BY <1>3

-----------------------------------------------------------------------------
(* A finite set of naturals has an increasing enumeration. *)
Rises(s, S) ==
    /\ s \in [1..Cardinality(S) -> S]
    /\ \A i, j \in DOMAIN s : i < j => s[i] < s[j]
    /\ \A x \in S : \E i \in DOMAIN s : s[i] = x

LEMMA RisingExists ==
    ASSUME NEW S, S \subseteq Nat, IsFiniteSet(S)
    PROVE  \E s : Rises(s, S)
<1> DEFINE c == Cardinality(S)
           Q == {i \in 0..c : \A U \in SUBSET S : Cardinality(U) = i => \E s : Rises(s, U)}
<1>0. c \in Nat
  BY FS_CardinalityType
<1>1. \A U \in SUBSET S : IsFiniteSet(U) /\ Cardinality(U) \in Nat
  BY FS_Subset, FS_CardinalityType
<1>2. 0 \in Q
  <2> SUFFICES ASSUME NEW U \in SUBSET S, Cardinality(U) = 0 PROVE \E s : Rises(s, U)
    BY <1>0
  <2>1. U = {}
    BY <1>1, FS_EmptySet
  <2> DEFINE e == [i \in 1..0 |-> 0]
  <2>2. Rises(e, U)
    BY <2>1 DEF Rises
  <2> QED
    BY <2>2
<1>3. ASSUME NEW i \in 0..(c - 1), i \in Q PROVE i + 1 \in Q
  <2>1. i + 1 \in 0..c /\ i \in Nat
    BY <1>0
  <2> SUFFICES ASSUME NEW U \in SUBSET S, Cardinality(U) = i + 1 PROVE \E s : Rises(s, U)
    BY <2>1
  <2>2. U # {} /\ IsFiniteSet(U)
    BY <1>1, <2>1, FS_EmptySet
  <2> DEFINE m == Max(U)
             V == U \ {m}
  <2>3. m \in U /\ \A y \in U : y <= m
    BY <2>2, MaxOfFinite
  <2> HIDE DEF m
  <2>4. Cardinality(V) = i /\ V \in SUBSET S
    <3>1. Cardinality(V) = Cardinality(U) - 1
      BY <2>2, <2>3, FS_RemoveElement
    <3>2. V \in SUBSET S
      OBVIOUS
    <3> HIDE DEF V
    <3>3. Cardinality(V) = i
      BY <2>1, <3>1
    <3> QED
      BY <3>2, <3>3
  <2>5. PICK s : Rises(s, V)
    BY <1>3, <2>4
  <2>6. s \in [1..i -> V] /\ DOMAIN s = 1..i
    BY <2>4, <2>5 DEF Rises
  <2> DEFINE t == [j \in 1..(i + 1) |-> IF j = i + 1 THEN m ELSE s[j]]
  <2>7. t \in [1..(i + 1) -> U] /\ DOMAIN t = 1..(i + 1)
    BY <2>1, <2>3, <2>6
  <2>8. \A j, k \in DOMAIN t : j < k => t[j] < t[k]
    <3> SUFFICES ASSUME NEW j \in 1..(i + 1), NEW k \in 1..(i + 1), j < k PROVE t[j] < t[k]
      BY <2>7
    <3>1. j \in 1..i /\ t[j] = s[j] /\ s[j] \in V
      BY <2>1, <2>6
    <3>2. s[j] \in Nat /\ s[j] # m /\ s[j] <= m /\ m \in Nat
      BY <3>1, <2>3
    <3>3. CASE k = i + 1
      BY <3>1, <3>2, <3>3
    <3>4. CASE k # i + 1
      <4>1. k \in 1..i /\ t[k] = s[k]
        BY <3>4, <2>1
      <4> QED
        BY <3>1, <4>1, <2>5, <2>6 DEF Rises
    <3> QED
      BY <3>3, <3>4
  <2>9. \A x \in U : \E j \in DOMAIN t : t[j] = x
    <3> SUFFICES ASSUME NEW x \in U PROVE \E j \in 1..(i + 1) : t[j] = x
      BY <2>7
    <3>1. CASE x = m
      BY <3>1, <2>1
    <3>2. CASE x # m
      <4>1. PICK j \in 1..i : s[j] = x
        BY <3>2, <2>5, <2>6 DEF Rises
      <4>2. j \in 1..(i + 1) /\ t[j] = x
        BY <4>1, <2>1
      <4> QED
        BY <4>2
    <3> QED
      BY <3>1, <3>2
  <2> HIDE DEF t
  <2>10. Rises(t, U)
    BY <2>7, <2>8, <2>9 DEF Rises
  <2> QED
    BY <2>10
<1>4. \A i \in 0..c : i \in Q
  <2> HIDE DEF Q, c
  <2> QED
    BY <1>0, <1>2, <1>3, Climb
<1>5. c \in Q /\ S \in SUBSET S
  BY <1>0, <1>4
<1> QED
  BY <1>5

(* Only one increasing sequence of that length, whatever CHOOSE takes: it   *)
(* reaches every element.                                                  *)
LEMMA RisingCovers ==
    ASSUME NEW S, S \subseteq Nat, IsFiniteSet(S), NEW s \in [1..Cardinality(S) -> S],
           \A i, j \in DOMAIN s : i < j => s[i] < s[j]
    PROVE  Rises(s, S) /\ \A i, j \in DOMAIN s : s[i] = s[j] => i = j
<1> DEFINE n == Cardinality(S)
<1>0. n \in Nat
  BY FS_CardinalityType
<1>1. \A i, j \in 1..n : s[i] = s[j] => i = j
  <2> SUFFICES ASSUME NEW i \in 1..n, NEW j \in 1..n, s[i] = s[j], i # j PROVE FALSE
    OBVIOUS
  <2>0. s[i] \in S /\ \A x \in S : x \in Nat
    OBVIOUS
  <2>3. s[i] \in Nat
    BY <2>0
  <2>1. s[i] \in Nat /\ i \in Nat /\ j \in Nat
    BY <1>0, <2>3
  <2>2. i < j \/ j < i
    BY <2>1
  <2> QED
    BY <2>1, <2>2
<1>2. s \in Injection(1..n, S)
  BY <1>1 DEF Injection, IsInjective
<1>3. Cardinality(1..n) = n
  BY <1>0, FS_Interval
<1>4. s \in Surjection(1..n, S)
  BY <1>2, <1>3, FS_Injection
<1>5. \A x \in S : \E i \in DOMAIN s : s[i] = x
  BY <1>4 DEF Surjection
<1> QED
  BY <1>1, <1>5 DEF Rises

=============================================================================
