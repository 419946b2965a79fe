----------------------------- MODULE Inductions -----------------------------
(***************************************************************************)
(* Facts about natural numbers that the proofs about pure algorithms keep   *)
(* needing: induction for a set, functions that are defined by recursion,   *)
(* the least and the greatest element of a set, division, and sequences     *)
(* that grow by one element, or are joined, at a time.                      *)
(***************************************************************************)
EXTENDS SequencesExt, FiniteSetTheorems, WellFoundedInduction, TLAPS

(* A set with zero in it and, with a number, the next has them all. *)
LEMMA Induct ==
    ASSUME NEW T, 0 \in T, \A n \in T : n + 1 \in T
    PROVE  Nat \subseteq T
<1> SUFFICES ASSUME Nat \ T # {} PROVE FALSE
    OBVIOUS
<1> DEFINE R == OpToRel(<, Nat)
<1>1. PICK x \in Nat \ T : \A y \in Nat \ T : ~ (<<y, x>> \in R)
  <2>1. IsWellFoundedOn(R, Nat)
      BY NatLessThanWellFounded
  <2>2. Nat \ T \subseteq Nat
      OBVIOUS
  <2> HIDE DEF R
  <2> QED BY <2>1, <2>2, WFMin, Zenon
<1>2. ASSUME NEW y \in Nat, y < x PROVE <<y, x>> \in R
    BY <1>2 DEF OpToRel
<1> HIDE DEF R
<1>3. x # 0
    OBVIOUS
<1>4. x \in Nat /\ x - 1 \in Nat /\ x - 1 < x
    BY <1>3
<1>5. x - 1 \in T
    BY <1>1, <1>2, <1>4
<1>6. x - 1 + 1 = x
    BY <1>4
<1> QED BY <1>5, <1>6

(* g goes through the first k steps of a recursion. *)
Steps(S, base, step, k, g) ==
    /\ g \in [0 .. k -> S]
    /\ g[0] = base
    /\ \A i \in 0 .. k - 1 : g[i + 1] = step[i][g[i]]

LEMMA StepsExist ==
    ASSUME NEW S, NEW base \in S, NEW step \in [Nat -> [S -> S]]
    PROVE  \A k \in Nat : \E g : Steps(S, base, step, k, g)
<1> DEFINE T == {k \in Nat : \E g : Steps(S, base, step, k, g)}
<1>1. 0 \in T
  <2> DEFINE g == [i \in 0 .. 0 |-> base]
  <2>1. Steps(S, base, step, 0, g)
      BY DEF Steps
  <2> QED BY <2>1
<1>2. ASSUME NEW k \in T PROVE k + 1 \in T
  <2>1. PICK g : Steps(S, base, step, k, g)
      OBVIOUS
  <2> DEFINE h == [i \in 0 .. k + 1 |-> IF i = k + 1 THEN step[k][g[k]] ELSE g[i]]
  <2>2. g[k] \in S /\ step[k][g[k]] \in S
      BY <2>1 DEF Steps
  <2>3. h \in [0 .. k + 1 -> S]
      BY <2>1, <2>2 DEF Steps
  <2>4. h[0] = base
      BY <2>1 DEF Steps
  <2>5. \A i \in 0 .. k : h[i + 1] = step[i][h[i]]
    <3> TAKE i \in 0 .. k
    <3>1. i + 1 \in 0 .. k + 1 /\ i \in 0 .. k + 1 /\ i # k + 1
        OBVIOUS
    <3>2. h[i] = g[i]
        BY <3>1
    <3>3. CASE i = k
        BY <3>1, <3>2, <3>3
    <3>4. CASE i # k
      <4>1. i \in 0 .. k - 1 /\ h[i + 1] = g[i + 1]
          BY <3>1, <3>4
      <4> HIDE DEF h
      <4> QED BY <2>1, <3>2, <4>1 DEF Steps
    <3> QED BY <3>3, <3>4
  <2> HIDE DEF h
  <2>6. Steps(S, base, step, k + 1, h)
      BY <2>3, <2>4, <2>5 DEF Steps
  <2> QED BY <2>6
<1> HIDE DEF T
<1>3. Nat \subseteq T
    BY <1>1, <1>2, Induct
<1> QED BY <1>3 DEF T

LEMMA StepsUnique ==
    ASSUME NEW S, NEW base, NEW step, NEW k \in Nat, NEW m \in Nat, NEW g, NEW h,
           Steps(S, base, step, k, g), Steps(S, base, step, m, h)
    PROVE  \A i \in Nat : i <= k /\ i <= m => g[i] = h[i]
<1> DEFINE T == {i \in Nat : i <= k /\ i <= m => g[i] = h[i]}
<1>1. 0 \in T
    BY DEF Steps
<1>2. ASSUME NEW i \in T PROVE i + 1 \in T
  <2> SUFFICES ASSUME i + 1 <= k, i + 1 <= m PROVE g[i + 1] = h[i + 1]
      OBVIOUS
  <2>1. i \in 0 .. k - 1 /\ i \in 0 .. m - 1 /\ g[i] = h[i]
      OBVIOUS
  <2> QED BY <2>1 DEF Steps
<1> HIDE DEF T
<1>3. Nat \subseteq T
    BY <1>1, <1>2, Induct
<1> QED BY <1>3 DEF T

(* A function over the naturals may be defined by its value at zero and a step. *)
Iterates(f, S, base, step) ==
    /\ f \in [Nat -> S]
    /\ f[0] = base
    /\ \A n \in Nat : f[n + 1] = step[n][f[n]]

LEMMA Recursion ==
    ASSUME NEW S, NEW base \in S, NEW step \in [Nat -> [S -> S]]
    PROVE  \E f : Iterates(f, S, base, step)
<1> DEFINE run(k) == CHOOSE g : Steps(S, base, step, k, g)
           f == [n \in Nat |-> run(n)[n]]
<1>1. ASSUME NEW k \in Nat PROVE Steps(S, base, step, k, run(k))
    BY StepsExist
<1> HIDE DEF run
<1>2. f \in [Nat -> S]
    BY <1>1 DEF Steps
<1>3. f[0] = base
    BY <1>1 DEF Steps
<1>4. ASSUME NEW n \in Nat PROVE f[n + 1] = step[n][f[n]]
  <2>0. n + 1 \in Nat /\ Steps(S, base, step, n, run(n)) /\ Steps(S, base, step, n + 1, run(n + 1))
      BY <1>1
  <2>1. run(n + 1)[n] = run(n)[n]
    <3> HIDE DEF f
    <3> QED BY <2>0, StepsUnique
  <2>2. run(n + 1)[n + 1] = step[n][run(n + 1)[n]]
      BY <1>1 DEF Steps
  <2> QED BY <2>1, <2>2
<1> HIDE DEF f
<1>5. Iterates(f, S, base, step)
    BY <1>2, <1>3, <1>4 DEF Iterates
<1> QED BY <1>5

(* A set of naturals that is not empty has a least element ... *)
LEMMA MinIs ==
    ASSUME NEW S \in SUBSET Nat, S # {}
    PROVE  Min(S) \in S /\ \A x \in S : Min(S) <= x
<1> DEFINE T == {n \in Nat : (\E x \in S : x <= n) => \E x \in S : \A y \in S : x <= y}
<1>1. 0 \in T
  <2> SUFFICES ASSUME NEW x \in S, x <= 0 PROVE \A y \in S : x <= y
      OBVIOUS
  <2> QED OBVIOUS
<1>2. ASSUME NEW n \in T PROVE n + 1 \in T
  <2> SUFFICES ASSUME NEW x \in S, x <= n + 1 PROVE \E z \in S : \A y \in S : z <= y
      OBVIOUS
  <2>1. CASE \E y \in S : y <= n
      BY <2>1
  <2>2. CASE ~ \E y \in S : y <= n
      BY <2>2
  <2> QED BY <2>1, <2>2
<1> HIDE DEF T
<1>3. Nat \subseteq T
    BY <1>1, <1>2, Induct
<1>4. \E x \in S : \A y \in S : x <= y
  <2>1. PICK x : x \in S
      OBVIOUS
  <2>2. x \in Nat /\ x \in T /\ x <= x
      BY <1>3, <2>1
  <2> QED BY <2>1, <2>2 DEF T
<1> QED BY <1>4, Zenon DEF Min

(* ... and, if some number bounds it, a greatest. *)
LEMMA MaxIs ==
    ASSUME NEW S \in SUBSET Nat, S # {}, NEW bound \in Nat, \A x \in S : x <= bound
    PROVE  Max(S) \in S /\ \A x \in S : Max(S) >= x
<1> DEFINE R == {bound - x : x \in S}
<1>1. R \in SUBSET Nat /\ R # {}
  <2>1. \A x \in S : bound - x \in Nat
      OBVIOUS
  <2>2. PICK x \in S : bound - x \in R
      OBVIOUS
  <2> QED BY <2>1, <2>2
<1> HIDE DEF R
<1>2. Min(R) \in R /\ \A y \in R : Min(R) <= y
    BY <1>1, MinIs
<1>3. PICK x \in S : Min(R) = bound - x
    BY <1>2 DEF R
<1>4. ASSUME NEW y \in S PROVE x >= y
  <2>1. bound - x <= bound - y /\ x \in Nat /\ y \in Nat
      BY <1>2, <1>3 DEF R
  <2> QED BY <2>1
<1>5. \E z \in S : \A y \in S : z >= y
    BY <1>4
<1> QED BY <1>5, Zenon DEF Max

(* Finitely many numbers have a bound. *)
LEMMA Bounded ==
    ASSUME NEW S \in SUBSET Nat, IsFiniteSet(S)
    PROVE  \E bound \in Nat : \A x \in S : x <= bound
<1> DEFINE T == {n \in Nat : \A R \in SUBSET Nat : IsFiniteSet(R) /\ Cardinality(R) = n
                                => \E bound \in Nat : \A x \in R : x <= bound}
<1>1. 0 \in T
  <2> SUFFICES ASSUME NEW R \in SUBSET Nat, IsFiniteSet(R), Cardinality(R) = 0
               PROVE  \E bound \in Nat : \A x \in R : x <= bound
      OBVIOUS
  <2>1. R = {}
      BY FS_EmptySet
  <2> QED BY <2>1
<1>2. ASSUME NEW n \in T PROVE n + 1 \in T
  <2> SUFFICES ASSUME NEW R \in SUBSET Nat, IsFiniteSet(R), Cardinality(R) = n + 1
               PROVE  \E bound \in Nat : \A x \in R : x <= bound
      OBVIOUS
  <2>1. CASE R = {}
      BY <2>1
  <2>2. CASE R # {}
    <3>1. PICK y : y \in R
        BY <2>2
    <3>2. IsFiniteSet(R \ {y}) /\ Cardinality(R \ {y}) = Cardinality(R) - 1
        BY <3>1, FS_RemoveElement
    <3>3. Cardinality(R \ {y}) = n /\ R \ {y} \in SUBSET Nat
      <4>1. n \in Nat
          OBVIOUS
      <4>2. n + 1 - 1 = n
          BY <4>1
      <4>3. Cardinality(R) - 1 = n
          BY <4>2
      <4>4. R \ {y} \in SUBSET Nat
          OBVIOUS
      <4> QED BY <3>2, <4>3, <4>4
    <3>4. PICK b \in Nat : \A x \in R \ {y} : x <= b
        BY <3>2, <3>3
    <3>5. CASE b <= y
        BY <3>1, <3>4, <3>5
    <3>6. CASE ~ b <= y
        BY <3>1, <3>4, <3>6
    <3> QED BY <3>5, <3>6
  <2> QED BY <2>1, <2>2
<1> HIDE DEF T
<1>3. Nat \subseteq T
    BY <1>1, <1>2, Induct
<1>4. Cardinality(S) \in Nat
    BY FS_CardinalityType
<1> QED BY <1>3, <1>4 DEF T

(* A sequence that is not empty was appended to another. *)
LEMMA SplitLast ==
    ASSUME NEW X, NEW s \in Seq(X), Len(s) # 0
    PROVE  \E r \in Seq(X), x \in X : s = Append(r, x) /\ Len(s) = Len(r) + 1
<1> DEFINE n == Len(s) - 1
           r == [i \in 1 .. n |-> s[i]]
<1>1. Len(s) \in Nat /\ Len(s) # 0 /\ n \in Nat /\ Len(s) = n + 1 /\ n + 1 \in 1 .. Len(s)
    OBVIOUS
<1> HIDE DEF n
<1>2. s[n + 1] \in X
    BY <1>1
<1>3. r \in Seq(X) /\ Len(r) = n
    BY <1>1
<1>4. s = Append(r, s[n + 1])
    BY <1>1, <1>2, <1>3
<1> HIDE DEF r
<1> QED BY <1>1, <1>2, <1>3, <1>4

(* A set with the empty sequence in it and, with a sequence, whatever is appended
   to it has them all. *)
LEMMA SeqInduct ==
    ASSUME NEW X, NEW T, \A s \in Seq(X) : Len(s) = 0 => s \in T,
           \A s \in Seq(X), x \in X : s \in T => Append(s, x) \in T
    PROVE  Seq(X) \subseteq T
<1> DEFINE N == {n \in Nat : \A s \in Seq(X) : Len(s) = n => s \in T}
<1>1. 0 \in N
    OBVIOUS
<1>2. ASSUME NEW n \in N PROVE n + 1 \in N
  <2> SUFFICES ASSUME NEW s \in Seq(X), Len(s) = n + 1 PROVE s \in T
      OBVIOUS
  <2>1. Len(s) # 0
      OBVIOUS
  <2>2. PICK r \in Seq(X), x \in X : s = Append(r, x) /\ Len(s) = Len(r) + 1
      BY <2>1, SplitLast
  <2>3. r \in T
      BY <2>2
  <2> QED BY <2>2, <2>3
<1> HIDE DEF N
<1>3. Nat \subseteq N
    BY <1>1, <1>2, Induct
<1> QED BY <1>3 DEF N

(* Sequences of one length with the same elements are the same. *)
LEMMA SameSeq ==
    ASSUME NEW X, NEW s \in Seq(X), NEW t \in Seq(X), Len(s) = Len(t),
           \A j \in 1 .. Len(s) : s[j] = t[j]
    PROVE  s = t
OBVIOUS

-----------------------------------------------------------------------------
(* Facts about products and quotients. *)
LEMMA Division ==
    ASSUME NEW x \in Nat, NEW s \in Nat \ {0}
    PROVE  /\ x \div s \in Nat /\ x % s \in Nat /\ x % s < s
           /\ x = (x \div s) * s + (x % s)
<1>1. (x \div s) * s + (x % s) = x /\ x % s \in 0 .. s - 1 /\ x \div s \in Nat
    BY SMTT(30)
<1>2. x % s \in Nat /\ x % s < s
  <2>1. x % s \in 0 .. s - 1
      BY <1>1
  <2> QED BY <2>1
<1>3. x = (x \div s) * s + (x % s)
    BY <1>1, Zenon
<1> QED BY <1>1, <1>2, <1>3, Zenon

LEMMA DivisionIs ==
    ASSUME NEW q \in Nat, NEW s \in Nat \ {0}, NEW r \in Nat, r < s
    PROVE  (q * s + r) \div s = q /\ (q * s + r) % s = r
OBVIOUS

LEMMA Product == ASSUME NEW a \in Nat, NEW b \in Nat PROVE a * b \in Nat
OBVIOUS

LEMMA ProductUp ==
    ASSUME NEW a \in Nat, NEW b \in Nat, NEW s \in Nat, a <= b
    PROVE  a * s <= b * s
OBVIOUS

LEMMA ProductNext ==
    ASSUME NEW a \in Int, NEW s \in Nat
    PROVE  (a + 1) * s = a * s + s /\ (a - 1) * s = a * s - s /\ a * s \in Int
OBVIOUS

-----------------------------------------------------------------------------
(* What a function that joins sequences from left to right is. *)
Joins(seqs, h) ==
    h = [i \in 1 .. Len(seqs) |-> IF i = 1 THEN seqs[i] ELSE h[i - 1] \o seqs[i]]

LEMMA JoinedAt ==
    ASSUME NEW seqs, NEW n \in Nat, Len(seqs) = n, NEW h, Joins(seqs, h)
    PROVE  \A i \in 1 .. n : h[i] = IF i = 1 THEN seqs[i] ELSE h[i - 1] \o seqs[i]
BY DEF Joins

LEMMA JoinedOnce ==
    ASSUME NEW seqs, NEW n \in Nat, Len(seqs) = n, NEW g, NEW h, Joins(seqs, g), Joins(seqs, h)
    PROVE  \A i \in 1 .. n : g[i] = h[i]
<1> DEFINE T == {i \in Nat : i \in 1 .. n => g[i] = h[i]}
<1>1. 0 \in T
    OBVIOUS
<1>2. ASSUME NEW i \in T PROVE i + 1 \in T
  <2> SUFFICES ASSUME i + 1 \in 1 .. n PROVE g[i + 1] = h[i + 1]
      OBVIOUS
  <2>1. /\ g[i + 1] = IF i + 1 = 1 THEN seqs[i + 1] ELSE g[i + 1 - 1] \o seqs[i + 1]
        /\ h[i + 1] = IF i + 1 = 1 THEN seqs[i + 1] ELSE h[i + 1 - 1] \o seqs[i + 1]
      BY JoinedAt
  <2>2. i \in Nat /\ (i \in 1 .. n => g[i] = h[i])
      OBVIOUS
  <2> HIDE DEF T
  <2>3. CASE i + 1 = 1
      BY <2>1, <2>3
  <2>4. CASE i + 1 # 1
    <3>1. i + 1 - 1 = i /\ i \in 1 .. n
        BY <2>2, <2>4
    <3> QED BY <2>1, <2>2, <2>4, <3>1
  <2> QED BY <2>3, <2>4
<1> HIDE DEF T
<1>3. Nat \subseteq T
    BY <1>1, <1>2, Induct
<1> QED BY <1>3 DEF T

LEMMA FlattenIs ==
    ASSUME NEW seqs, NEW n \in Nat, Len(seqs) = n, n # 0, NEW g, Joins(seqs, g)
    PROVE  FlattenSeq(seqs) = g[n]
<1> DEFINE h == CHOOSE flatten : Joins(seqs, flatten)
<1>1. Joins(seqs, h)
    OBVIOUS
<1>2. FlattenSeq(seqs) = h[n]
    BY DEF FlattenSeq, Joins
<1> HIDE DEF h
<1>3. n \in 1 .. n
    OBVIOUS
<1> QED BY <1>1, <1>2, <1>3, JoinedOnce

-----------------------------------------------------------------------------
(* The first k values of a function, in a sequence. *)
Firsts(g, k) == [i \in 1 .. k |-> g[i]]

LEMMA FirstsType ==
    ASSUME NEW X, NEW g \in [Nat -> X], NEW k \in Nat
    PROVE  /\ Firsts(g, k) \in Seq(X) /\ Len(Firsts(g, k)) = k
           /\ \A i \in 1 .. k : Firsts(g, k)[i] = g[i]
<1>1. \A i \in 1 .. k : g[i] \in X
    OBVIOUS
<1>2. Firsts(g, k) \in [1 .. k -> X]
    BY <1>1 DEF Firsts
<1>3. Firsts(g, k) \in Seq(X) /\ Len(Firsts(g, k)) = k
    BY <1>2
<1> QED BY <1>3 DEF Firsts

LEMMA Concat ==
    ASSUME NEW X, NEW s \in Seq(X), NEW t \in Seq(X)
    PROVE  s \o t \in Seq(X) /\ Len(s \o t) = Len(s) + Len(t)
OBVIOUS

LEMMA FirstsMore ==
    ASSUME NEW X, NEW g \in [Nat -> X], NEW a \in Nat, NEW b \in Nat, NEW t \in Seq(X),
           Len(t) = b, \A i \in 1 .. b : t[i] = g[a + i]
    PROVE  Firsts(g, a) \o t = Firsts(g, a + b)
<1>0. a + b \in Nat
    OBVIOUS
<1>1. Firsts(g, a) \in Seq(X) /\ Firsts(g, a + b) \in Seq(X)
    BY <1>0, FirstsType
<1>2. Len(Firsts(g, a)) = a /\ Len(Firsts(g, a + b)) = a + b
    BY <1>0, FirstsType
<1>3. Firsts(g, a) \o t \in Seq(X) /\ Len(Firsts(g, a) \o t) = a + b
  <2>1. Firsts(g, a) \o t \in Seq(X) /\ Len(Firsts(g, a) \o t) = Len(Firsts(g, a)) + Len(t)
      BY <1>1, Concat
  <2> QED BY <1>2, <2>1
<1>4. ASSUME NEW j \in 1 .. a + b PROVE (Firsts(g, a) \o t)[j] = Firsts(g, a + b)[j]
  <2>1. CASE j <= a
    <3>1. Firsts(g, a)[j] = g[j] /\ Firsts(g, a + b)[j] = g[j]
        BY <2>1 DEF Firsts
    <3>2. (Firsts(g, a) \o t)[j] = Firsts(g, a)[j]
        BY <1>1, <1>2, <2>1
    <3> QED BY <3>1, <3>2
  <2>2. CASE ~ j <= a
    <3>1. j - a \in 1 .. b /\ a + (j - a) = j
        BY <2>2
    <3>2. (Firsts(g, a) \o t)[j] = t[j - a]
        BY <1>1, <1>2, <2>2
    <3>3. Firsts(g, a + b)[j] = g[j]
        BY DEF Firsts
    <3> QED BY <3>1, <3>2, <3>3
  <2> QED BY <2>1, <2>2
<1> QED BY <1>1, <1>2, <1>3, <1>4, SameSeq
=============================================================================
