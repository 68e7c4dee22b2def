----------------------------- MODULE WordsProofs ----------------------------
(***************************************************************************)
(* What the other proofs need of words, of their order, and of sums over   *)
(* finite sets.  Induction is done with minimal counterexamples: a set of  *)
(* naturals that is not empty has a least element.                         *)
(***************************************************************************)
EXTENDS Words, Functions, FiniteSetTheorems, SequenceTheorems, WellFoundedInduction,
        TLAPS

(***************************************************************************)
(* A set of naturals that is not empty has a least element.                *)
(***************************************************************************)
LEMMA LeastNatural ==
  ASSUME NEW S, S \subseteq Nat, S # {}
  PROVE  \E x \in S : \A y \in S : x <= y
<1>1. IsWellFoundedOn(OpToRel(<, Nat), Nat)
  BY NatLessThanWellFounded
<1>2. PICK x \in S : \A y \in S : ~ (<<y, x>> \in OpToRel(<, Nat))
  BY <1>1, WFMin
<1>3. \A y \in S : ~ (y < x)
  BY <1>2 DEF OpToRel
<1> QED
  BY <1>3


(***************************************************************************)
(* string_cmp computes the lexicographic order: DAWG_add_word lets a word  *)
(* in exactly when it is not less than the previous one.                   *)
(***************************************************************************)
THEOREM StringCmpOrder ==
  ASSUME NEW s \in Seq(Nat), NEW t \in Seq(Nat)
  PROVE  StringCmp(s, t) <= 0 <=> LessEq(s, t)
<1> DEFINE M == Mismatches(s, t)
           n == ShorterLen(s, t)
<1>n. n \in Nat /\ n <= Len(s) /\ n <= Len(t) /\ (n = Len(s) \/ n = Len(t))
  BY DEF ShorterLen
<1>m. M = {k \in 1..n : s[k] # t[k]}
  BY DEF Mismatches
<1> HIDE DEF M, n
<1>1. CASE M = {}
  <2>1. \A k \in 1..n : s[k] = t[k]
    BY <1>1, <1>m
  <2>2. StringCmp(s, t) = IF Len(t) < Len(s) THEN 1
                          ELSE IF Len(s) < Len(t) THEN -1 ELSE 0
    BY <1>1 DEF StringCmp, M
  <2>3. CASE Len(t) < Len(s)
    <3>1. ~ LessEq(s, t)
      BY <2>1, <2>3, <1>n DEF LessEq, Less, AgreeBelow
    <3> QED
      BY <3>1, <2>2, <2>3
  <2>4. CASE Len(s) < Len(t)
    <3>1. (Len(s) + 1) - 1 = n
      BY <2>4, <1>n
    <3>2. AgreeBelow(s, t, Len(s) + 1)
      BY <2>1, <3>1 DEF AgreeBelow
    <3> QED
      BY <3>2, <2>2, <2>4 DEF LessEq, Less
  <2>5. CASE Len(s) = Len(t)
    <3>1. s = t
      BY <2>1, <2>5, <1>n
    <3> QED
      BY <3>1, <2>2, <2>5 DEF LessEq
  <2> QED
    BY <2>3, <2>4, <2>5
<1>2. CASE M # {}
  <2>1. \E k \in M : \A m \in M : k <= m
    <3>1. M \subseteq Nat
      BY <1>m, <1>n
    <3> QED
      BY <3>1, <1>2, LeastNatural
  <2> DEFINE k == CHOOSE j \in M : \A m \in M : j <= m
  <2>2. k \in M /\ \A m \in M : k <= m
    BY <2>1
  <2>3. StringCmp(s, t) = IF s[k] < t[k] THEN -1 ELSE 1
    BY <1>2 DEF StringCmp, M
  <2> HIDE DEF k
  <2>4. /\ k \in 1..Len(s) /\ k <= Len(t) /\ k \in 1..Len(t)
        /\ s[k] \in Nat /\ t[k] \in Nat /\ s[k] # t[k]
        /\ AgreeBelow(s, t, k)
    <3>1. k \in 1..n /\ s[k] # t[k]
      BY <2>2, <1>m
    <3>2. ASSUME NEW j \in 1..(k - 1) PROVE s[j] = t[j]
      BY <2>2, <3>1, <1>m, <1>n
    <3>3. n \in Nat /\ n <= Len(s) /\ n <= Len(t)
      BY <1>n
    <3>4. k \in 1..Len(s) /\ k <= Len(t) /\ k \in 1..Len(t)
      BY <3>1, <3>3
    <3>5. s[k] \in Nat /\ t[k] \in Nat
      BY <3>4
    <3>6. AgreeBelow(s, t, k)
      BY <3>2 DEF AgreeBelow
    <3> QED
      BY <3>1, <3>4, <3>5, <3>6
  <2>5. CASE s[k] < t[k]
    BY <2>3, <2>4, <2>5 DEF LessEq, Less
  <2>6. CASE t[k] < s[k]
    <3>1. ~ LessEq(s, t)
      <4>1. s # t
        BY <2>4
      <4>2. ~ AgreeBelow(s, t, Len(s) + 1)
        BY <2>4 DEF AgreeBelow
      <4>3. ASSUME NEW j \in 1..Len(s), j <= Len(t), s[j] < t[j], AgreeBelow(s, t, j)
            PROVE  FALSE
        <5>1. CASE j < k
          <6>1. j \in 1..(k - 1)
            BY <5>1, <2>4
          <6>2. s[j] = t[j]
            BY <6>1, <2>4 DEF AgreeBelow
          <6>3. s[j] \in Nat
            BY <4>3
          <6> QED
            BY <6>2, <6>3, <4>3
        <5>2. CASE j = k
          BY <5>2, <4>3, <2>6, <2>4
        <5>3. CASE k < j
          <6>1. k \in 1..(j - 1)
            BY <5>3, <2>4
          <6> QED
            BY <6>1, <4>3, <2>4 DEF AgreeBelow
        <5> QED
          BY <5>1, <5>2, <5>3, <2>4
      <4> QED
        BY <4>1, <4>2, <4>3 DEF LessEq, Less
    <3> QED
      BY <3>1, <2>3, <2>6, <2>4
  <2> QED
    BY <2>4, <2>5, <2>6
<1> QED
  BY <1>1, <1>2

-----------------------------------------------------------------------------
(***************************************************************************)
(* The lexicographic order                                                 *)
(***************************************************************************)

(***************************************************************************)
(* A word as a sequence without an end: 0 is behind its letters.           *)
(***************************************************************************)
At(s, k) == IF k <= Len(s) THEN s[k] + 1 ELSE 0

SameBelow(s, t, k) == \A j \in 1..(k - 1) : At(s, j) = At(t, j)

LEMMA AtType ==
  ASSUME NEW s \in Seq(Nat), NEW k \in Nat \ {0}
  PROVE  /\ Len(s) \in Nat /\ At(s, k) \in Nat
         /\ k <= Len(s) => s[k] \in Nat /\ At(s, k) = s[k] + 1
         /\ At(s, k) = 0 <=> Len(s) < k
<1>1. Len(s) \in Nat
  BY LenProperties
<1>2. CASE k <= Len(s)
  <2>1. k \in 1..Len(s)
    BY <1>1, <1>2
  <2>2. s[k] \in Nat
    BY <2>1, ElementOfSeq
  <2> QED
    BY <1>1, <1>2, <2>2 DEF At
<1>3. CASE ~ (k <= Len(s))
  BY <1>1, <1>3 DEF At
<1> QED
  BY <1>2, <1>3

(***************************************************************************)
(* Less compares the words where they first differ.                        *)
(***************************************************************************)
LEMMA LessAt ==
  ASSUME NEW s \in Seq(Nat), NEW t \in Seq(Nat)
  PROVE  Less(s, t) <=> \E k \in Nat \ {0} : At(s, k) < At(t, k) /\ SameBelow(s, t, k)
<1>1. Len(s) \in Nat /\ Len(t) \in Nat
  BY LenProperties
<1>2. ASSUME NEW k \in Nat \ {0}, k <= Len(s) + 1, k <= Len(t) + 1
      PROVE  AgreeBelow(s, t, k) <=> SameBelow(s, t, k)
  <2>1. ASSUME NEW j \in 1..(k - 1)
        PROVE  s[j] = t[j] <=> At(s, j) = At(t, j)
    <3>1. j \in Nat \ {0} /\ j <= Len(s) /\ j <= Len(t)
      BY <1>1, <1>2
    <3>2. s[j] \in Nat /\ At(s, j) = s[j] + 1 /\ t[j] \in Nat /\ At(t, j) = t[j] + 1
      BY <3>1, AtType
    <3> QED
      BY <3>2
  <2> QED
    BY <2>1 DEF AgreeBelow, SameBelow
<1>3. ASSUME NEW k \in 1..Len(s), k <= Len(t), s[k] < t[k], AgreeBelow(s, t, k)
      PROVE  \E m \in Nat \ {0} : At(s, m) < At(t, m) /\ SameBelow(s, t, m)
  <2>1. k \in Nat \ {0} /\ k <= Len(s)
    BY <1>1
  <2>2. At(s, k) < At(t, k)
    <3>1. s[k] \in Nat /\ At(s, k) = s[k] + 1 /\ t[k] \in Nat /\ At(t, k) = t[k] + 1
      BY <2>1, <1>3, AtType
    <3> QED
      BY <3>1, <1>3
  <2>3. k <= Len(s) + 1 /\ k <= Len(t) + 1
    BY <2>1, <1>1, <1>3
  <2>4. SameBelow(s, t, k)
    BY <2>1, <2>3, <1>2, <1>3, Zenon
  <2> QED
    BY <2>1, <2>2, <2>4
<1>4. ASSUME Len(s) < Len(t), AgreeBelow(s, t, Len(s) + 1)
      PROVE  \E m \in Nat \ {0} : At(s, m) < At(t, m) /\ SameBelow(s, t, m)
  <2>1. PICK k : k = Len(s) + 1
    OBVIOUS
  <2>2. k \in Nat \ {0} /\ k <= Len(t) /\ Len(s) < k /\ k <= Len(t) + 1 /\ k <= Len(s) + 1
    BY <2>1, <1>1, <1>4
  <2>3. At(s, k) = 0 /\ At(t, k) \in Nat /\ At(t, k) # 0
    BY <2>2, <1>1, AtType
  <2>4. SameBelow(s, t, k)
    BY <2>1, <2>2, <1>2, <1>4
  <2>5. At(s, k) < At(t, k)
    BY <2>3
  <2> QED
    BY <2>2, <2>4, <2>5
<1>5. ASSUME NEW k \in Nat \ {0}, At(s, k) < At(t, k), SameBelow(s, t, k)
      PROVE  Less(s, t)
  <2>1. /\ At(s, k) \in Nat /\ At(t, k) \in Nat /\ At(t, k) # 0 /\ k <= Len(t)
    BY <1>1, <1>5, AtType
  <2>2. CASE k <= Len(s)
    <3>1. s[k] < t[k]
      <4>1. s[k] \in Nat /\ At(s, k) = s[k] + 1 /\ t[k] \in Nat /\ At(t, k) = t[k] + 1
        BY <2>1, <2>2, AtType
      <4> QED
        BY <4>1, <1>5
    <3>2. AgreeBelow(s, t, k)
      <4>1. k <= Len(s) + 1 /\ k <= Len(t) + 1
        BY <1>1, <2>1, <2>2
      <4> QED
        BY <4>1, <1>2, <1>5, Zenon
    <3>3. k \in 1..Len(s)
      BY <1>1, <2>2
    <3> QED
      BY <3>1, <3>2, <3>3, <2>1 DEF Less
  <2>3. CASE Len(s) < k
    <3>1. k = Len(s) + 1
      <4> SUFFICES ASSUME k # Len(s) + 1 PROVE FALSE
        OBVIOUS
      <4>1. PICK j : j = Len(s) + 1
        OBVIOUS
      <4>2. j \in 1..(k - 1) /\ j \in Nat \ {0} /\ Len(s) < j /\ j <= Len(t)
        BY <4>1, <1>1, <2>1, <2>3
      <4>3. At(s, j) = 0 /\ At(t, j) # 0
        BY <4>2, <1>1, AtType
      <4> QED
        BY <4>2, <4>3, <1>5 DEF SameBelow
    <3>2. AgreeBelow(s, t, k)
      BY <3>1, <2>1, <1>1, <1>2, <1>5
    <3> QED
      BY <3>1, <3>2, <2>1, <1>1 DEF Less
  <2> QED
    BY <2>2, <2>3, <1>1
<1> QED
  BY <1>3, <1>4, <1>5 DEF Less

LEMMA LessIrreflexive ==
  ASSUME NEW s \in Seq(Nat)
  PROVE  ~ Less(s, s)
<1>1. \A k \in Nat \ {0} : ~ (At(s, k) < At(s, k))
  BY AtType
<1> QED
  BY <1>1, LessAt

LEMMA LessTransitive ==
  ASSUME NEW s \in Seq(Nat), NEW t \in Seq(Nat), NEW u \in Seq(Nat),
         Less(s, t), Less(t, u)
  PROVE  Less(s, u)
<1>1. PICK k \in Nat \ {0} : At(s, k) < At(t, k) /\ SameBelow(s, t, k)
  BY LessAt
<1>2. PICK m \in Nat \ {0} : At(t, m) < At(u, m) /\ SameBelow(t, u, m)
  BY LessAt
<1>3. PICK j : j = IF k < m THEN k ELSE m
  OBVIOUS
<1>4. j \in Nat \ {0} /\ j <= k /\ j <= m /\ (j = k \/ j = m)
  BY <1>3
<1>5. SameBelow(s, u, j)
  BY <1>1, <1>2, <1>4 DEF SameBelow
<1>6. At(s, j) \in Nat /\ At(t, j) \in Nat /\ At(u, j) \in Nat
  BY <1>4, AtType
<1>7. j < k => At(s, j) = At(t, j)
  BY <1>1, <1>4 DEF SameBelow
<1>8. j < m => At(t, j) = At(u, j)
  BY <1>2, <1>4 DEF SameBelow
<1>9. At(s, j) < At(u, j)
  BY <1>1, <1>2, <1>4, <1>6, <1>7, <1>8
<1> QED
  BY <1>4, <1>5, <1>9, LessAt

LEMMA LessTotal ==
  ASSUME NEW s \in Seq(Nat), NEW t \in Seq(Nat), s # t
  PROVE  Less(s, t) \/ Less(t, s)
<1> DEFINE D == {k \in Nat \ {0} : At(s, k) # At(t, k)}
<1>1. Len(s) \in Nat /\ Len(t) \in Nat
  BY LenProperties
<1>2. D # {}
  <2> SUFFICES ASSUME \A k \in Nat \ {0} : At(s, k) = At(t, k) PROVE FALSE
    OBVIOUS
  <2>1. ~ (Len(s) < Len(t))
    <3> SUFFICES ASSUME Len(s) < Len(t) PROVE FALSE
      OBVIOUS
    <3>1. Len(t) \in Nat \ {0} /\ ~ (Len(t) < Len(t))
      BY <1>1
    <3> QED
      BY <3>1, AtType
  <2>2. ~ (Len(t) < Len(s))
    <3> SUFFICES ASSUME Len(t) < Len(s) PROVE FALSE
      OBVIOUS
    <3>1. Len(s) \in Nat \ {0} /\ ~ (Len(s) < Len(s))
      BY <1>1
    <3> QED
      BY <3>1, AtType
  <2>3. ASSUME NEW k \in 1..Len(s) PROVE s[k] = t[k]
    <3>1. k \in Nat \ {0} /\ k <= Len(s) /\ k <= Len(t)
      BY <1>1, <2>1, <2>2
    <3>2. s[k] \in Nat /\ t[k] \in Nat /\ At(s, k) = s[k] + 1 /\ At(t, k) = t[k] + 1
      BY <3>1, AtType
    <3>3. At(s, k) = At(t, k)
      BY <3>1
    <3> QED
      BY <3>2, <3>3
  <2> QED
    BY <1>1, <2>1, <2>2, <2>3, SeqEqual
<1>3. PICK k \in D : \A y \in D : k <= y
  <2>1. D \subseteq Nat
    OBVIOUS
  <2> HIDE DEF D
  <2> QED
    BY <1>2, <2>1, LeastNatural
<1>4. SameBelow(s, t, k) /\ SameBelow(t, s, k)
  BY <1>3 DEF SameBelow
<1>5. k \in Nat \ {0} /\ At(s, k) # At(t, k) /\ At(s, k) \in Nat /\ At(t, k) \in Nat
  BY <1>3, AtType
<1>6. CASE At(s, k) < At(t, k)
  BY <1>4, <1>5, <1>6, LessAt
<1>7. CASE At(t, k) < At(s, k)
  BY <1>4, <1>5, <1>7, LessAt
<1> QED
  BY <1>5, <1>6, <1>7

-----------------------------------------------------------------------------
(***************************************************************************)
(* Sums                                                                    *)
(***************************************************************************)

(***************************************************************************)
(* What SumFunctionOnSet computes: it takes one element after another.     *)
(***************************************************************************)
One(s) == CHOOSE x \in s : TRUE

IsSum(h, f, S) ==
  h = [s \in SUBSET S |-> IF s = {} THEN 0 ELSE f[One(s)] + h[s \ {One(s)}]]

LEMMA SumIs ==
  ASSUME NEW f, NEW S, \E h : IsSum(h, f, S)
  PROVE  \E h : IsSum(h, f, S) /\ SumFunctionOnSet(f, S) = h[S]
<1> DEFINE R(h) == h = [s \in SUBSET S |->
                         IF s = {} THEN 0 ELSE f[CHOOSE x \in s : TRUE] + h[s \ {CHOOSE x \in s : TRUE}]]
           g == CHOOSE h : R(h)
<1>1. \E h : R(h)
  BY DEF IsSum, One
<1>2. R(g)
  <2> HIDE DEF R
  <2> QED
    BY <1>1
<1>3. SumFunctionOnSet(f, S) = g[S]
  BY DEF SumFunctionOnSet, FoldFunctionOnSet, MapThenFoldSet
<1>4. IsSum(g, f, S)
  BY <1>2 DEF IsSum, One
<1> QED
  BY <1>3, <1>4

LEMMA FiniteImage ==
  ASSUME NEW S, IsFiniteSet(S), NEW A
  PROVE  IsFiniteSet({A[x] : x \in S})
<1> DEFINE T == {A[x] : x \in S}
           m == [x \in S |-> A[x]]
<1>1. m \in [S -> T] /\ \A t \in T : \E x \in S : m[x] = t
  OBVIOUS
<1>2. m \in Surjection(S, T)
  BY <1>1 DEF Surjection
<1> QED
  BY <1>2, FS_Surjection

(***************************************************************************)
(* A sum of cardinalities is the cardinality of the union.                 *)
(***************************************************************************)
LEMMA SumOfParts ==
  ASSUME NEW S, IsFiniteSet(S), NEW f, NEW A,
         \A x \in S : IsFiniteSet(A[x]) /\ Cardinality(A[x]) = f[x],
         \A x, y \in S : x # y => A[x] \cap A[y] = {}
  PROVE  /\ IsFiniteSet(UNION {A[x] : x \in S})
         /\ SumFunctionOnSet(f, S) = Cardinality(UNION {A[x] : x \in S})
<1> DEFINE Parts(s) == UNION {A[x] : x \in s}
           h == [s \in SUBSET S |-> Cardinality(Parts(s))]
<1>1. ASSUME NEW s \in SUBSET S
      PROVE  IsFiniteSet(s) /\ IsFiniteSet(Parts(s))
  <2>1. IsFiniteSet(s)
    BY FS_Subset
  <2>2. IsFiniteSet({A[x] : x \in s})
    BY <2>1, FiniteImage
  <2>3. \A T \in {A[x] : x \in s} : IsFiniteSet(T)
    OBVIOUS
  <2> QED
    BY <2>1, <2>2, <2>3, FS_UNION
<1>2. ASSUME NEW s \in SUBSET S, s # {}
      PROVE  /\ One(s) \in s /\ s \ {One(s)} \in SUBSET S
             /\ Cardinality(s \ {One(s)}) \in Nat
             /\ Cardinality(s \ {One(s)}) < Cardinality(s) /\ Cardinality(s) \in Nat
             /\ Cardinality(Parts(s)) = f[One(s)] + Cardinality(Parts(s \ {One(s)}))
  <2>1. PICK x : x = One(s)
    OBVIOUS
  <2>2. x \in s /\ x \in S
    BY <2>1, <1>2 DEF One
  <2>3. PICK t : t = s \ {x}
    OBVIOUS
  <2>4. t \in SUBSET S /\ IsFiniteSet(s) /\ IsFiniteSet(t)
    BY <2>3, <1>1
  <2>5. Cardinality(t) = Cardinality(s) - 1 /\ Cardinality(s) \in Nat /\ Cardinality(t) \in Nat
    BY <2>2, <2>3, <2>4, FS_RemoveElement, FS_CardinalityType
  <2>6. Parts(s) = A[x] \cup Parts(t)
    BY <2>2, <2>3
  <2>7. A[x] \cap Parts(t) = {}
    BY <2>2, <2>3, <2>4
  <2>8. IsFiniteSet(A[x]) /\ IsFiniteSet(Parts(t)) /\ Cardinality(A[x]) = f[x]
    BY <2>2, <2>4, <1>1
  <2> HIDE DEF Parts
  <2>9. Cardinality(A[x] \cup Parts(t)) = Cardinality(A[x]) + Cardinality(Parts(t))
    <3>1. Cardinality(A[x] \cup Parts(t))
            = Cardinality(A[x]) + Cardinality(Parts(t)) - Cardinality(A[x] \cap Parts(t))
      BY <2>8, FS_Union
    <3>2. Cardinality({}) = 0
      BY FS_EmptySet
    <3>3. Cardinality(A[x]) \in Nat /\ Cardinality(Parts(t)) \in Nat
      BY <2>8, FS_CardinalityType
    <3>4. Cardinality(A[x] \cap Parts(t)) = 0
      BY <2>7, <3>2
    <3> QED
      BY <3>1, <3>3, <3>4
  <2> QED
    BY <2>1, <2>2, <2>3, <2>4, <2>5, <2>6, <2>8, <2>9
<1>3. Cardinality(Parts({})) = 0
  <2>1. Parts({}) = {}
    OBVIOUS
  <2> QED
    BY <2>1, FS_EmptySet
<1> HIDE DEF Parts
<1>4. IsSum(h, f, S)
  <2> DEFINE F(s) == IF s = {} THEN 0 ELSE f[One(s)] + h[s \ {One(s)}]
  <2>1. ASSUME NEW s \in SUBSET S PROVE h[s] = F(s)
    <3>1. CASE s = {}
      BY <3>1, <1>3
    <3>2. CASE s # {}
      <4>1. h[s \ {One(s)}] = Cardinality(Parts(s \ {One(s)}))
        BY <3>2, <1>2
      <4>2. h[s] = f[One(s)] + Cardinality(Parts(s \ {One(s)}))
        BY <3>2, <1>2
      <4> HIDE DEF h
      <4> QED
        BY <3>2, <4>1, <4>2
    <3> QED
      BY <3>1, <3>2
  <2>2. h = [s \in SUBSET S |-> h[s]]
    OBVIOUS
  <2> HIDE DEF h
  <2>3. [s \in SUBSET S |-> h[s]] = [s \in SUBSET S |-> F(s)]
    BY <2>1
  <2> QED
    BY <2>2, <2>3 DEF IsSum
<1>5. PICK g : IsSum(g, f, S) /\ SumFunctionOnSet(f, S) = g[S]
  BY <1>4, SumIs
<1> HIDE DEF h
<1>6. \A s \in SUBSET S : g[s] = IF s = {} THEN 0 ELSE f[One(s)] + g[s \ {One(s)}]
  BY <1>5 DEF IsSum
<1>7. \A s \in SUBSET S : g[s] = Cardinality(Parts(s))
  <2> DEFINE Wrong == {s \in SUBSET S : g[s] # Cardinality(Parts(s))}
             Sizes == {k \in Nat : \E s \in Wrong : Cardinality(s) = k}
  <2> SUFFICES ASSUME Wrong # {} PROVE FALSE
    OBVIOUS
  <2>1. Sizes # {} /\ Sizes \subseteq Nat
    BY <1>1, FS_CardinalityType
  <2>2. PICK k \in Sizes : \A j \in Sizes : k <= j
    <3> HIDE DEF Sizes
    <3> QED
      BY <2>1, LeastNatural
  <2>3. PICK s \in Wrong : Cardinality(s) = k
    BY <2>2
  <2>4. s # {}
    BY <2>3, <1>3, <1>6
  <2>5. PICK t : t = s \ {One(s)}
    OBVIOUS
  <2>6. /\ t \in SUBSET S /\ Cardinality(t) \in Nat /\ Cardinality(t) < k
        /\ Cardinality(Parts(s)) = f[One(s)] + Cardinality(Parts(t))
    BY <2>3, <2>4, <2>5, <1>2
  <2>7. g[s] = f[One(s)] + g[t] /\ g[s] # Cardinality(Parts(s))
    BY <2>3, <2>4, <2>5, <1>6
  <2>8. t \in Wrong
    BY <2>6, <2>7
  <2>9. Cardinality(t) \in Sizes
    BY <2>6, <2>8
  <2> HIDE DEF Sizes, Wrong
  <2> QED
    BY <2>1, <2>2, <2>6, <2>9
<1>8. S \in SUBSET S /\ IsFiniteSet(Parts(S))
  BY <1>1
<1> QED
  BY <1>5, <1>7, <1>8 DEF Parts

(***************************************************************************)
(* The same, of parts A of a set U.                                        *)
(***************************************************************************)
AreParts(A, S, U, f) ==
  /\ IsFiniteSet(S) /\ U = UNION {A[x] : x \in S}
  /\ \A x \in S : IsFiniteSet(A[x]) /\ Cardinality(A[x]) = f[x]
  /\ \A x, y \in S : x # y => A[x] \cap A[y] = {}

LEMMA SumOfAllParts ==
  ASSUME NEW A, NEW S, NEW U, NEW f, AreParts(A, S, U, f)
  PROVE  IsFiniteSet(U) /\ SumFunctionOnSet(f, S) = Cardinality(U)
BY SumOfParts DEF AreParts

-----------------------------------------------------------------------------
(***************************************************************************)
(* Finite sets in order                                                    *)
(***************************************************************************)

(***************************************************************************)
(* R is a strict total order of S, as a set of pairs.                      *)
(***************************************************************************)
IsOrder(R, S) ==
  /\ \A x \in S : <<x, x>> \notin R
  /\ \A x, y, z \in S : <<x, y>> \in R /\ <<y, z>> \in R => <<x, z>> \in R
  /\ \A x, y \in S : x = y \/ <<x, y>> \in R \/ <<y, x>> \in R

UpTo(R, S, x) == {y \in S : y = x \/ <<y, x>> \in R}

LEMMA RankRises ==
  ASSUME NEW S, IsFiniteSet(S), NEW R, IsOrder(R, S),
         NEW x \in S, NEW y \in S, <<x, y>> \in R
  PROVE  Cardinality(UpTo(R, S, x)) < Cardinality(UpTo(R, S, y))
<1>1. PICK X : X = UpTo(R, S, x)
  OBVIOUS
<1>2. PICK Y : Y = UpTo(R, S, y)
  OBVIOUS
<1>3. IsFiniteSet(X) /\ IsFiniteSet(Y)
  BY <1>1, <1>2, FS_Subset DEF UpTo
<1>4. X \subseteq Y
  BY <1>1, <1>2 DEF UpTo, IsOrder
<1>5. y \in Y /\ y \notin X
  BY <1>1, <1>2 DEF UpTo, IsOrder
<1>6. Cardinality(X) <= Cardinality(Y) /\ Cardinality(X) # Cardinality(Y)
  BY <1>3, <1>4, <1>5, FS_Subset
<1>7. Cardinality(X) \in Nat /\ Cardinality(Y) \in Nat
  BY <1>3, FS_CardinalityType
<1> QED
  BY <1>1, <1>2, <1>6, <1>7

LEMMA RankInRange ==
  ASSUME NEW S, IsFiniteSet(S), NEW R, NEW x \in S
  PROVE  /\ Cardinality(S) \in Nat
         /\ Cardinality(UpTo(R, S, x)) \in 1..Cardinality(S)
<1>1. PICK X : X = UpTo(R, S, x)
  OBVIOUS
<1>2. X \in SUBSET S /\ x \in X
  BY <1>1 DEF UpTo
<1>3. IsFiniteSet(X) /\ Cardinality(X) <= Cardinality(S)
  BY <1>2, FS_Subset
<1>4. Cardinality(X) \in Nat /\ Cardinality(S) \in Nat /\ Cardinality(X) # 0
  BY <1>2, <1>3, FS_CardinalityType, FS_EmptySet
<1> QED
  BY <1>1, <1>3, <1>4

(***************************************************************************)
(* One element has a given rank.                                           *)
(***************************************************************************)
LEMMA SameRank ==
  ASSUME NEW S, IsFiniteSet(S), NEW R, IsOrder(R, S), NEW x \in S, NEW y \in S,
         Cardinality(UpTo(R, S, x)) = Cardinality(UpTo(R, S, y))
  PROVE  x = y
<1>1. Cardinality(UpTo(R, S, x)) \in Nat
  BY RankInRange
<1>2. <<x, y>> \notin R
  BY <1>1, RankRises
<1>3. <<y, x>> \notin R
  BY <1>1, RankRises
<1> QED
  BY <1>2, <1>3 DEF IsOrder

LEMMA EveryRank ==
  ASSUME NEW S, IsFiniteSet(S), NEW R, IsOrder(R, S), NEW k \in 1..Cardinality(S)
  PROVE  \E x \in S : Cardinality(UpTo(R, S, x)) = k
<1>1. PICK n : n = Cardinality(S)
  OBVIOUS
<1>2. n \in Nat
  BY <1>1, FS_CardinalityType
<1> DEFINE rank == [x \in S |-> Cardinality(UpTo(R, S, x))]
<1>3. rank \in [S -> 1..n]
  BY <1>1, RankInRange
<1>4. ASSUME NEW x \in S, NEW y \in S, rank[x] = rank[y] PROVE x = y
  BY <1>4, SameRank
<1>5. \A x \in S : rank[x] = Cardinality(UpTo(R, S, x))
  OBVIOUS
<1> HIDE DEF rank
<1>6. rank \in Injection(S, 1..n)
  BY <1>3, <1>4 DEF Injection, IsInjective
<1>7. IsFiniteSet(1..n) /\ Cardinality(1..n) = n
  <2>1. 1 \in Int /\ n \in Int
    BY <1>2
  <2>2. IsFiniteSet(1..n) /\ Cardinality(1..n) = IF 1 > n THEN 0 ELSE n - 1 + 1
    BY <2>1, FS_Interval
  <2> QED
    BY <1>2, <2>2
<1>8. rank \in Surjection(S, 1..n)
  BY <1>1, <1>6, <1>7, FS_Injection
<1>9. \E x \in S : rank[x] = k
  BY <1>1, <1>8 DEF Surjection
<1> QED
  BY <1>5, <1>9

(***************************************************************************)
(* s lists S in order.                                                     *)
(***************************************************************************)
Ascends(R, S, s) ==
  /\ s \in Seq(S)
  /\ \A x \in S : \E k \in 1..Len(s) : s[k] = x
  /\ \A j, k \in 1..Len(s) : j < k => <<s[j], s[k]>> \in R

LEMMA ListExists ==
  ASSUME NEW S, IsFiniteSet(S), NEW R, IsOrder(R, S)
  PROVE  \E s \in [1..Cardinality(S) -> S] : Ascends(R, S, s)
<1>1. PICK n : n = Cardinality(S)
  OBVIOUS
<1>2. n \in Nat
  BY <1>1, FS_CardinalityType
<1> DEFINE Rank(x) == Cardinality(UpTo(R, S, x))
           s == [k \in 1..n |-> CHOOSE x \in S : Rank(x) = k]
<1>3. ASSUME NEW k \in 1..n PROVE s[k] \in S /\ Rank(s[k]) = k
  BY <1>1, EveryRank
<1>4. s \in [1..n -> S]
  BY <1>3
<1>5. s \in Seq(S) /\ Len(s) = n
  BY <1>2, <1>4
<1>6. ASSUME NEW x \in S PROVE \E k \in 1..n : s[k] = x
  <2>1. PICK k \in 1..n : k = Rank(x)
    BY <1>1, RankInRange
  <2>2. s[k] = x
    BY <1>3, <2>1, SameRank
  <2> QED
    BY <2>2
<1>7. ASSUME NEW j \in 1..n, NEW k \in 1..n, j < k PROVE <<s[j], s[k]>> \in R
  <2>1. s[j] \in S /\ s[k] \in S /\ Rank(s[j]) = j /\ Rank(s[k]) = k
    BY <1>3
  <2>2. PICK x \in S : x = s[j]
    BY <2>1
  <2>3. PICK y \in S : y = s[k]
    BY <2>1
  <2>4. x # y
    BY <1>2, <1>7, <2>1, <2>2, <2>3
  <2>5. <<y, x>> \notin R
    <3> SUFFICES ASSUME <<y, x>> \in R PROVE FALSE
      OBVIOUS
    <3>1. Rank(y) < Rank(x)
      BY RankRises
    <3> QED
      BY <3>1, <1>2, <1>7, <2>1, <2>2, <2>3
  <2> QED
    BY <2>2, <2>3, <2>4, <2>5 DEF IsOrder
<1> HIDE DEF s, Rank
<1>8. Ascends(R, S, s)
  BY <1>5, <1>6, <1>7 DEF Ascends
<1> QED
  BY <1>1, <1>4, <1>8

(***************************************************************************)
(* There is one such list.                                                 *)
(***************************************************************************)
LEMMA ListsAgree ==
  ASSUME NEW S, NEW R, IsOrder(R, S), NEW s, Ascends(R, S, s), NEW t, Ascends(R, S, t)
  PROVE  /\ Len(s) \in Nat /\ Len(t) \in Nat
         /\ \A k \in 1..Len(s) : k <= Len(t) => s[k] = t[k]
<1>1. /\ s \in Seq(S) /\ \A k \in 1..Len(s) : s[k] \in S
      /\ t \in Seq(S) /\ \A k \in 1..Len(t) : t[k] \in S
      /\ Len(s) \in Nat /\ Len(t) \in Nat
  BY ElementOfSeq, LenProperties DEF Ascends
<1> DEFINE Bad == {k \in 1..Len(s) : k <= Len(t) /\ s[k] # t[k]}
<1> SUFFICES ASSUME Bad # {} PROVE FALSE
  BY <1>1
<1>2. PICK k \in Bad : \A y \in Bad : k <= y
  <2>1. Bad \subseteq Nat
    OBVIOUS
  <2> HIDE DEF Bad
  <2> QED
    BY <2>1, LeastNatural
<1>3. /\ k \in 1..Len(s) /\ k \in 1..Len(t) /\ s[k] # t[k]
      /\ \A j \in 1..(k - 1) : s[j] = t[j]
  BY <1>1, <1>2
<1>4. PICK i \in 1..Len(t) : t[i] = s[k]
  BY <1>1, <1>3 DEF Ascends
<1>5. PICK j \in 1..Len(s) : s[j] = t[k]
  BY <1>1, <1>3 DEF Ascends
<1>6. k < i
  <2>1. i # k
    BY <1>3, <1>4
  <2>2. ~ (i < k)
    <3> SUFFICES ASSUME i < k PROVE FALSE
      OBVIOUS
    <3>1. i \in 1..(k - 1) /\ i \in 1..Len(s)
      BY <1>1, <1>3
    <3>2. s[i] = s[k]
      BY <3>1, <1>3, <1>4
    <3>3. <<s[i], s[k]>> \in R
      BY <3>1, <1>3 DEF Ascends
    <3> QED
      BY <3>2, <3>3, <1>1, <1>3 DEF IsOrder
  <2> QED
    BY <2>1, <2>2, <1>1, <1>3
<1>7. k < j
  <2>1. j # k
    BY <1>3, <1>5
  <2>2. ~ (j < k)
    <3> SUFFICES ASSUME j < k PROVE FALSE
      OBVIOUS
    <3>1. j \in 1..(k - 1) /\ j \in 1..Len(t)
      BY <1>1, <1>3
    <3>2. t[j] = t[k]
      BY <3>1, <1>3, <1>5
    <3>3. <<t[j], t[k]>> \in R
      BY <3>1, <1>3 DEF Ascends
    <3> QED
      BY <3>2, <3>3, <1>1, <1>3 DEF IsOrder
  <2> QED
    BY <2>1, <2>2, <1>1, <1>3
<1>8. <<t[k], s[k]>> \in R
  BY <1>3, <1>4, <1>6 DEF Ascends
<1>9. <<s[k], t[k]>> \in R
  BY <1>3, <1>5, <1>7 DEF Ascends
<1> QED
  BY <1>1, <1>3, <1>8, <1>9 DEF IsOrder

LEMMA ListNotLonger ==
  ASSUME NEW S, NEW R, IsOrder(R, S), NEW s, Ascends(R, S, s), NEW t, Ascends(R, S, t)
  PROVE  Len(s) <= Len(t)
<1>1. /\ Len(s) \in Nat /\ Len(t) \in Nat
      /\ \A k \in 1..Len(s) : s[k] \in S
      /\ \A k \in 1..Len(s) : k <= Len(t) => s[k] = t[k]
  <2>1. /\ Len(s) \in Nat /\ Len(t) \in Nat
        /\ \A k \in 1..Len(s) : k <= Len(t) => s[k] = t[k]
    BY ListsAgree
  <2>2. s \in Seq(S)
    BY DEF Ascends
  <2>3. \A k \in 1..Len(s) : s[k] \in S
    BY <2>2, ElementOfSeq
  <2> QED
    BY <2>1, <2>3
<1> SUFFICES ASSUME Len(t) < Len(s) PROVE FALSE
  BY <1>1
<1>2. PICK m \in 1..Len(s) : m = Len(t) + 1
  BY <1>1
<1>3. PICK j \in 1..Len(t) : t[j] = s[m]
  BY <1>1 DEF Ascends
<1>4. j \in 1..Len(s) /\ j < m /\ s[j] = s[m]
  BY <1>1, <1>2, <1>3
<1>5. <<s[j], s[m]>> \in R
  BY <1>4 DEF Ascends
<1> QED
  BY <1>1, <1>4, <1>5 DEF IsOrder

LEMMA ListUnique ==
  ASSUME NEW S, NEW R, IsOrder(R, S), NEW s, Ascends(R, S, s), NEW t, Ascends(R, S, t)
  PROVE  s = t
<1>1. /\ Len(s) \in Nat /\ Len(t) \in Nat
      /\ \A k \in 1..Len(s) : k <= Len(t) => s[k] = t[k]
  BY ListsAgree
<1>2. Len(s) <= Len(t) /\ Len(t) <= Len(s)
  BY ListNotLonger
<1>3. Len(s) = Len(t) /\ \A k \in 1..Len(s) : s[k] = t[k]
  BY <1>1, <1>2
<1>4. s \in Seq(S) /\ t \in Seq(S)
  BY DEF Ascends
<1> QED
  BY <1>3, <1>4, SeqEqual

(***************************************************************************)
(* Finite sets of naturals.                                                *)
(***************************************************************************)
LEMMA GreatestNatural ==
  ASSUME NEW S, S \subseteq Nat, S # {}, IsFiniteSet(S)
  PROVE  \E x \in S : \A y \in S : y <= x
<1> DEFINE R == {p \in S \X S : p[1] < p[2]}
<1>1. IsOrder(R, S)
  <2>1. \A x, y \in S : <<x, y>> \in R <=> x < y
    OBVIOUS
  <2> HIDE DEF R
  <2> QED
    BY <2>1 DEF IsOrder
<1>2. PICK s \in [1..Cardinality(S) -> S] : Ascends(R, S, s)
  BY <1>1, ListExists
<1>3. PICK n \in Nat : n = Cardinality(S) /\ n # 0
  BY FS_CardinalityType, FS_EmptySet
<1>4. Len(s) = n /\ n \in 1..n
  BY <1>2, <1>3
<1>5. s[n] \in S
  BY <1>3, <1>4
<1>6. ASSUME NEW y \in S PROVE y <= s[n]
  <2>1. PICK k \in 1..n : s[k] = y
    BY <1>2, <1>4 DEF Ascends
  <2>2. CASE k = n
    BY <2>1, <2>2
  <2>3. CASE k < n
    <3>1. <<s[k], s[n]>> \in R
      BY <1>2, <1>4, <2>3 DEF Ascends
    <3>2. y < s[n]
      BY <2>1, <3>1
    <3> QED
      <4>1. s[n] \in Nat /\ y \in Nat
        BY <1>5
      <4> QED
        BY <3>2, <4>1
  <2> QED
    BY <1>3, <2>2, <2>3
<1> QED
  BY <1>5, <1>6

-----------------------------------------------------------------------------
(***************************************************************************)
(* The first letters of a word                                             *)
(***************************************************************************)

LEMMA BeginningIs ==
  ASSUME NEW w \in Seq(Nat), NEW k \in 0..Len(w)
  PROVE  /\ SubSeq(w, 1, k) \in Seq(Nat) /\ Len(SubSeq(w, 1, k)) = k
         /\ \A j \in 1..k : SubSeq(w, 1, k)[j] = w[j]
         /\ PrefixOf(SubSeq(w, 1, k), w)
<1>1. Len(w) \in Nat /\ \A j \in 1..Len(w) : w[j] \in Nat
  BY LenProperties, ElementOfSeq
<1>2. PICK s : s = SubSeq(w, 1, k)
  OBVIOUS
<1>3. /\ s \in Seq(Nat) /\ Len(s) = IF 1 <= k THEN k - 1 + 1 ELSE 0
      /\ \A j \in 1..(k - 1 + 1) : s[j] = w[1 + j - 1]
  <2>1. 1 \in Int /\ k \in Int /\ \A j \in 1..k : w[j] \in Nat
    BY <1>1
  <2> QED
    BY <2>1, <1>2, SubSeqProperties
<1>4. Len(s) = k
  BY <1>3
<1>5. ASSUME NEW j \in 1..k PROVE s[j] = w[j]
  <2>1. j \in 1..(k - 1 + 1) /\ 1 + j - 1 = j
    OBVIOUS
  <2> QED
    BY <2>1, <1>3
<1>6. PrefixOf(s, w)
  <2>1. (Len(s) + 1) - 1 = k /\ Len(s) <= Len(w)
    BY <1>1, <1>4
  <2> QED
    BY <2>1, <1>5 DEF PrefixOf, AgreeBelow
<1> QED
  BY <1>2, <1>3, <1>4, <1>5, <1>6

LEMMA OneMoreLetter ==
  ASSUME NEW w \in Seq(Nat), NEW k \in 0..Len(w), k < Len(w)
  PROVE  /\ w[k + 1] \in Nat /\ k + 1 \in 0..Len(w)
         /\ SubSeq(w, 1, k + 1) = Append(SubSeq(w, 1, k), w[k + 1])
<1>1. Len(w) \in Nat
  BY LenProperties
<1>2. k + 1 \in 1..Len(w) /\ k + 1 \in 0..Len(w) /\ k \in Nat
  BY <1>1
<1>3. w[k + 1] \in Nat
  BY <1>2, ElementOfSeq
<1>4. PICK c \in Nat : c = w[k + 1]
  BY <1>3
<1>5. PICK m \in 0..Len(w) : m = k + 1
  BY <1>2
<1>6. PICK s : s = SubSeq(w, 1, k)
  OBVIOUS
<1>7. PICK t : t = SubSeq(w, 1, m)
  OBVIOUS
<1>8. s \in Seq(Nat) /\ Len(s) = k /\ \A j \in 1..k : s[j] = w[j]
  BY <1>6, BeginningIs
<1>9. t \in Seq(Nat) /\ Len(t) = k + 1 /\ \A j \in 1..(k + 1) : t[j] = w[j]
  BY <1>5, <1>7, BeginningIs
<1>10. PICK a : a = Append(s, c)
  OBVIOUS
<1>11. /\ a \in Seq(Nat) /\ Len(a) = k + 1 /\ \A j \in 1..k : a[j] = s[j]
       /\ a[k + 1] = c
  BY <1>8, <1>10, AppendProperties
<1>12. ASSUME NEW j \in 1..(k + 1) PROVE t[j] = a[j]
  <2>1. CASE j = k + 1
    BY <2>1, <1>4, <1>9, <1>11
  <2>2. CASE j # k + 1
    <3>1. j \in 1..k
      BY <2>2, <1>2
    <3> QED
      BY <3>1, <1>8, <1>9, <1>11
  <2> QED
    BY <2>1, <2>2
<1>13. t = a
  BY <1>9, <1>11, <1>12, SeqEqual
<1> QED
  BY <1>2, <1>3, <1>4, <1>5, <1>6, <1>7, <1>10, <1>13

LEMMA WholeWord ==
  ASSUME NEW w \in Seq(Nat)
  PROVE  SubSeq(w, 1, Len(w)) = w /\ Len(w) \in Nat /\ Len(w) \in 0..Len(w)
<1>1. Len(w) \in Nat /\ Len(w) \in 0..Len(w)
  BY LenProperties
<1>2. /\ SubSeq(w, 1, Len(w)) \in Seq(Nat) /\ Len(SubSeq(w, 1, Len(w))) = Len(w)
      /\ \A j \in 1..Len(w) : SubSeq(w, 1, Len(w))[j] = w[j]
  BY <1>1, BeginningIs
<1> QED
  BY <1>1, <1>2, SeqEqual

-----------------------------------------------------------------------------
(***************************************************************************)
(* Words in order                                                          *)
(***************************************************************************)

NotAfter(root, p) == {v \in root : LessEq(v, p)}

(***************************************************************************)
(* The order of a set of words.                                            *)
(***************************************************************************)
WordOrder(S) == {x \in S \X S : Less(x[1], x[2])}

LEMMA WordsAreOrdered ==
  ASSUME NEW S, S \subseteq Seq(Nat)
  PROVE  /\ IsOrder(WordOrder(S), S)
         /\ \A x, y \in S : <<x, y>> \in WordOrder(S) <=> Less(x, y)
         /\ \A x \in S : UpTo(WordOrder(S), S, x) = NotAfter(S, x)
<1>1. PICK R : R = WordOrder(S)
  OBVIOUS
<1>2. \A x, y \in S : <<x, y>> \in R <=> Less(x, y)
  BY <1>1 DEF WordOrder
<1>3. IsOrder(R, S)
  <2>1. \A x \in S : <<x, x>> \notin R
    BY <1>2, LessIrreflexive
  <2>2. \A x, y, z \in S : <<x, y>> \in R /\ <<y, z>> \in R => <<x, z>> \in R
    BY <1>2, LessTransitive
  <2>3. \A x, y \in S : x = y \/ <<x, y>> \in R \/ <<y, x>> \in R
    BY <1>2, LessTotal
  <2> QED
    BY <2>1, <2>2, <2>3 DEF IsOrder
<1>4. \A x \in S : UpTo(R, S, x) = NotAfter(S, x)
  BY <1>2 DEF UpTo, NotAfter, LessEq
<1> QED
  BY <1>1, <1>2, <1>3, <1>4
=============================================================================
