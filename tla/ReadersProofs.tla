--------------------------- MODULE ReadersProofs ---------------------------
(***************************************************************************)
(* The readers of a finished DAWG, for every finite set of words, every    *)
(* alphabet, every word asked for and every pattern: the numbers of        *)
(* word2index and index2word are the ranks of the words, exists,           *)
(* longest_prefix, match and words answer about the set, dump is its       *)
(* automaton, and the iterators return the words that match.  Every node   *)
(* on the way is what is left of the words behind the letters read.        *)
(***************************************************************************)
EXTENDS Readers, WordsProofs

-----------------------------------------------------------------------------
(***************************************************************************)
(* Words and what is left of them                                          *)
(***************************************************************************)

LEMMA ConsFacts ==
  ASSUME NEW l \in Nat, NEW u \in Seq(Nat)
  PROVE  /\ Cons(l, u) \in Seq(Nat) /\ Len(u) \in Nat
         /\ Len(Cons(l, u)) = 1 + Len(u) /\ Cons(l, u)[1] = l
         /\ \A k \in 1..Len(u) : Cons(l, u)[1 + k] = u[k]
<1>1. PICK v : v = <<l>>
  OBVIOUS
<1>2. v \in Seq(Nat) /\ Len(v) = 1 /\ v[1] = l
  BY <1>1
<1>3. Len(u) \in Nat
  BY LenProperties
<1>4. PICK w : w = v \o u
  OBVIOUS
<1>5. /\ w \in Seq(Nat) /\ Len(w) = 1 + Len(u)
      /\ \A j \in 1..(1 + Len(u)) : w[j] = IF j <= 1 THEN v[j] ELSE u[j - 1]
  <2>1. /\ w \in Seq(Nat) /\ Len(w) = Len(v) + Len(u)
        /\ \A j \in 1..(Len(v) + Len(u)) : w[j] = IF j <= Len(v) THEN v[j] ELSE u[j - Len(v)]
    BY <1>2, <1>4, ConcatProperties
  <2> QED
    BY <2>1, <1>2
<1>6. w[1] = l
  <2>1. 1 \in 1..(1 + Len(u))
    BY <1>3
  <2> QED
    BY <2>1, <1>2, <1>5
<1>7. ASSUME NEW k \in 1..Len(u) PROVE w[1 + k] = u[k]
  <2>1. 1 + k \in 1..(1 + Len(u)) /\ ~ (1 + k <= 1) /\ (1 + k) - 1 = k
    BY <1>3
  <2> QED
    BY <2>1, <1>5
<1> QED
  BY <1>1, <1>3, <1>4, <1>5, <1>6, <1>7 DEF Cons

LEMMA ConsParts ==
  ASSUME NEW l \in Nat, NEW u \in Seq(Nat)
  PROVE  Cons(l, u) # <<>> /\ Head(Cons(l, u)) = l /\ Tail(Cons(l, u)) = u
<1>1. PICK w : w = Cons(l, u)
  OBVIOUS
<1>2. /\ w \in Seq(Nat) /\ Len(u) \in Nat /\ Len(w) = 1 + Len(u) /\ w[1] = l
      /\ \A k \in 1..Len(u) : w[1 + k] = u[k]
  BY <1>1, ConsFacts
<1>3. w # <<>>
  BY <1>2, EmptySeq
<1>4. Head(w) = l
  BY <1>2
<1>5. /\ Tail(w) \in Seq(Nat) /\ Len(Tail(w)) = Len(u)
      /\ \A j \in 1..Len(Tail(w)) : Tail(w)[j] = w[j + 1]
  <2>1. /\ Tail(w) \in Seq(Nat) /\ Len(Tail(w)) = Len(w) - 1
        /\ \A j \in 1..Len(Tail(w)) : Tail(w)[j] = w[j + 1]
    BY <1>2, <1>3, HeadTailProperties
  <2> QED
    BY <2>1, <1>2
<1>6. ASSUME NEW j \in 1..Len(u) PROVE Tail(w)[j] = u[j]
  <2>1. j + 1 = 1 + j
    OBVIOUS
  <2> QED
    BY <2>1, <1>2, <1>5
<1>7. Tail(w) = u
  BY <1>5, <1>6, SeqEqual
<1> QED
  BY <1>1, <1>3, <1>4, <1>7

LEMMA ConsOfWord ==
  ASSUME NEW w \in Seq(Nat), w # <<>>
  PROVE  Head(w) \in Nat /\ Tail(w) \in Seq(Nat) /\ w = Cons(Head(w), Tail(w))
<1>1. /\ Head(w) \in Nat /\ Tail(w) \in Seq(Nat) /\ Len(Tail(w)) = Len(w) - 1
      /\ \A j \in 1..Len(Tail(w)) : Tail(w)[j] = w[j + 1]
  BY HeadTailProperties
<1>2. PICK l \in Nat : l = Head(w)
  BY <1>1
<1>3. PICK u \in Seq(Nat) : u = Tail(w)
  BY <1>1
<1>4. PICK v : v = Cons(l, u)
  OBVIOUS
<1>5. /\ v \in Seq(Nat) /\ Len(v) = 1 + Len(u) /\ v[1] = l
      /\ \A k \in 1..Len(u) : v[1 + k] = u[k]
  <2>1. /\ Cons(l, u) \in Seq(Nat) /\ Len(Cons(l, u)) = 1 + Len(u) /\ Cons(l, u)[1] = l
        /\ \A k \in 1..Len(u) : Cons(l, u)[1 + k] = u[k]
    BY ConsFacts
  <2> QED
    BY <2>1, <1>4
<1>6. Len(w) \in Nat /\ Len(u) \in Nat /\ Len(v) = Len(w)
  BY <1>1, <1>3, <1>5, LenProperties
<1>7. ASSUME NEW k \in 1..Len(w) PROVE w[k] = v[k]
  <2>1. CASE k = 1
    BY <2>1, <1>2, <1>5
  <2>2. CASE k # 1
    <3>1. k - 1 \in 1..Len(u) /\ 1 + (k - 1) = k /\ (k - 1) + 1 = k
      BY <2>2, <1>5, <1>6
    <3> QED
      BY <3>1, <1>1, <1>3, <1>5
  <2> QED
    BY <2>1, <2>2
<1>8. w = v
  BY <1>5, <1>6, <1>7, SeqEqual
<1> QED
  BY <1>1, <1>2, <1>3, <1>4, <1>8

(***************************************************************************)
(* p is a prefix of the words that go on behind it.                        *)
(***************************************************************************)
LEMMA PrefixJoined ==
  ASSUME NEW p \in Seq(Nat), NEW u \in Seq(Nat)
  PROVE  /\ p \o u \in Seq(Nat) /\ PrefixOf(p, p \o u)
         /\ SubSeq(p \o u, Len(p) + 1, Len(p \o u)) = u
         /\ Len(p) \in Nat /\ Len(u) \in Nat /\ Len(p \o u) = Len(p) + Len(u)
         /\ \A k \in 1..Len(p) : (p \o u)[k] = p[k]
         /\ \A k \in 1..Len(u) : (p \o u)[Len(p) + k] = u[k]
<1>1. PICK v : v = p \o u
  OBVIOUS
<1>2. Len(p) \in Nat /\ Len(u) \in Nat
  BY LenProperties
<1>3. /\ v \in Seq(Nat) /\ Len(v) = Len(p) + Len(u)
      /\ \A j \in 1..(Len(p) + Len(u)) : v[j] = IF j <= Len(p) THEN p[j] ELSE u[j - Len(p)]
  BY <1>1, ConcatProperties
<1>4. ASSUME NEW k \in 1..Len(p) PROVE v[k] = p[k]
  <2>1. k \in 1..(Len(p) + Len(u)) /\ k <= Len(p)
    BY <1>2
  <2> QED
    BY <2>1, <1>3
<1>5. ASSUME NEW k \in 1..Len(u) PROVE v[Len(p) + k] = u[k]
  <2>1. /\ Len(p) + k \in 1..(Len(p) + Len(u)) /\ ~ (Len(p) + k <= Len(p))
        /\ (Len(p) + k) - Len(p) = k
    BY <1>2
  <2> QED
    BY <2>1, <1>3
<1>6. PrefixOf(p, v)
  <2>1. (Len(p) + 1) - 1 = Len(p) /\ Len(p) <= Len(v)
    BY <1>2, <1>3
  <2> QED
    BY <2>1, <1>4 DEF PrefixOf, AgreeBelow
<1>7. SubSeq(v, Len(p) + 1, Len(v)) = u
  <2>1. PICK s : s = SubSeq(v, Len(p) + 1, Len(v))
    OBVIOUS
  <2>2. \A j \in (Len(p) + 1)..Len(v) : v[j] \in Nat
    <3>1. \A j \in (Len(p) + 1)..Len(v) : j \in 1..Len(v)
      BY <1>2, <1>3
    <3> QED
      BY <3>1, <1>3, ElementOfSeq
  <2>3. /\ s \in Seq(Nat)
        /\ Len(s) = IF Len(p) + 1 <= Len(v) THEN Len(v) - (Len(p) + 1) + 1 ELSE 0
        /\ \A j \in 1..(Len(v) - (Len(p) + 1) + 1) : s[j] = v[(Len(p) + 1) + j - 1]
    <3>1. Len(p) + 1 \in Int /\ Len(v) \in Int
      BY <1>2, <1>3
    <3> QED
      BY <2>1, <2>2, <3>1, SubSeqProperties
  <2>4. Len(s) = Len(u)
    BY <2>3, <1>2, <1>3
  <2>5. ASSUME NEW j \in 1..Len(s) PROVE s[j] = u[j]
    <3>1. j \in 1..(Len(v) - (Len(p) + 1) + 1) /\ (Len(p) + 1) + j - 1 = Len(p) + j
          /\ j \in 1..Len(u)
      BY <2>4, <1>2, <1>3
    <3> QED
      BY <3>1, <2>3, <1>5
  <2> QED
    BY <2>1, <2>3, <2>4, <2>5, SeqEqual
<1> QED
  BY <1>1, <1>2, <1>3, <1>4, <1>5, <1>6, <1>7

LEMMA JoinedPrefix ==
  ASSUME NEW p \in Seq(Nat), NEW v \in Seq(Nat), PrefixOf(p, v)
  PROVE  /\ SubSeq(v, Len(p) + 1, Len(v)) \in Seq(Nat)
         /\ p \o SubSeq(v, Len(p) + 1, Len(v)) = v
<1>1. PICK u : u = SubSeq(v, Len(p) + 1, Len(v))
  OBVIOUS
<1>2. /\ Len(p) \in Nat /\ Len(v) \in Nat /\ Len(p) <= Len(v)
      /\ \A k \in 1..Len(p) : p[k] = v[k]
  <2>1. Len(p) \in Nat /\ Len(v) \in Nat /\ (Len(p) + 1) - 1 = Len(p)
    BY LenProperties
  <2> QED
    BY <2>1 DEF PrefixOf, AgreeBelow
<1>3. /\ u \in Seq(Nat) /\ Len(u) = Len(v) - Len(p)
      /\ \A j \in 1..Len(u) : u[j] = v[Len(p) + j]
  <2>1. \A j \in (Len(p) + 1)..Len(v) : v[j] \in Nat
    <3>1. \A j \in (Len(p) + 1)..Len(v) : j \in 1..Len(v)
      BY <1>2
    <3> QED
      BY <3>1, ElementOfSeq
  <2>2. /\ u \in Seq(Nat)
        /\ Len(u) = IF Len(p) + 1 <= Len(v) THEN Len(v) - (Len(p) + 1) + 1 ELSE 0
        /\ \A j \in 1..(Len(v) - (Len(p) + 1) + 1) : u[j] = v[(Len(p) + 1) + j - 1]
    <3>1. Len(p) + 1 \in Int /\ Len(v) \in Int
      BY <1>2
    <3> QED
      BY <2>1, <1>1, <3>1, SubSeqProperties
  <2>3. Len(u) = Len(v) - Len(p)
    BY <2>2, <1>2
  <2>4. ASSUME NEW j \in 1..Len(u) PROVE u[j] = v[Len(p) + j]
    <3>1. j \in 1..(Len(v) - (Len(p) + 1) + 1) /\ (Len(p) + 1) + j - 1 = Len(p) + j
      BY <2>3, <1>2
    <3> QED
      BY <3>1, <2>2
  <2> QED
    BY <2>2, <2>3, <2>4
<1>4. PICK w : w = p \o u
  OBVIOUS
<1>5. /\ w \in Seq(Nat) /\ Len(w) = Len(p) + Len(u)
      /\ \A k \in 1..Len(p) : w[k] = p[k]
      /\ \A k \in 1..Len(u) : w[Len(p) + k] = u[k]
  BY <1>3, <1>4, PrefixJoined
<1>6. Len(w) = Len(v)
  BY <1>2, <1>3, <1>5
<1>7. ASSUME NEW k \in 1..Len(v) PROVE w[k] = v[k]
  <2>1. CASE k <= Len(p)
    <3>1. k \in 1..Len(p)
      BY <2>1, <1>2
    <3> QED
      BY <3>1, <1>2, <1>5
  <2>2. CASE ~ (k <= Len(p))
    <3>1. PICK j \in 1..Len(u) : Len(p) + j = k
      <4>1. k - Len(p) \in 1..Len(u) /\ Len(p) + (k - Len(p)) = k
        BY <2>2, <1>2, <1>3
      <4> QED
        BY <4>1
    <3> QED
      BY <3>1, <1>3, <1>5
  <2> QED
    BY <2>1, <2>2
<1>8. w = v
  BY <1>5, <1>6, <1>7, SeqEqual
<1> QED
  BY <1>1, <1>3, <1>4, <1>8

-----------------------------------------------------------------------------
(***************************************************************************)
(* Nodes                                                                   *)
(***************************************************************************)

LEMMA InChild ==
  ASSUME NEW n, n \subseteq Seq(Nat), NEW l, NEW u
  PROVE  u \in Child(n, l) <=> l \in Nat /\ u \in Seq(Nat) /\ Cons(l, u) \in n
<1>1. ASSUME u \in Child(n, l)
      PROVE  l \in Nat /\ u \in Seq(Nat) /\ Cons(l, u) \in n
  <2>1. PICK w \in n : w # <<>> /\ Head(w) = l /\ u = Tail(w)
    BY <1>1 DEF Child
  <2>2. Head(w) \in Nat /\ Tail(w) \in Seq(Nat) /\ w = Cons(Head(w), Tail(w))
    BY <2>1, ConsOfWord
  <2> QED
    BY <2>1, <2>2
<1>2. ASSUME l \in Nat, u \in Seq(Nat), Cons(l, u) \in n
      PROVE  u \in Child(n, l)
  <2>1. PICK w \in n : w = Cons(l, u)
    BY <1>2
  <2>2. w # <<>> /\ Head(w) = l /\ Tail(w) = u
    BY <2>1, <1>2, ConsParts
  <2> QED
    BY <2>2 DEF Child
<1> QED
  BY <1>1, <1>2

LEMMA InLabels ==
  ASSUME NEW n, n \subseteq Seq(Nat), NEW l
  PROVE  l \in Labels(n) <=> Child(n, l) # {}
BY DEF Labels, Child

LEMMA LabelsAreLetters ==
  ASSUME NEW n, n \subseteq Seq(Nat), IsFiniteSet(n)
  PROVE  Labels(n) \subseteq Nat /\ IsFiniteSet(Labels(n))
<1>1. Labels(n) \subseteq Nat
  BY ConsOfWord DEF Labels
<1>2. PICK m : m = n \ {<<>>}
  OBVIOUS
<1>3. IsFiniteSet(m)
  BY <1>2, FS_Subset
<1>4. PICK H : H = [w \in m |-> Head(w)]
  OBVIOUS
<1>5. Labels(n) = {H[w] : w \in m}
  BY <1>2, <1>4 DEF Labels
<1> QED
  BY <1>1, <1>3, <1>5, FiniteImage

LEMMA InBehind ==
  ASSUME NEW root, root \subseteq Seq(Nat), NEW p \in Seq(Nat), NEW u
  PROVE  u \in Behind(root, p) <=> u \in Seq(Nat) /\ p \o u \in root
<1>1. ASSUME u \in Behind(root, p)
      PROVE  u \in Seq(Nat) /\ p \o u \in root
  <2>1. PICK v \in root : PrefixOf(p, v) /\ u = SubSeq(v, Len(p) + 1, Len(v))
    BY <1>1 DEF Behind
  <2> QED
    BY <2>1, JoinedPrefix
<1>2. ASSUME u \in Seq(Nat), p \o u \in root
      PROVE  u \in Behind(root, p)
  <2>1. PICK v \in root : v = p \o u
    BY <1>2
  <2>2. PrefixOf(p, v) /\ u = SubSeq(v, Len(p) + 1, Len(v))
    BY <2>1, <1>2, PrefixJoined
  <2> QED
    BY <2>2 DEF Behind
<1> QED
  BY <1>1, <1>2

LEMMA BehindTyped ==
  ASSUME NEW root, root \subseteq Seq(Nat), NEW p \in Seq(Nat)
  PROVE  Behind(root, p) \subseteq Seq(Nat)
BY InBehind

LEMMA BehindNothing ==
  ASSUME NEW root, root \subseteq Seq(Nat)
  PROVE  Behind(root, <<>>) = root
<1>1. <<>> \in Seq(Nat)
  BY EmptySeq
<1>2. PICK e \in Seq(Nat) : e = <<>>
  BY <1>1
<1>3. \A u \in Seq(Nat) : e \o u = u
  BY <1>2, ConcatEmptySeq
<1>4. \A u : u \in Behind(root, e) <=> u \in root
  <2>1. \A u : u \in Behind(root, e) <=> u \in Seq(Nat) /\ e \o u \in root
    BY InBehind
  <2> QED
    BY <2>1, <1>3
<1> QED
  BY <1>2, <1>4

(***************************************************************************)
(* A word is in the set when the node behind it has the marker.            *)
(***************************************************************************)
LEMMA MarkerBehind ==
  ASSUME NEW root, root \subseteq Seq(Nat), NEW p \in Seq(Nat)
  PROVE  Marker(Behind(root, p)) <=> p \in root
<1>1. PICK e \in Seq(Nat) : e = <<>> /\ p \o e = p
  BY EmptySeq, ConcatEmptySeq
<1>2. e \in Behind(root, p) <=> p \o e \in root
  BY InBehind
<1> QED
  BY <1>1, <1>2 DEF Marker

LEMMA AppendThenJoin ==
  ASSUME NEW p \in Seq(Nat), NEW c \in Nat, NEW u \in Seq(Nat)
  PROVE  Append(p, c) \in Seq(Nat) /\ Append(p, c) \o u = p \o Cons(c, u)
<1>1. PICK v : v = <<c>>
  OBVIOUS
<1>2. v \in Seq(Nat)
  BY <1>1
<1>3. Append(p, c) = p \o v
  BY <1>1, AppendIsConcat
<1>4. (p \o v) \o u = p \o (v \o u)
  BY <1>2, ConcatAssociative
<1> QED
  BY <1>1, <1>3, <1>4, AppendProperties DEF Cons

(***************************************************************************)
(* dawgnode_get_child goes one letter further.                             *)
(***************************************************************************)
LEMMA ChildOfBehind ==
  ASSUME NEW root, root \subseteq Seq(Nat), NEW p \in Seq(Nat), NEW c \in Nat
  PROVE  Child(Behind(root, p), c) = Behind(root, Append(p, c))
<1>1. PICK n : n = Behind(root, p)
  OBVIOUS
<1>2. n \subseteq Seq(Nat) /\ \A u : u \in n <=> u \in Seq(Nat) /\ p \o u \in root
  BY <1>1, InBehind
<1>3. PICK q \in Seq(Nat) : q = Append(p, c)
  BY AppendProperties
<1>4. ASSUME NEW u
      PROVE  u \in Child(n, c) <=> u \in Behind(root, q)
  <2>1. u \in Child(n, c) <=> u \in Seq(Nat) /\ Cons(c, u) \in n
    BY <1>2, InChild
  <2>2. u \in Behind(root, q) <=> u \in Seq(Nat) /\ q \o u \in root
    BY InBehind
  <2>3. CASE u \in Seq(Nat)
    <3>1. Cons(c, u) \in Seq(Nat) /\ q \o u = p \o Cons(c, u)
      BY <2>3, <1>3, ConsFacts, AppendThenJoin
    <3>2. Cons(c, u) \in n <=> p \o Cons(c, u) \in root
      BY <3>1, <1>2
    <3> QED
      BY <2>1, <2>2, <2>3, <3>1, <3>2
  <2>4. CASE u \notin Seq(Nat)
    BY <2>1, <2>2, <2>4
  <2> QED
    BY <2>3, <2>4
<1>5. Child(n, c) = Behind(root, q)
  BY <1>4
<1> QED
  BY <1>1, <1>3, <1>5

-----------------------------------------------------------------------------
(***************************************************************************)
(* Paths                                                                   *)
(***************************************************************************)

LEMMA MaxIs ==
  ASSUME NEW S, S \subseteq Nat, S # {}, IsFiniteSet(S)
  PROVE  Max(S) \in S /\ \A y \in S : Max(S) >= y
<1>1. \E x \in S : \A y \in S : x >= y
  <2>1. PICK x \in S : \A y \in S : y <= x
    BY GreatestNatural
  <2>2. \A y \in S : x >= y
    BY <2>1
  <2> QED
    BY <2>2
<1> QED
  BY <1>1 DEF Max

LEMMA MinIs ==
  ASSUME NEW S, S \subseteq Nat, S # {}
  PROVE  Min(S) \in S /\ \A y \in S : Min(S) <= y
<1>1. \E x \in S : \A y \in S : x <= y
  BY LeastNatural
<1> QED
  BY <1>1 DEF Min

LEMMA LongestIs ==
  ASSUME NEW root, root \subseteq Seq(Nat), IsFiniteSet(root)
  PROVE  /\ LongestWord(root) \in Nat
         /\ \A w \in root : Len(w) \in Nat /\ Len(w) <= LongestWord(root)
         /\ root # {} => \E w \in root : Len(w) = LongestWord(root)
<1>1. PICK A : A = [w \in root |-> Len(w)]
  OBVIOUS
<1>2. PICK T : T = {A[w] : w \in root}
  OBVIOUS
<1>3. T = {Len(w) : w \in root}
  BY <1>1, <1>2
<1>4. IsFiniteSet(T)
  BY <1>2, FiniteImage
<1>5. PICK S : S = T \cup {0}
  OBVIOUS
<1>6. \A w \in root : Len(w) \in Nat
  BY LenProperties
<1>7. IsFiniteSet(S) /\ S \subseteq Nat /\ S # {}
  <2>1. IsFiniteSet(S)
    BY <1>4, <1>5, FS_AddElement
  <2>2. S \subseteq Nat /\ S # {}
    BY <1>3, <1>5, <1>6
  <2> QED
    BY <2>1, <2>2
<1>8. LongestWord(root) = Max(S)
  BY <1>3, <1>5 DEF LongestWord
<1>9. Max(S) \in S /\ \A y \in S : Max(S) >= y
  BY <1>7, MaxIs
<1>10. ASSUME NEW w \in root PROVE Len(w) <= LongestWord(root)
  <2>1. Len(w) \in S /\ Max(S) \in Nat /\ Len(w) \in Nat
    BY <1>3, <1>5, <1>6, <1>7, <1>9
  <2> QED
    BY <2>1, <1>8, <1>9
<1>11. ASSUME root # {} PROVE \E w \in root : Len(w) = LongestWord(root)
  <2>1. CASE Max(S) \in T
    BY <2>1, <1>3, <1>8
  <2>2. CASE Max(S) \notin T
    <3>1. Max(S) = 0
      BY <2>2, <1>5, <1>9
    <3>2. PICK w \in root : TRUE
      BY <1>11
    <3>3. Len(w) \in Nat /\ Len(w) <= 0
      BY <3>1, <1>6, <1>8, <1>10
    <3> QED
      BY <3>1, <3>3, <1>8
  <2> QED
    BY <2>1, <2>2
<1> QED
  BY <1>6, <1>7, <1>8, <1>9, <1>10, <1>11

(***************************************************************************)
(* p leads to a node: it is a prefix of a word, or empty.                  *)
(***************************************************************************)
IsPath(root, p) == p \in Seq(Nat) /\ (p = <<>> \/ Behind(root, p) # {})

LEMMA PathIsShort ==
  ASSUME NEW root, root \subseteq Seq(Nat), IsFiniteSet(root),
         NEW p \in Seq(Nat), NEW u \in Behind(root, p)
  PROVE  /\ Len(p) \in Nat /\ Len(u) \in Nat /\ LongestWord(root) \in Nat
         /\ Len(p) + Len(u) <= LongestWord(root)
<1>1. u \in Seq(Nat) /\ p \o u \in root
  BY InBehind
<1>2. Len(p) \in Nat /\ Len(u) \in Nat /\ Len(p \o u) = Len(p) + Len(u)
  BY <1>1, PrefixJoined
<1>3. LongestWord(root) \in Nat /\ Len(p \o u) <= LongestWord(root)
  BY <1>1, LongestIs
<1> QED
  BY <1>2, <1>3

(***************************************************************************)
(* A prefix of a prefix leads to a node as well.                           *)
(***************************************************************************)
LEMMA ShorterPath ==
  ASSUME NEW root, root \subseteq Seq(Nat), NEW p \in Seq(Nat), NEW c \in Nat,
         Behind(root, Append(p, c)) # {}
  PROVE  Behind(root, p) # {} /\ c \in Labels(Behind(root, p))
<1>1. PICK u : u \in Behind(root, Append(p, c))
  OBVIOUS
<1>2. PICK n : n = Behind(root, p)
  OBVIOUS
<1>3. n \subseteq Seq(Nat) /\ u \in Child(n, c)
  BY <1>1, <1>2, BehindTyped, ChildOfBehind
<1>4. Cons(c, u) \in n /\ c \in Labels(n)
  BY <1>3, InChild, InLabels
<1> QED
  BY <1>2, <1>4

LEMMA LongerPath ==
  ASSUME NEW root, root \subseteq Seq(Nat), NEW p \in Seq(Nat),
         NEW l \in Labels(Behind(root, p))
  PROVE  /\ l \in Nat /\ Append(p, l) \in Seq(Nat)
         /\ Child(Behind(root, p), l) = Behind(root, Append(p, l))
         /\ Behind(root, Append(p, l)) # {}
<1>1. PICK n : n = Behind(root, p)
  OBVIOUS
<1>2. n \subseteq Seq(Nat)
  BY <1>1, BehindTyped
<1>3. Child(n, l) # {}
  BY <1>1, <1>2, InLabels
<1>4. l \in Nat
  BY <1>2, <1>3, InChild
<1>5. Child(n, l) = Behind(root, Append(p, l))
  BY <1>1, <1>4, ChildOfBehind
<1> QED
  BY <1>1, <1>3, <1>4, <1>5, AppendProperties

LEMMA LastLetter ==
  ASSUME NEW p \in Seq(Nat), p # <<>>
  PROVE  \E q \in Seq(Nat), c \in Nat : p = Append(q, c) /\ Len(p) = Len(q) + 1
<1>1. PICK q \in Seq(Nat), c \in Nat : p = Append(q, c)
  BY SequenceEmptyOrAppend
<1>2. Len(Append(q, c)) = Len(q) + 1
  BY AppendProperties
<1> QED
  BY <1>1, <1>2

(***************************************************************************)
(* The prefixes of words, and the nodes behind them.                       *)
(***************************************************************************)
PathsOf(root) == UNION {{SubSeq(w, 1, k) : k \in 0..Len(w)} : w \in root}

LEMMA InPaths ==
  ASSUME NEW root, root \subseteq Seq(Nat), NEW p
  PROVE  p \in PathsOf(root) <=> p \in Seq(Nat) /\ Behind(root, p) # {}
<1>1. ASSUME p \in PathsOf(root)
      PROVE  p \in Seq(Nat) /\ Behind(root, p) # {}
  <2>1. PICK w \in root : \E k \in 0..Len(w) : p = SubSeq(w, 1, k)
    BY <1>1 DEF PathsOf
  <2>2. PICK k \in 0..Len(w) : p = SubSeq(w, 1, k)
    BY <2>1
  <2>3. p \in Seq(Nat) /\ PrefixOf(p, w)
    BY <2>2, BeginningIs
  <2>4. SubSeq(w, Len(p) + 1, Len(w)) \in Behind(root, p)
    BY <2>3 DEF Behind
  <2> QED
    BY <2>3, <2>4
<1>2. ASSUME p \in Seq(Nat), Behind(root, p) # {}
      PROVE  p \in PathsOf(root)
  <2>1. PICK w \in root : PrefixOf(p, w)
    BY <1>2 DEF Behind
  <2>2. /\ Len(p) \in Nat /\ Len(w) \in Nat /\ Len(p) <= Len(w)
        /\ \A k \in 1..Len(p) : p[k] = w[k]
    <3>1. Len(p) \in Nat /\ Len(w) \in Nat /\ (Len(p) + 1) - 1 = Len(p)
      BY <1>2, LenProperties
    <3> QED
      BY <3>1, <2>1 DEF PrefixOf, AgreeBelow
  <2>3. PICK k \in 0..Len(w) : k = Len(p)
    BY <2>2
  <2>4. /\ SubSeq(w, 1, k) \in Seq(Nat) /\ Len(SubSeq(w, 1, k)) = k
        /\ \A j \in 1..k : SubSeq(w, 1, k)[j] = w[j]
    BY BeginningIs
  <2>5. SubSeq(w, 1, k) = p
    BY <2>2, <2>3, <2>4, <1>2, SeqEqual
  <2> QED
    BY <2>5 DEF PathsOf
<1> QED
  BY <1>1, <1>2

LEMMA InBelow ==
  ASSUME NEW root, root \subseteq Seq(Nat), NEW m
  PROVE  m \in Below(root) <=> \E p : IsPath(root, p) /\ m = Behind(root, p)
<1>1. Below(root) = {Behind(root, p) : p \in PathsOf(root)} \cup {root}
  BY DEF Below, PathsOf
<1>2. PICK e \in Seq(Nat) : e = <<>> /\ Behind(root, e) = root
  BY EmptySeq, BehindNothing
<1> QED
  BY <1>1, <1>2, InPaths DEF IsPath

LEMMA ChildBelow ==
  ASSUME NEW root, root \subseteq Seq(Nat), NEW p, IsPath(root, p),
         NEW l \in Labels(Behind(root, p))
  PROVE  /\ IsPath(root, Append(p, l)) /\ l \in Nat
         /\ Child(Behind(root, p), l) = Behind(root, Append(p, l))
         /\ Child(Behind(root, p), l) \in Below(root)
<1>1. p \in Seq(Nat)
  BY DEF IsPath
<1>2. /\ l \in Nat /\ Append(p, l) \in Seq(Nat)
      /\ Child(Behind(root, p), l) = Behind(root, Append(p, l))
      /\ Behind(root, Append(p, l)) # {}
  BY <1>1, LongerPath
<1>3. IsPath(root, Append(p, l))
  BY <1>2 DEF IsPath
<1> QED
  BY <1>2, <1>3, InBelow

-----------------------------------------------------------------------------
(***************************************************************************)
(* The numbers of the nodes                                                *)
(***************************************************************************)

(***************************************************************************)
(* The words of a node that begin with one of the letters L.               *)
(***************************************************************************)
From(n, L) == {w \in n : w # <<>> /\ Head(w) \in L}

LEMMA AsManyAsTheChild ==
  ASSUME NEW n, n \subseteq Seq(Nat), IsFiniteSet(n), NEW l
  PROVE  /\ IsFiniteSet(From(n, {l})) /\ IsFiniteSet(Child(n, l))
         /\ Cardinality(From(n, {l})) = Cardinality(Child(n, l))
<1>1. PICK S : S = From(n, {l})
  OBVIOUS
<1>2. PICK T : T = Child(n, l)
  OBVIOUS
<1> DEFINE f == [w \in S |-> Tail(w)]
<1>3. f \in [S -> T] /\ \A t \in T : \E w \in S : f[w] = t
  BY <1>1, <1>2 DEF From, Child
<1>4. ASSUME NEW v \in S, NEW w \in S, f[v] = f[w] PROVE v = w
  <2>1. /\ v \in Seq(Nat) /\ v # <<>> /\ Head(v) = l
        /\ w \in Seq(Nat) /\ w # <<>> /\ Head(w) = l
    BY <1>1 DEF From
  <2>2. v = Cons(Head(v), Tail(v)) /\ w = Cons(Head(w), Tail(w))
    BY <2>1, ConsOfWord
  <2>3. Tail(v) = Tail(w)
    BY <1>4
  <2> QED
    BY <2>1, <2>2, <2>3
<1> HIDE DEF f
<1>5. f \in Bijection(S, T)
  BY <1>3, <1>4 DEF Bijection, Injection, Surjection, IsInjective
<1>6. ExistsBijection(S, T)
  BY <1>5 DEF ExistsBijection
<1>7. IsFiniteSet(S)
  BY <1>1, FS_Subset DEF From
<1> QED
  BY <1>1, <1>2, <1>6, <1>7, FS_Bijection

(***************************************************************************)
(* The numbers of children add up to the words behind them.                *)
(***************************************************************************)
LEMMA ChildrenSum ==
  ASSUME NEW n, n \subseteq Seq(Nat), IsFiniteSet(n), NEW L, L \subseteq Labels(n),
         NEW f, DOMAIN f = L, \A l \in L : f[l] = Cardinality(Child(n, l))
  PROVE  SumFunction(f) = Cardinality(From(n, L))
<1>1. IsFiniteSet(L)
  BY LabelsAreLetters, FS_Subset
<1>2. PICK A : A = [l \in L |-> From(n, {l})]
  OBVIOUS
<1>3. \A l \in L : IsFiniteSet(A[l]) /\ Cardinality(A[l]) = f[l]
  BY <1>2, AsManyAsTheChild
<1>4. \A l, m \in L : l # m => A[l] \cap A[m] = {}
  BY <1>2 DEF From
<1>5. PICK U : U = UNION {A[l] : l \in L}
  OBVIOUS
<1>6. IsFiniteSet(U) /\ SumFunctionOnSet(f, L) = Cardinality(U)
  <2>1. AreParts(A, L, U, f)
    BY <1>1, <1>3, <1>4, <1>5 DEF AreParts
  <2> QED
    BY <2>1, SumOfAllParts
<1>7. U = From(n, L)
  BY <1>2, <1>5 DEF From
<1> QED
  BY <1>6, <1>7 DEF SumFunction

LEMMA AllLabels ==
  ASSUME NEW n, n \subseteq Seq(Nat), IsFiniteSet(n)
  PROVE  /\ Cardinality(n) = (IF Marker(n) THEN 1 ELSE 0) + Cardinality(From(n, Labels(n)))
         /\ From(n, Labels(n)) = n \ {<<>>}
         /\ IsFiniteSet(From(n, Labels(n))) /\ Cardinality(From(n, Labels(n))) \in Nat
<1>1. From(n, Labels(n)) = n \ {<<>>}
  BY DEF From, Labels
<1>2. PICK S : S = n \ {<<>>}
  OBVIOUS
<1>3. PICK e : e = <<>>
  OBVIOUS
<1>4. /\ IsFiniteSet(S)
      /\ Cardinality(S) = IF e \in n THEN Cardinality(n) - 1 ELSE Cardinality(n)
  BY <1>2, <1>3, FS_RemoveElement
<1>5. Cardinality(S) \in Nat /\ Cardinality(n) \in Nat
  BY <1>4, FS_CardinalityType
<1>6. Marker(n) <=> e \in n
  BY <1>3 DEF Marker
<1>7. CASE e \in n
  BY <1>1, <1>2, <1>4, <1>5, <1>6, <1>7
<1>8. CASE e \notin n
  BY <1>1, <1>2, <1>4, <1>5, <1>6, <1>8
<1> QED
  BY <1>7, <1>8

LEMMA BehindFinite ==
  ASSUME NEW root, IsFiniteSet(root), NEW p
  PROVE  IsFiniteSet(Behind(root, p))
<1>1. PICK S : S = {v \in root : PrefixOf(p, v)}
  OBVIOUS
<1>2. IsFiniteSet(S)
  BY <1>1, FS_Subset
<1>3. PICK A : A = [w \in S |-> SubSeq(w, Len(p) + 1, Len(w))]
  OBVIOUS
<1>4. Behind(root, p) = {A[w] : w \in S}
  BY <1>1, <1>3 DEF Behind
<1> QED
  BY <1>2, <1>4, FiniteImage

(***************************************************************************)
(* What DAWG_mph_numerate_nodes computes: every node gets the number of    *)
(* its words.                                                              *)
(***************************************************************************)
IsNumbering(h, root) ==
  h = [m \in Below(root) |->
         (IF Marker(m) THEN 1 ELSE 0)
           + SumFunction([l \in Labels(m) |-> h[Child(m, l)]])]

LEMMA NumberOfNode ==
  ASSUME NEW root, root \subseteq Seq(Nat), IsFiniteSet(root), NEW h,
         NEW p, IsPath(root, p),
         \A l \in Labels(Behind(root, p)) :
           h[Child(Behind(root, p), l)] = Cardinality(Child(Behind(root, p), l))
  PROVE  Cardinality(Behind(root, p)) =
           (IF Marker(Behind(root, p)) THEN 1 ELSE 0)
             + SumFunction([l \in Labels(Behind(root, p)) |-> h[Child(Behind(root, p), l)]])
<1>1. PICK m : m = Behind(root, p)
  OBVIOUS
<1>2. m \subseteq Seq(Nat) /\ IsFiniteSet(m)
  BY <1>1, BehindTyped, BehindFinite DEF IsPath
<1>3. PICK f : f = [l \in Labels(m) |-> h[Child(m, l)]]
  OBVIOUS
<1>4. DOMAIN f = Labels(m) /\ \A l \in Labels(m) : f[l] = Cardinality(Child(m, l))
  BY <1>1, <1>3
<1>5. SumFunction(f) = Cardinality(From(m, Labels(m)))
  BY <1>2, <1>4, ChildrenSum
<1> QED
  BY <1>1, <1>2, <1>3, <1>5, AllLabels

LEMMA NumberingExists ==
  ASSUME NEW root, root \subseteq Seq(Nat), IsFiniteSet(root)
  PROVE  IsNumbering([m \in Below(root) |-> Cardinality(m)], root)
<1> DEFINE h == [m \in Below(root) |-> Cardinality(m)]
           F(m) == (IF Marker(m) THEN 1 ELSE 0)
                     + SumFunction([l \in Labels(m) |-> h[Child(m, l)]])
<1>1. ASSUME NEW m \in Below(root) PROVE h[m] = F(m)
  <2>1. PICK p : IsPath(root, p) /\ m = Behind(root, p)
    BY InBelow
  <2>2. \A l \in Labels(m) : h[Child(m, l)] = Cardinality(Child(m, l))
    BY <2>1, ChildBelow
  <2>3. h[m] = Cardinality(m)
    OBVIOUS
  <2> HIDE DEF h
  <2> QED
    BY <2>1, <2>2, <2>3, NumberOfNode
<1>2. h = [m \in Below(root) |-> h[m]]
  OBVIOUS
<1> HIDE DEF h
<1>3. h = [m \in Below(root) |-> F(m)]
  BY <1>1, <1>2
<1>4. IsNumbering(h, root)
  BY <1>3 DEF IsNumbering
<1> QED
  BY <1>4 DEF h

LEMMA NumbersAreSizes ==
  ASSUME NEW root, root \subseteq Seq(Nat), IsFiniteSet(root)
  PROVE  \A p : IsPath(root, p) =>
           Numbers(root)[Behind(root, p)] = Cardinality(Behind(root, p))
<1> DEFINE R(h) == h = [m \in Below(root) |->
                         (IF Marker(m) THEN 1 ELSE 0)
                           + SumFunction([l \in Labels(m) |-> h[Child(m, l)]])]
           g == CHOOSE h : R(h)
<1>1. \E h : R(h)
  BY NumberingExists DEF IsNumbering
<1>2. R(g)
  <2> HIDE DEF R
  <2> QED
    BY <1>1
<1>3. Numbers(root) = g
  BY DEF Numbers
<1>4. \A m \in Below(root) :
        g[m] = (IF Marker(m) THEN 1 ELSE 0)
                 + SumFunction([l \in Labels(m) |-> g[Child(m, l)]])
  BY <1>2
<1> HIDE DEF g, R
<1>5. PICK n \in Nat : n = LongestWord(root)
  BY LongestIs
<1> DEFINE Wrong(p) == IsPath(root, p) /\ g[Behind(root, p)] # Cardinality(Behind(root, p))
           Left == {k \in Nat : \E p : Wrong(p) /\ k + Len(p) = n}
<1>6. ASSUME NEW p, Wrong(p) PROVE p \in Seq(Nat) /\ Len(p) \in Nat /\ Len(p) <= n
  <2>1. p \in Seq(Nat) /\ Len(p) \in Nat
    BY <1>6, LenProperties DEF IsPath
  <2>2. CASE p = <<>>
    BY <2>1, <2>2, <1>5
  <2>3. CASE p # <<>>
    <3>1. PICK u : u \in Behind(root, p)
      BY <2>3, <1>6 DEF IsPath
    <3>2. Len(u) \in Nat /\ Len(p) + Len(u) <= n
      BY <3>1, <2>1, <1>5, PathIsShort
    <3> QED
      BY <3>2, <2>1
  <2> QED
    BY <2>2, <2>3
<1> SUFFICES ASSUME NEW p0, Wrong(p0) PROVE FALSE
  BY <1>3
<1>7. n - Len(p0) \in Left
  <2>1. Len(p0) \in Nat /\ Len(p0) <= n
    BY <1>6
  <2>2. n - Len(p0) \in Nat /\ (n - Len(p0)) + Len(p0) = n
    BY <2>1
  <2> QED
    BY <2>2
<1>8. PICK k \in Left : \A y \in Left : k <= y
  <2>1. Left \subseteq Nat /\ Left # {}
    BY <1>7
  <2> HIDE DEF Left
  <2> QED
    BY <2>1, LeastNatural
<1>9. PICK p : Wrong(p) /\ k + Len(p) = n
  BY <1>8
<1>10. p \in Seq(Nat) /\ Len(p) \in Nat /\ Len(p) <= n /\ k \in Nat
  BY <1>6, <1>8, <1>9
<1>11. ASSUME NEW l \in Labels(Behind(root, p))
       PROVE  g[Child(Behind(root, p), l)] = Cardinality(Child(Behind(root, p), l))
  <2>1. /\ IsPath(root, Append(p, l)) /\ l \in Nat
        /\ Child(Behind(root, p), l) = Behind(root, Append(p, l))
    BY <1>9, ChildBelow
  <2>2. Len(Append(p, l)) = Len(p) + 1
    BY <1>10, <2>1, AppendProperties
  <2>3. ~ Wrong(Append(p, l))
    <3> SUFFICES ASSUME Wrong(Append(p, l)) PROVE FALSE
      OBVIOUS
    <3>1. Len(p) + 1 <= n
      BY <1>6, <2>2
    <3>2. k - 1 \in Nat /\ (k - 1) + (Len(p) + 1) = n
      BY <3>1, <1>9, <1>10
    <3>3. k - 1 \in Left
      BY <3>2, <2>2
    <3>4. k <= k - 1
      BY <3>3, <1>8
    <3> QED
      BY <3>4, <1>10
  <2> QED
    BY <2>1, <2>3
<1>12. Behind(root, p) \in Below(root)
  BY <1>9, InBelow
<1>13. Cardinality(Behind(root, p)) =
         (IF Marker(Behind(root, p)) THEN 1 ELSE 0)
           + SumFunction([l \in Labels(Behind(root, p)) |-> g[Child(Behind(root, p), l)]])
  BY <1>9, <1>11, NumberOfNode
<1> QED
  BY <1>4, <1>9, <1>12, <1>13

-----------------------------------------------------------------------------
(***************************************************************************)
(* Ranks                                                                   *)
(***************************************************************************)

LEMMA PrefixIs ==
  ASSUME NEW p \in Seq(Nat), NEW v \in Seq(Nat)
  PROVE  /\ Len(p) \in Nat /\ Len(v) \in Nat
         /\ PrefixOf(p, v) <=> Len(p) <= Len(v) /\ \A j \in 1..Len(p) : p[j] = v[j]
<1>1. Len(p) \in Nat /\ Len(v) \in Nat
  BY LenProperties
<1>2. (Len(p) + 1) - 1 = Len(p)
  BY <1>1
<1> QED
  BY <1>1, <1>2 DEF PrefixOf, AgreeBelow

(***************************************************************************)
(* The words that go on behind p with a letter before c.                   *)
(***************************************************************************)
Between(p, c, v) == PrefixOf(p, v) /\ Len(p) < Len(v) /\ v[Len(p) + 1] < c

LEMMA AtAppend ==
  ASSUME NEW p \in Seq(Nat), NEW c \in Nat
  PROVE  /\ Append(p, c) \in Seq(Nat) /\ Len(p) \in Nat
         /\ \A k \in Nat \ {0} : At(Append(p, c), k) =
              IF k <= Len(p) THEN At(p, k) ELSE IF k = Len(p) + 1 THEN c + 1 ELSE 0
<1>1. PICK q : q = Append(p, c)
  OBVIOUS
<1>2. /\ q \in Seq(Nat) /\ Len(q) = Len(p) + 1
      /\ \A j \in 1..Len(p) : q[j] = p[j]
      /\ q[Len(p) + 1] = c
  BY <1>1, AppendProperties
<1>3. Len(p) \in Nat
  BY LenProperties
<1>4. ASSUME NEW k \in Nat \ {0}
      PROVE  At(q, k) = IF k <= Len(p) THEN At(p, k) ELSE IF k = Len(p) + 1 THEN c + 1 ELSE 0
  <2>1. CASE k <= Len(p)
    <3>1. k \in 1..Len(p) /\ k <= Len(q)
      BY <2>1, <1>2, <1>3
    <3> QED
      BY <3>1, <2>1, <1>2 DEF At
  <2>2. CASE k = Len(p) + 1
    BY <2>2, <1>2, <1>3 DEF At
  <2>3. CASE Len(p) + 1 < k
    BY <2>3, <1>2, <1>3 DEF At
  <2> QED
    BY <2>1, <2>2, <2>3, <1>3
<1> QED
  BY <1>1, <1>2, <1>3, <1>4

LEMMA PrefixAt ==
  ASSUME NEW p \in Seq(Nat), NEW v \in Seq(Nat)
  PROVE  PrefixOf(p, v) <=> \A k \in 1..Len(p) : At(p, k) = At(v, k)
<1>1. /\ Len(p) \in Nat /\ Len(v) \in Nat
      /\ PrefixOf(p, v) <=> Len(p) <= Len(v) /\ \A j \in 1..Len(p) : p[j] = v[j]
  BY PrefixIs
<1>2. ASSUME PrefixOf(p, v), NEW k \in 1..Len(p)
      PROVE  At(p, k) = At(v, k)
  BY <1>1, <1>2 DEF At
<1>3. ASSUME \A k \in 1..Len(p) : At(p, k) = At(v, k)
      PROVE  PrefixOf(p, v)
  <2>1. ASSUME NEW k \in 1..Len(p) PROVE k <= Len(v) /\ p[k] = v[k]
    <3>1. k \in Nat \ {0} /\ k <= Len(p) /\ At(p, k) = At(v, k)
      BY <1>1, <1>3
    <3>2. p[k] \in Nat /\ At(p, k) = p[k] + 1 /\ ~ (Len(v) < k)
      BY <3>1, AtType
    <3>3. k <= Len(v)
      BY <3>1, <3>2, <1>1
    <3>4. v[k] \in Nat /\ At(v, k) = v[k] + 1
      BY <3>1, <3>3, AtType
    <3>5. p[k] + 1 = v[k] + 1
      BY <3>1, <3>2, <3>4
    <3>6. p[k] \in Nat /\ v[k] \in Nat
      BY <3>2, <3>4
    <3>7. p[k] = v[k]
      BY <3>5, <3>6
    <3> QED
      BY <3>3, <3>7
  <2>2. Len(p) <= Len(v)
    <3>1. CASE Len(p) = 0
      BY <3>1, <1>1
    <3>2. CASE Len(p) # 0
      <4>1. Len(p) \in 1..Len(p)
        BY <3>2, <1>1
      <4> QED
        BY <4>1, <2>1
    <3> QED
      BY <3>1, <3>2
  <2> QED
    BY <2>1, <2>2, <1>1
<1> QED
  BY <1>2, <1>3

(***************************************************************************)
(* With a letter c behind p, the words that are not greater are those that *)
(* were not greater than p, those between, and the word itself.            *)
(***************************************************************************)
LEMMA LessAppend ==
  ASSUME NEW p \in Seq(Nat), NEW c \in Nat, NEW v \in Seq(Nat)
  PROVE  Less(v, Append(p, c)) <=> LessEq(v, p) \/ Between(p, c, v)
<1>1. PICK q \in Seq(Nat) : q = Append(p, c)
  BY AtAppend
<1>2. PICK m \in Nat \ {0} : m = Len(p) + 1
  BY LenProperties
<1>3. /\ Len(p) \in Nat /\ Len(v) \in Nat /\ Len(p) = m - 1
      /\ \A k \in Nat \ {0} : At(q, k) =
           IF k < m THEN At(p, k) ELSE IF k = m THEN c + 1 ELSE 0
  <2>1. Len(p) \in Nat /\ Len(v) \in Nat /\ Len(p) = m - 1
    BY <1>2, LenProperties
  <2>2. ASSUME NEW k \in Nat \ {0}
        PROVE  At(q, k) = IF k < m THEN At(p, k) ELSE IF k = m THEN c + 1 ELSE 0
    <3>1. At(q, k) = IF k <= Len(p) THEN At(p, k) ELSE IF k = Len(p) + 1 THEN c + 1 ELSE 0
      BY <1>1, AtAppend
    <3> QED
      BY <3>1, <2>1
  <2> QED
    BY <2>1, <2>2
<1>4. PrefixOf(p, v) <=> \A k \in 1..(m - 1) : At(p, k) = At(v, k)
  BY <1>3, PrefixAt
<1>5. ASSUME Less(v, q) PROVE LessEq(v, p) \/ Between(p, c, v)
  <2>1. PICK k \in Nat \ {0} : At(v, k) < At(q, k) /\ SameBelow(v, q, k)
    BY <1>5, LessAt
  <2>2. At(v, k) \in Nat /\ At(q, k) \in Nat /\ At(q, k) # 0
    BY <2>1, AtType
  <2>3. k <= m
    BY <2>2, <1>3
  <2>4. ASSUME NEW j \in 1..(k - 1) PROVE At(v, j) = At(p, j)
    <3>1. j \in Nat \ {0} /\ j < m
      BY <2>3
    <3> QED
      BY <3>1, <2>1, <1>3 DEF SameBelow
  <2>5. CASE k < m
    <3>1. At(v, k) < At(p, k)
      BY <2>1, <2>5, <1>3
    <3>2. SameBelow(v, p, k)
      BY <2>4 DEF SameBelow
    <3>3. Less(v, p)
      BY <3>1, <3>2, LessAt
    <3> QED
      BY <3>3 DEF LessEq
  <2>6. CASE k = m
    <3>1. PrefixOf(p, v)
      BY <2>4, <2>6, <1>4
    <3>2. Len(p) <= Len(v) /\ \A j \in 1..Len(p) : p[j] = v[j]
      BY <3>1, PrefixIs
    <3>3. CASE Len(v) = Len(p)
      <4>1. v = p
        BY <3>2, <3>3, SeqEqual
      <4> QED
        BY <4>1 DEF LessEq
    <3>4. CASE Len(v) # Len(p)
      <4>1. Len(p) < Len(v) /\ m <= Len(v)
        BY <3>2, <3>4, <1>3
      <4>2. v[m] \in Nat /\ At(v, m) = v[m] + 1
        BY <4>1, AtType
      <4>3. v[m] < c
        BY <4>2, <2>1, <2>6, <1>3
      <4> QED
        BY <3>1, <4>1, <4>3, <1>2 DEF Between
    <3> QED
      BY <3>3, <3>4
  <2> QED
    BY <2>3, <2>5, <2>6
<1>6. ASSUME v = p PROVE Less(v, q)
  <2>1. At(p, m) = 0
    BY <1>3, AtType
  <2>2. At(v, m) < At(q, m)
    BY <2>1, <1>3, <1>6
  <2>3. ASSUME NEW j \in 1..(m - 1) PROVE At(v, j) = At(q, j)
    <3>1. j \in Nat \ {0} /\ j < m
      OBVIOUS
    <3> QED
      BY <3>1, <1>3, <1>6
  <2>4. SameBelow(v, q, m)
    BY <2>3 DEF SameBelow
  <2> QED
    BY <2>2, <2>4, LessAt
<1>7. ASSUME Less(v, p) PROVE Less(v, q)
  <2>1. PICK k \in Nat \ {0} : At(v, k) < At(p, k) /\ SameBelow(v, p, k)
    BY <1>7, LessAt
  <2>2. At(v, k) \in Nat /\ At(p, k) \in Nat /\ At(p, k) # 0
    BY <2>1, AtType
  <2>3. k < m
    BY <2>2, <1>3, AtType
  <2>4. At(v, k) < At(q, k)
    BY <2>1, <2>3, <1>3
  <2>5. ASSUME NEW j \in 1..(k - 1) PROVE At(v, j) = At(q, j)
    <3>1. j \in Nat \ {0} /\ j < m
      BY <2>3
    <3> QED
      BY <3>1, <2>1, <1>3 DEF SameBelow
  <2>6. SameBelow(v, q, k)
    BY <2>5 DEF SameBelow
  <2> QED
    BY <2>4, <2>6, LessAt
<1>8. ASSUME Between(p, c, v) PROVE Less(v, q)
  <2>1. PrefixOf(p, v) /\ m <= Len(v) /\ v[m] < c
    BY <1>2, <1>3, <1>8 DEF Between
  <2>2. v[m] \in Nat /\ At(v, m) = v[m] + 1
    BY <2>1, AtType
  <2>3. At(v, m) < At(q, m)
    BY <2>1, <2>2, <1>3
  <2>4. ASSUME NEW j \in 1..(m - 1) PROVE At(v, j) = At(q, j)
    <3>1. j \in Nat \ {0} /\ j < m
      OBVIOUS
    <3> QED
      BY <3>1, <2>1, <1>3, <1>4
  <2>5. SameBelow(v, q, m)
    BY <2>4 DEF SameBelow
  <2> QED
    BY <2>3, <2>5, LessAt
<1> QED
  BY <1>1, <1>5, <1>6, <1>7, <1>8 DEF LessEq

LEMMA NotBetween ==
  ASSUME NEW p \in Seq(Nat), NEW c \in Nat, NEW v \in Seq(Nat), Between(p, c, v)
  PROVE  ~ LessEq(v, p)
<1>1. /\ Len(p) \in Nat /\ Len(v) \in Nat /\ Len(p) < Len(v)
      /\ \A k \in 1..Len(p) : At(p, k) = At(v, k)
  BY PrefixIs, PrefixAt DEF Between
<1>2. v # p
  BY <1>1
<1>3. ~ Less(v, p)
  <2> SUFFICES ASSUME Less(v, p) PROVE FALSE
    OBVIOUS
  <2>1. PICK k \in Nat \ {0} : At(v, k) < At(p, k)
    BY LessAt
  <2>2. At(v, k) \in Nat /\ At(p, k) \in Nat /\ At(p, k) # 0 /\ k <= Len(p)
    BY <2>1, <1>1, AtType
  <2>3. k \in 1..Len(p)
    BY <2>2, <1>1
  <2> QED
    BY <2>1, <2>2, <2>3, <1>1
<1> QED
  BY <1>2, <1>3 DEF LessEq

LEMMA AsManyBetween ==
  ASSUME NEW root, root \subseteq Seq(Nat), IsFiniteSet(root), NEW p \in Seq(Nat), NEW c \in Nat
  PROVE  /\ IsFiniteSet({v \in root : Between(p, c, v)})
         /\ Cardinality({v \in root : Between(p, c, v)})
              = Cardinality(From(Behind(root, p), LabelsBelow(Behind(root, p), c)))
<1>1. PICK n : n = Behind(root, p)
  OBVIOUS
<1>2. n \subseteq Seq(Nat) /\ \A u : u \in n <=> u \in Seq(Nat) /\ p \o u \in root
  BY <1>1, InBehind
<1>3. PICK S : S = From(n, LabelsBelow(n, c))
  OBVIOUS
<1>4. PICK T : T = {v \in root : Between(p, c, v)}
  OBVIOUS
<1> DEFINE f == [u \in S |-> p \o u]
<1>5. ASSUME NEW u \in S PROVE u \in Seq(Nat) /\ p \o u \in T
  <2>1. u \in n /\ u \in Seq(Nat) /\ u # <<>> /\ Head(u) < c
    BY <1>2, <1>3 DEF From, LabelsBelow
  <2>2. PICK v : v = p \o u
    OBVIOUS
  <2>3. /\ v \in root /\ PrefixOf(p, v) /\ Len(v) = Len(p) + Len(u) /\ Len(p) \in Nat
        /\ Len(u) \in Nat /\ \A k \in 1..Len(u) : v[Len(p) + k] = u[k]
    BY <2>1, <2>2, <1>2, PrefixJoined
  <2>4. Len(u) # 0 /\ 1 \in 1..Len(u)
    BY <2>1, <2>3, EmptySeq
  <2>5. v[Len(p) + 1] = Head(u)
    BY <2>1, <2>3, <2>4
  <2>6. Between(p, c, v)
    BY <2>1, <2>3, <2>4, <2>5 DEF Between
  <2> QED
    BY <2>1, <2>2, <2>3, <2>6, <1>4
<1>6. ASSUME NEW v \in T PROVE \E u \in S : p \o u = v
  <2>1. v \in root /\ v \in Seq(Nat) /\ PrefixOf(p, v) /\ Len(p) < Len(v) /\ v[Len(p) + 1] < c
    BY <1>4 DEF Between
  <2>2. PICK u \in Seq(Nat) : p \o u = v
    BY <2>1, JoinedPrefix
  <2>3. /\ Len(v) = Len(p) + Len(u) /\ Len(p) \in Nat /\ Len(u) \in Nat
        /\ \A k \in 1..Len(u) : v[Len(p) + k] = u[k]
    BY <2>2, PrefixJoined
  <2>4. Len(u) # 0 /\ 1 \in 1..Len(u) /\ u # <<>>
    BY <2>1, <2>3, EmptySeq
  <2>5. u \in n
    BY <2>1, <2>2, <1>2
  <2>6. Head(u) < c
    BY <2>1, <2>2, <2>3, <2>4
  <2>7. Head(u) \in Labels(n)
    BY <2>4, <2>5 DEF Labels
  <2>8. u \in S
    BY <2>4, <2>5, <2>6, <2>7, <1>3 DEF From, LabelsBelow
  <2> QED
    BY <2>2, <2>8
<1>7. ASSUME NEW u \in S, NEW w \in S, p \o u = p \o w PROVE u = w
  BY <1>5, <1>7, PrefixJoined
<1>8. f \in [S -> T] /\ \A v \in T : \E u \in S : f[u] = v
  BY <1>5, <1>6
<1>9. \A u, w \in S : f[u] = f[w] => u = w
  BY <1>7
<1> HIDE DEF f
<1>10. f \in Bijection(S, T)
  BY <1>8, <1>9 DEF Bijection, Injection, Surjection, IsInjective
<1>11. ExistsBijection(S, T)
  BY <1>10 DEF ExistsBijection
<1>12. IsFiniteSet(S)
  <2>1. IsFiniteSet(n)
    BY <1>1, BehindFinite
  <2> QED
    BY <2>1, <1>3, FS_Subset DEF From
<1> QED
  BY <1>1, <1>3, <1>4, <1>11, <1>12, FS_Bijection

LEMMA RankOfNext ==
  ASSUME NEW root, root \subseteq Seq(Nat), IsFiniteSet(root), NEW p \in Seq(Nat), NEW c \in Nat
  PROVE  Cardinality(NotAfter(root, Append(p, c))) =
           Cardinality(NotAfter(root, p))
             + Cardinality(From(Behind(root, p), LabelsBelow(Behind(root, p), c)))
             + (IF Marker(Behind(root, Append(p, c))) THEN 1 ELSE 0)
<1>1. PICK q \in Seq(Nat) : q = Append(p, c)
  BY AtAppend
<1>2. PICK A : A = NotAfter(root, p)
  OBVIOUS
<1>3. PICK B : B = {v \in root : Between(p, c, v)}
  OBVIOUS
<1>4. PICK D : D = A \cup B
  OBVIOUS
<1>5. /\ IsFiniteSet(A) /\ IsFiniteSet(B)
      /\ Cardinality(B) = Cardinality(From(Behind(root, p), LabelsBelow(Behind(root, p), c)))
  BY <1>2, <1>3, FS_Subset, AsManyBetween DEF NotAfter
<1>6. A \cap B = {}
  BY <1>2, <1>3, NotBetween DEF NotAfter
<1>7. IsFiniteSet(D) /\ Cardinality(D) = Cardinality(A) + Cardinality(B)
  <2>1. /\ IsFiniteSet(A \cup B)
        /\ Cardinality(A \cup B) = Cardinality(A) + Cardinality(B) - Cardinality(A \cap B)
    BY <1>5, FS_Union
  <2>2. Cardinality(A \cap B) = 0
    BY <1>6, FS_EmptySet
  <2>3. Cardinality(A) \in Nat /\ Cardinality(B) \in Nat
    BY <1>5, FS_CardinalityType
  <2> QED
    BY <1>4, <2>1, <2>2, <2>3
<1>8. D = {v \in root : Less(v, q)}
  BY <1>1, <1>2, <1>3, <1>4, LessAppend DEF NotAfter
<1>9. q \notin D
  BY <1>1, <1>8, LessIrreflexive
<1>10. Marker(Behind(root, q)) <=> q \in root
  BY MarkerBehind
<1>11. CASE q \in root
  <2>1. NotAfter(root, q) = D \cup {q}
    BY <1>8, <1>11 DEF NotAfter, LessEq
  <2>2. Cardinality(D \cup {q}) = Cardinality(D) + 1
    BY <1>7, <1>9, FS_AddElement
  <2> QED
    BY <2>1, <2>2, <1>1, <1>2, <1>5, <1>7, <1>10, <1>11
<1>12. CASE q \notin root
  <2>1. NotAfter(root, q) = D
    BY <1>8, <1>12 DEF NotAfter, LessEq
  <2>2. Cardinality(A) \in Nat /\ Cardinality(B) \in Nat
    BY <1>5, FS_CardinalityType
  <2> QED
    BY <2>1, <2>2, <1>1, <1>2, <1>5, <1>7, <1>10, <1>12
<1> QED
  BY <1>11, <1>12

LEMMA NoneBeforeNothing ==
  ASSUME NEW root, root \subseteq Seq(Nat), <<>> \notin root
  PROVE  Cardinality(NotAfter(root, <<>>)) = 0
<1>1. PICK e \in Seq(Nat) : e = <<>> /\ Len(e) = 0
  BY EmptySeq
<1>2. ASSUME NEW v \in root PROVE ~ LessEq(v, e)
  <2>1. ~ Less(v, e)
    <3> SUFFICES ASSUME Less(v, e) PROVE FALSE
      OBVIOUS
    <3>1. PICK k \in Nat \ {0} : At(v, k) < At(e, k)
      BY LessAt
    <3>2. At(v, k) \in Nat
      BY AtType
    <3>3. Len(e) < k
      BY <1>1
    <3>4. At(e, k) = 0
      BY <3>3, AtType
    <3> QED
      BY <3>1, <3>2, <3>4
  <2> QED
    BY <2>1, <1>1 DEF LessEq
<1>3. NotAfter(root, e) = {}
  BY <1>2 DEF NotAfter
<1> QED
  BY <1>1, <1>3, FS_EmptySet

-----------------------------------------------------------------------------
(***************************************************************************)
(* The invariant of the numbers                                            *)
(***************************************************************************)

(***************************************************************************)
(* The set stays as it is, and its nodes are numbered.                     *)
(***************************************************************************)
Numbered == words \subseteq Seq(Nat) /\ IsFiniteSet(words) /\ number = Numbers(words)

(***************************************************************************)
(* word2index has read i letters; index counts the words up to them.       *)
(***************************************************************************)
Walking ==
  pc = "word2index" =>
    /\ <<>> \notin words
    /\ word \in Seq(Nat) /\ i \in 0..Len(word)
    /\ IsPath(words, SubSeq(word, 1, i))
    /\ node = Behind(words, SubSeq(word, 1, i))
    /\ index = Cardinality(NotAfter(words, SubSeq(word, 1, i)))

(***************************************************************************)
(* index2word has written out; index more words are to be passed, and they *)
(* are behind the node.  When none is left, out is the word.               *)
(***************************************************************************)
Searching ==
  /\ pc = "index2word" =>
       /\ IsPath(words, out) /\ node = Behind(words, out)
       /\ index \in Nat \ {0}
       /\ i = Cardinality(NotAfter(words, out)) + index
       /\ index <= Cardinality(From(node, Labels(node)))
  /\ pc = "found" => out \in words /\ i = Cardinality(NotAfter(words, out))

MphInv == Numbered /\ Walking /\ Searching /\ IndexIsRank /\ WordHasIndex

LEMMA RankIsNotAfter ==
  ASSUME NEW w
  PROVE  Rank(w) = Cardinality(NotAfter(words, w))
BY DEF Rank, NotAfter

LEMMA RanksOfWords ==
  ASSUME words \subseteq Seq(Nat), IsFiniteSet(words)
  PROVE  /\ Cardinality(words) \in Nat
         /\ \A v \in words : Rank(v) \in 1..Cardinality(words)
         /\ \A v, w \in words : Rank(v) = Rank(w) => v = w
<1>1. PICK R : R = WordOrder(words)
  OBVIOUS
<1>2. IsOrder(R, words) /\ \A x \in words : UpTo(R, words, x) = NotAfter(words, x)
  BY <1>1, WordsAreOrdered
<1>3. \A x \in words : Rank(x) = Cardinality(UpTo(R, words, x))
  BY <1>2, RankIsNotAfter
<1>4. Cardinality(words) \in Nat
  BY FS_CardinalityType
<1>5. \A v \in words : Rank(v) \in 1..Cardinality(words)
  BY <1>3, RankInRange
<1>6. \A v, w \in words : Rank(v) = Rank(w) => v = w
  BY <1>2, <1>3, SameRank
<1> QED
  BY <1>4, <1>5, <1>6

(***************************************************************************)
(* Sum counts the words that begin with the labels.                        *)
(***************************************************************************)
LEMMA SumCounts ==
  ASSUME Numbered, NEW p, IsPath(words, p), NEW L, L \subseteq Labels(Behind(words, p))
  PROVE  /\ SumOf(Behind(words, p), L) = Cardinality(From(Behind(words, p), L))
         /\ Cardinality(From(Behind(words, p), L)) \in Nat
         /\ \A l \in L :
              number[Child(Behind(words, p), l)] = Cardinality(Child(Behind(words, p), l))
<1> USE DEF Numbered
<1>1. PICK n : n = Behind(words, p)
  OBVIOUS
<1>2. n \subseteq Seq(Nat) /\ IsFiniteSet(n)
  BY <1>1, BehindTyped, BehindFinite DEF IsPath
<1>3. ASSUME NEW l \in L PROVE number[Child(n, l)] = Cardinality(Child(n, l))
  <2>1. IsPath(words, Append(p, l)) /\ Child(n, l) = Behind(words, Append(p, l))
    BY <1>1, ChildBelow
  <2> QED
    BY <2>1, NumbersAreSizes
<1>4. PICK f : f = [l \in L |-> number[Child(n, l)]]
  OBVIOUS
<1>5. DOMAIN f = L /\ \A l \in L : f[l] = Cardinality(Child(n, l))
  BY <1>3, <1>4
<1>6. SumFunction(f) = Cardinality(From(n, L))
  BY <1>1, <1>2, <1>5, ChildrenSum
<1>7. SumOf(n, L) = SumFunction(f)
  BY <1>4 DEF SumOf
<1>8. Cardinality(From(n, L)) \in Nat
  <2>1. IsFiniteSet(From(n, L))
    BY <1>2, FS_Subset DEF From
  <2> QED
    BY <2>1, FS_CardinalityType
<1> QED
  BY <1>1, <1>3, <1>6, <1>7, <1>8

(***************************************************************************)
(* The start of a walk.                                                    *)
(***************************************************************************)
LEMMA NoLetterRead ==
  ASSUME NEW w \in Seq(Nat)
  PROVE  SubSeq(w, 1, 0) = <<>> /\ 0 \in 0..Len(w) /\ <<>> \in Seq(Nat)
<1>1. Len(w) \in Nat
  BY LenProperties
<1>2. SubSeq(w, 1, 0) = <<>>
  BY SubSeqEmpty
<1> QED
  BY <1>1, <1>2, EmptySeq

LEMMA StartsAtRoot ==
  ASSUME Numbered
  PROVE  IsPath(words, <<>>) /\ Behind(words, <<>>) = words
BY EmptySeq, BehindNothing DEF Numbered, IsPath

LEMMA Word2IndexKeeps ==
  ASSUME MphInv, ~EmptyWord, NEW w \in Universe \cup {<<>>}, Word2Index(w)
  PROVE  MphInv'
<1> USE DEF MphInv
<1>1. w \in Seq(Nat)
  BY UniverseAssumption, EmptySeq
<1>2. /\ pc' = "word2index" /\ word' = w /\ i' = 0 /\ node' = words /\ index' = 0
      /\ answer' = NoAnswer /\ words' = words /\ number' = number
      /\ <<>> \notin words
  BY DEF Word2Index, MayNumber
<1>3. Numbered'
  BY <1>2 DEF Numbered
<1>4. Walking'
  <2>1. PICK e : e = SubSeq(w, 1, 0)
    OBVIOUS
  <2>2. e = <<>> /\ 0 \in 0..Len(w)
    BY <1>1, <2>1, NoLetterRead
  <2>3. IsPath(words, e) /\ Behind(words, e) = words
    BY <2>2, StartsAtRoot
  <2>4. Cardinality(NotAfter(words, e)) = 0
    BY <1>2, <2>2, NoneBeforeNothing DEF Numbered
  <2> QED
    BY <1>1, <1>2, <2>1, <2>2, <2>3, <2>4 DEF Walking
<1>5. Searching'
  BY <1>2 DEF Searching
<1>6. IndexIsRank' /\ WordHasIndex'
  BY <1>2 DEF IndexIsRank, WordHasIndex, NoAnswer
<1> QED
  BY <1>3, <1>4, <1>5, <1>6

(***************************************************************************)
(* A call that returns leaves nothing under way.                           *)
(***************************************************************************)
LEMMA ReturnKeeps ==
  ASSUME Numbered, NEW a, Return(a)
  PROVE  /\ Numbered' /\ Walking' /\ Searching'
         /\ words' = words /\ number' = number /\ answer' = a /\ pc' = "idle"
BY DEF Numbered, Return, Walking, Searching

LEMMA OtherAnswer ==
  ASSUME Numbered, NEW a, Return(a), a.call # "word2index", a.call # "index2word"
  PROVE  MphInv'
<1>1. Numbered' /\ Walking' /\ Searching' /\ answer' = a
  BY ReturnKeeps
<1>2. IndexIsRank' /\ WordHasIndex'
  BY <1>1 DEF IndexIsRank, WordHasIndex
<1> QED
  BY <1>1, <1>2 DEF MphInv

(***************************************************************************)
(* The next letter of a walk.                                              *)
(***************************************************************************)
LEMMA NextLetterKeeps ==
  ASSUME MphInv, NextLetter
  PROVE  MphInv'
<1> USE DEF MphInv
<1>1. pc = "word2index" /\ i < Len(word)
  BY DEF NextLetter
<1>2. /\ <<>> \notin words /\ word \in Seq(Nat) /\ i \in 0..Len(word)
      /\ IsPath(words, SubSeq(word, 1, i)) /\ node = Behind(words, SubSeq(word, 1, i))
      /\ index = Cardinality(NotAfter(words, SubSeq(word, 1, i)))
  BY <1>1 DEF Walking
<1>3. words \subseteq Seq(Nat) /\ IsFiniteSet(words)
  BY DEF Numbered
<1>4. PICK p : p = SubSeq(word, 1, i)
  OBVIOUS
<1>5. PICK c : c = word[i + 1]
  OBVIOUS
<1>6. /\ c \in Nat /\ i + 1 \in 0..Len(word) /\ p \in Seq(Nat)
      /\ SubSeq(word, 1, i + 1) = Append(p, c)
  BY <1>1, <1>2, <1>4, <1>5, OneMoreLetter DEF IsPath
<1>7. Child(node, c) = Behind(words, Append(p, c))
  BY <1>2, <1>3, <1>4, <1>6, ChildOfBehind
<1>8. ASSUME Child(node, c) = {}, Return(Index(DAWG_NOT_EXISTS))
      PROVE  MphInv'
  <2>1. word \notin words
    <3> SUFFICES ASSUME word \in words PROVE FALSE
      OBVIOUS
    <3>1. Append(p, c) \in PathsOf(words)
      BY <1>6 DEF PathsOf
    <3> QED
      BY <3>1, <1>3, <1>7, <1>8, InPaths
  <2>2. /\ Numbered' /\ Walking' /\ Searching' /\ words' = words
        /\ answer' = Index(DAWG_NOT_EXISTS)
    BY <1>8, ReturnKeeps
  <2>3. IndexIsRank' /\ WordHasIndex'
    BY <2>1, <2>2 DEF IndexIsRank, WordHasIndex, Index
  <2> QED
    BY <2>2, <2>3
<1>9. ASSUME Child(node, c) # {},
             index' = index + SumOf(node, LabelsBelow(node, c))
                            + (IF Marker(Child(node, c)) THEN 1 ELSE 0),
             node' = Child(node, c), i' = i + 1,
             UNCHANGED <<words, number, pc, word, out, answer>>
      PROVE  MphInv'
  <2>1. SumOf(node, LabelsBelow(node, c)) = Cardinality(From(node, LabelsBelow(node, c)))
    <3>1. LabelsBelow(node, c) \subseteq Labels(node)
      BY DEF LabelsBelow
    <3> QED
      BY <3>1, <1>2, SumCounts
  <2>2. index' = Cardinality(NotAfter(words, Append(p, c)))
    <3>1. Cardinality(NotAfter(words, Append(p, c))) =
            Cardinality(NotAfter(words, p))
              + Cardinality(From(Behind(words, p), LabelsBelow(Behind(words, p), c)))
              + (IF Marker(Behind(words, Append(p, c))) THEN 1 ELSE 0)
      BY <1>3, <1>6, RankOfNext
    <3> QED
      BY <3>1, <2>1, <1>2, <1>4, <1>7, <1>9
  <2>3. IsPath(words, Append(p, c))
    BY <1>6, <1>7, <1>9, AppendProperties DEF IsPath
  <2>4. Walking'
    <3>1. SubSeq(word, 1, i + 1)' = SubSeq(word', 1, i' + 1)
      OBVIOUS
    <3>2. SubSeq(word', 1, i') = Append(p, c)
      BY <1>6, <1>9
    <3> QED
      BY <3>2, <2>2, <2>3, <1>2, <1>6, <1>7, <1>9 DEF Walking
  <2>5. Numbered' /\ IndexIsRank' /\ WordHasIndex'
    BY <1>9 DEF Numbered, IndexIsRank, WordHasIndex, Rank
  <2>6. Searching'
    BY <1>1, <1>9 DEF Searching
  <2> QED
    BY <2>4, <2>5, <2>6
<1> QED
  BY <1>5, <1>8, <1>9, Zenon DEF NextLetter

LEMMA EndOfWordKeeps ==
  ASSUME MphInv, EndOfWord
  PROVE  MphInv'
<1> USE DEF MphInv
<1>1. pc = "word2index" /\ i = Len(word)
      /\ Return(Index(IF Marker(node) THEN index ELSE DAWG_NOT_EXISTS))
  BY DEF EndOfWord
<1>2. /\ word \in Seq(Nat) /\ node = Behind(words, SubSeq(word, 1, i))
      /\ index = Cardinality(NotAfter(words, SubSeq(word, 1, i)))
  BY <1>1 DEF Walking
<1>3. SubSeq(word, 1, i) = word
  BY <1>1, <1>2, SubSeqFull
<1>4. Marker(node) <=> word \in words
  BY <1>2, <1>3, MarkerBehind DEF Numbered
<1>5. PICK x : x = IF Marker(node) THEN index ELSE DAWG_NOT_EXISTS
  OBVIOUS
<1>6. /\ Numbered' /\ Walking' /\ Searching' /\ words' = words
      /\ answer' = Index(x)
  BY <1>1, <1>5, ReturnKeeps
<1>7. x = IF word \in words THEN Rank(word) ELSE DAWG_NOT_EXISTS
  BY <1>2, <1>3, <1>4, <1>5, RankIsNotAfter
<1>8. IndexIsRank' /\ WordHasIndex'
  BY <1>6, <1>7 DEF IndexIsRank, WordHasIndex, Index, Rank
<1> QED
  BY <1>6, <1>8

-----------------------------------------------------------------------------
(***************************************************************************)
(* index2word                                                              *)
(***************************************************************************)

(***************************************************************************)
(* The words in front of a child, and the child's own, are the words that  *)
(* begin with a label up to the child's.                                   *)
(***************************************************************************)
LabelsThrough(n, l) == {m \in Labels(n) : m <= l}

LEMMA ThroughChild ==
  ASSUME NEW n, n \subseteq Seq(Nat), IsFiniteSet(n), NEW l \in Labels(n)
  PROVE  Cardinality(From(n, LabelsThrough(n, l))) =
           Cardinality(From(n, LabelsBelow(n, l))) + Cardinality(Child(n, l))
<1>1. PICK A : A = From(n, LabelsBelow(n, l))
  OBVIOUS
<1>2. PICK B : B = From(n, {l})
  OBVIOUS
<1>3. Labels(n) \subseteq Nat
  BY LabelsAreLetters
<1>4. IsFiniteSet(A) /\ IsFiniteSet(B) /\ Cardinality(B) = Cardinality(Child(n, l))
  BY <1>1, <1>2, AsManyAsTheChild, FS_Subset DEF From
<1>5. A \cap B = {}
  BY <1>1, <1>2, <1>3 DEF From, LabelsBelow
<1>6. LabelsThrough(n, l) = LabelsBelow(n, l) \cup {l}
  BY <1>3 DEF LabelsThrough, LabelsBelow
<1>7. From(n, LabelsThrough(n, l)) = A \cup B
  BY <1>1, <1>2, <1>6 DEF From
<1>8. Cardinality(A \cup B) = Cardinality(A) + Cardinality(B) - Cardinality(A \cap B)
  BY <1>4, FS_Union
<1>9. Cardinality(A \cap B) = 0 /\ Cardinality(A) \in Nat /\ Cardinality(B) \in Nat
  BY <1>4, <1>5, FS_EmptySet, FS_CardinalityType
<1> QED
  BY <1>1, <1>4, <1>7, <1>8, <1>9

(***************************************************************************)
(* The inner loop stops, at the one child that has the words looked for.   *)
(***************************************************************************)
LEMMA StopsAtChild ==
  ASSUME Numbered, NEW p, IsPath(words, p), NEW n, n = Behind(words, p),
         NEW k \in Nat \ {0}, k <= Cardinality(From(n, Labels(n))),
         NEW l, l = Min(Enough(n, k))
  PROVE  /\ Enough(n, k) # {} /\ l \in Labels(n) /\ l \in Nat
         /\ Cardinality(From(n, LabelsBelow(n, l))) \in Nat
         /\ Cardinality(Child(n, l)) \in Nat
         /\ Cardinality(From(n, LabelsBelow(n, l))) < k
         /\ k <= Cardinality(From(n, LabelsBelow(n, l))) + Cardinality(Child(n, l))
<1>1. n \subseteq Seq(Nat) /\ IsFiniteSet(n)
  BY BehindTyped, BehindFinite DEF IsPath, Numbered
<1>2. Labels(n) \subseteq Nat /\ IsFiniteSet(Labels(n))
  BY <1>1, LabelsAreLetters
<1>3. ASSUME NEW m \in Labels(n)
      PROVE  m \in Enough(n, k) <=> Cardinality(From(n, LabelsThrough(n, m))) >= k
  <2>1. LabelsBelow(n, m) \subseteq Labels(n)
    BY DEF LabelsBelow
  <2>2. SumOf(n, LabelsBelow(n, m)) = Cardinality(From(n, LabelsBelow(n, m)))
    BY <2>1, SumCounts
  <2>3. number[Child(n, m)] = Cardinality(Child(n, m))
    BY SumCounts
  <2>4. Cardinality(From(n, LabelsThrough(n, m))) =
          Cardinality(From(n, LabelsBelow(n, m))) + Cardinality(Child(n, m))
    BY <1>1, ThroughChild
  <2> QED
    BY <2>2, <2>3, <2>4 DEF Enough
<1>4. ASSUME NEW L, L \subseteq Labels(n), L # {}
      PROVE  \E g \in L : \A m \in L : m <= g
  <2>1. L \subseteq Nat /\ IsFiniteSet(L)
    BY <1>2, <1>4, FS_Subset
  <2> QED
    BY <2>1, <1>4, GreatestNatural
<1>5. Enough(n, k) # {}
  <2>1. Labels(n) # {}
    <3> SUFFICES ASSUME Labels(n) = {} PROVE FALSE
      OBVIOUS
    <3>1. From(n, Labels(n)) = {}
      BY DEF From
    <3>2. Cardinality(From(n, Labels(n))) = 0
      BY <3>1, FS_EmptySet
    <3> QED
      BY <3>2
  <2>2. PICK g \in Labels(n) : \A m \in Labels(n) : m <= g
    BY <2>1, <1>4
  <2>3. LabelsThrough(n, g) = Labels(n)
    BY <2>2 DEF LabelsThrough
  <2>4. Cardinality(From(n, LabelsThrough(n, g))) >= k
    <3>1. Cardinality(From(n, Labels(n))) \in Nat
      BY SumCounts
    <3> QED
      BY <2>3, <3>1
  <2>5. g \in Enough(n, k)
    BY <2>4, <1>3
  <2> QED
    BY <2>5
<1>6. Enough(n, k) \subseteq Labels(n)
  BY DEF Enough
<1>7. l \in Enough(n, k) /\ \A m \in Enough(n, k) : l <= m
  <2>1. Enough(n, k) \subseteq Nat
    BY <1>2, <1>6
  <2> QED
    BY <2>1, <1>5, MinIs
<1>8. l \in Labels(n) /\ l \in Nat
  BY <1>2, <1>6, <1>7
<1>9. LabelsBelow(n, l) \subseteq Labels(n)
  BY DEF LabelsBelow
<1>10. Cardinality(From(n, LabelsBelow(n, l))) \in Nat
  BY <1>9, SumCounts
<1>11. Cardinality(Child(n, l)) \in Nat
  BY <1>1, AsManyAsTheChild, FS_CardinalityType
<1>12. k <= Cardinality(From(n, LabelsBelow(n, l))) + Cardinality(Child(n, l))
  <2>1. Cardinality(From(n, LabelsThrough(n, l))) >= k
    BY <1>3, <1>7, <1>8
  <2> QED
    BY <2>1, <1>1, <1>8, <1>10, <1>11, ThroughChild
<1>13. Cardinality(From(n, LabelsBelow(n, l))) < k
  <2>1. CASE LabelsBelow(n, l) = {}
    <3>1. From(n, LabelsBelow(n, l)) = {}
      BY <2>1 DEF From
    <3>2. Cardinality(From(n, LabelsBelow(n, l))) = 0
      BY <3>1, FS_EmptySet
    <3> QED
      BY <3>2
  <2>2. CASE LabelsBelow(n, l) # {}
    <3>1. PICK g \in LabelsBelow(n, l) : \A m \in LabelsBelow(n, l) : m <= g
      BY <2>2, <1>4, <1>9
    <3>2. g \in Labels(n) /\ g \in Nat /\ g < l
      BY <3>1, <1>2 DEF LabelsBelow
    <3>3. LabelsThrough(n, g) = LabelsBelow(n, l)
      BY <3>1, <3>2, <1>2, <1>8 DEF LabelsThrough, LabelsBelow
    <3>4. g \notin Enough(n, k)
      BY <3>2, <1>7, <1>8
    <3>5. ~ (Cardinality(From(n, LabelsBelow(n, l))) >= k)
      BY <3>2, <3>3, <3>4, <1>3
    <3> QED
      BY <3>5, <1>10
  <2> QED
    BY <2>1, <2>2
<1> QED
  BY <1>5, <1>8, <1>10, <1>11, <1>12, <1>13

LEMMA Index2WordKeeps ==
  ASSUME MphInv, ~EmptyWord, NEW k \in 0..(Cardinality(words) + 1), Index2Word(k)
  PROVE  MphInv'
<1> USE DEF MphInv
<1>1. /\ pc' = "index2word" /\ i' = k /\ node' = words /\ index' = k /\ out' = <<>>
      /\ answer' = NoAnswer /\ words' = words /\ number' = number
      /\ <<>> \notin words /\ k >= 1 /\ k <= Cardinality(words)
  BY DEF Index2Word, MayNumber
<1>2. words \subseteq Seq(Nat) /\ IsFiniteSet(words)
  BY DEF Numbered
<1>3. Numbered'
  BY <1>1 DEF Numbered
<1>4. Walking'
  BY <1>1 DEF Walking
<1>5. k \in Nat \ {0}
  <2>1. Cardinality(words) \in Nat
    BY <1>2, FS_CardinalityType
  <2> QED
    BY <2>1, <1>1
<1>6. Cardinality(words) = Cardinality(From(words, Labels(words)))
  <2>1. ~ Marker(words)
    BY <1>1 DEF Marker
  <2>2. /\ Cardinality(words) =
             (IF Marker(words) THEN 1 ELSE 0) + Cardinality(From(words, Labels(words)))
        /\ Cardinality(From(words, Labels(words))) \in Nat
    BY <1>2, AllLabels
  <2> QED
    BY <2>1, <2>2
<1>7. Cardinality(NotAfter(words, <<>>)) = 0
  BY <1>1, <1>2, NoneBeforeNothing
<1>8. IsPath(words, <<>>) /\ Behind(words, <<>>) = words
  BY StartsAtRoot
<1>9. Searching'
  <2>1. k = 0 + k
    BY <1>5
  <2> QED
    BY <2>1, <1>1, <1>5, <1>6, <1>7, <1>8 DEF Searching
<1>10. IndexIsRank' /\ WordHasIndex'
  BY <1>1 DEF IndexIsRank, WordHasIndex, NoAnswer
<1> QED
  BY <1>3, <1>4, <1>9, <1>10

LEMMA OutOfRangeKeeps ==
  ASSUME MphInv, NEW k, OutOfRange(k)
  PROVE  MphInv'
<1> USE DEF MphInv
<1>1. /\ k < 1 \/ k > Cardinality(words)
      /\ Return(Outcome(k, {}))
  BY DEF OutOfRange
<1>2. /\ Numbered' /\ Walking' /\ Searching' /\ words' = words /\ answer' = Outcome(k, {})
  BY <1>1, ReturnKeeps
<1>3. \A w \in words : Rank(w) # k
  <2>1. Cardinality(words) \in Nat /\ \A w \in words : Rank(w) \in 1..Cardinality(words)
    BY RanksOfWords DEF Numbered
  <2> QED
    BY <2>1, <1>1
<1>4. WordHasIndex'
  BY <1>2, <1>3 DEF WordHasIndex, Outcome, Rank
<1>5. IndexIsRank'
  BY <1>2 DEF IndexIsRank, Outcome
<1> QED
  BY <1>2, <1>4, <1>5

LEMMA DescendKeeps ==
  ASSUME MphInv, Descend
  PROVE  MphInv'
<1> USE DEF MphInv
<1>1. pc = "index2word" /\ UNCHANGED <<words, number, word, i, answer>>
  BY DEF Descend
<1>2. /\ IsPath(words, out) /\ node = Behind(words, out)
      /\ index \in Nat \ {0}
      /\ i = Cardinality(NotAfter(words, out)) + index
      /\ index <= Cardinality(From(node, Labels(node)))
  BY <1>1 DEF Searching
<1>3. words \subseteq Seq(Nat) /\ IsFiniteSet(words) /\ out \in Seq(Nat)
  BY <1>2 DEF Numbered, IsPath
<1>4. PICK l : l = Min(Enough(node, index))
  OBVIOUS
<1>5. PICK n : n = node
  OBVIOUS
<1>6. /\ Enough(n, index) # {} /\ l \in Labels(n) /\ l \in Nat
      /\ Cardinality(From(n, LabelsBelow(n, l))) \in Nat
      /\ Cardinality(Child(n, l)) \in Nat
      /\ Cardinality(From(n, LabelsBelow(n, l))) < index
      /\ index <= Cardinality(From(n, LabelsBelow(n, l))) + Cardinality(Child(n, l))
  BY <1>2, <1>4, <1>5, StopsAtChild
<1>7. /\ out' = Append(out, l) /\ node' = Child(n, l)
      /\ index' = index - SumOf(n, LabelsBelow(n, l)) - Counted(Child(n, l))
      /\ pc' = IF index' > 0 THEN "index2word" ELSE "found"
  BY <1>4, <1>5, <1>6 DEF Descend
<1>8. SumOf(n, LabelsBelow(n, l)) = Cardinality(From(n, LabelsBelow(n, l)))
  <2>1. LabelsBelow(n, l) \subseteq Labels(n)
    BY DEF LabelsBelow
  <2> QED
    BY <2>1, <1>2, <1>5, SumCounts
<1>9. PICK q : q = Append(out, l)
  OBVIOUS
<1>10. /\ IsPath(words, q) /\ q \in Seq(Nat) /\ Child(n, l) = Behind(words, q)
  BY <1>2, <1>3, <1>5, <1>6, <1>9, ChildBelow, AppendProperties
<1>11. PICK b \in Nat : b = Cardinality(From(n, LabelsBelow(n, l)))
  BY <1>6
<1>12. PICK r : r = Counted(Child(n, l))
  OBVIOUS
<1>13. r \in {0, 1} /\ (r = 1 <=> q \in words)
  BY <1>3, <1>10, <1>12, MarkerBehind DEF Counted
<1>14. Cardinality(NotAfter(words, q)) = Cardinality(NotAfter(words, out)) + b + r
  <2>1. Cardinality(NotAfter(words, Append(out, l))) =
          Cardinality(NotAfter(words, out))
            + Cardinality(From(Behind(words, out), LabelsBelow(Behind(words, out), l)))
            + (IF Marker(Behind(words, Append(out, l))) THEN 1 ELSE 0)
    BY <1>3, <1>6, RankOfNext
  <2>2. r = IF Marker(Behind(words, q)) THEN 1 ELSE 0
    BY <1>10, <1>12 DEF Counted
  <2> QED
    BY <2>1, <2>2, <1>2, <1>5, <1>9, <1>11
<1>15. index' = index - b - r /\ b < index /\ index' \in Nat
  BY <1>2, <1>6, <1>7, <1>8, <1>11, <1>12, <1>13
<1>16. i = Cardinality(NotAfter(words, q)) + index'
  <2>1. PICK x \in Nat : x = Cardinality(NotAfter(words, out))
    <3>1. IsFiniteSet(NotAfter(words, out))
      BY <1>3, FS_Subset DEF NotAfter
    <3> QED
      BY <3>1, FS_CardinalityType
  <2>2. PICK y : y = Cardinality(NotAfter(words, q))
    OBVIOUS
  <2>3. PICK z \in Nat : z = index'
    BY <1>15
  <2>4. i = x + index /\ y = x + b + r /\ z = index - b - r
    BY <2>1, <2>2, <2>3, <1>2, <1>14, <1>15
  <2>5. i = y + z
    BY <2>4, <1>2, <1>13
  <2> QED
    BY <2>2, <2>3, <2>5
<1>17. index' <= Cardinality(From(node', Labels(node')))
  <2>1. PICK m : m = Child(n, l)
    OBVIOUS
  <2>2. m \subseteq Seq(Nat) /\ IsFiniteSet(m)
    BY <2>1, <1>3, <1>10, BehindTyped, BehindFinite
  <2>3. /\ Cardinality(m) = (IF Marker(m) THEN 1 ELSE 0) + Cardinality(From(m, Labels(m)))
        /\ Cardinality(From(m, Labels(m))) \in Nat
    BY <2>2, AllLabels
  <2>4. r = IF Marker(m) THEN 1 ELSE 0
    BY <2>1, <1>12 DEF Counted
  <2>5. index <= b + Cardinality(m)
    BY <2>1, <1>6, <1>11
  <2>6. index - b - r <= Cardinality(From(m, Labels(m)))
    BY <2>3, <2>4, <2>5, <1>2, <1>13
  <2> QED
    BY <2>1, <2>6, <1>7, <1>15
<1>18. Numbered'
  BY <1>1 DEF Numbered
<1>19. Walking' /\ IndexIsRank' /\ WordHasIndex'
  <2>1. pc' # "word2index"
    BY <1>7
  <2> QED
    BY <2>1, <1>1 DEF Walking, IndexIsRank, WordHasIndex, Rank
<1>20. Searching'
  <2>1. CASE index' > 0
    <3>1. pc' = "index2word" /\ index' \in Nat \ {0}
      BY <2>1, <1>7, <1>15
    <3>2. IsPath(words', out') /\ node' = Behind(words', out')
      BY <1>1, <1>7, <1>9, <1>10
    <3>3. i' = Cardinality(NotAfter(words', out')) + index'
      BY <1>1, <1>7, <1>9, <1>16
    <3> QED
      BY <3>1, <3>2, <3>3, <1>17 DEF Searching
  <2>2. CASE ~ (index' > 0)
    <3>1. pc' = "found" /\ index' = 0
      BY <2>2, <1>7, <1>15
    <3>2. r = 1
      BY <3>1, <1>2, <1>13, <1>15
    <3>3. out' \in words'
      BY <3>2, <1>1, <1>7, <1>9, <1>13
    <3>4. i' = Cardinality(NotAfter(words', out'))
      <4>1. IsFiniteSet(NotAfter(words, q))
        BY <1>3, FS_Subset DEF NotAfter
      <4>2. Cardinality(NotAfter(words, q)) \in Nat
        BY <4>1, FS_CardinalityType
      <4> QED
        BY <4>2, <3>1, <1>1, <1>7, <1>9, <1>16
    <3> QED
      BY <3>1, <3>3, <3>4 DEF Searching
  <2> QED
    BY <2>1, <2>2
<1> QED
  BY <1>18, <1>19, <1>20

LEMMA FoundKeeps ==
  ASSUME MphInv, Found
  PROVE  MphInv'
<1> USE DEF MphInv
<1>1. pc = "found" /\ Return(Outcome(i, {out}))
  BY DEF Found
<1>2. out \in words /\ i = Rank(out)
  BY <1>1, RankIsNotAfter DEF Searching
<1>3. /\ Numbered' /\ Walking' /\ Searching' /\ words' = words /\ answer' = Outcome(i, {out})
  BY <1>1, ReturnKeeps
<1>4. {out} = {w \in words : Rank(w) = i}
  BY <1>2, RanksOfWords DEF Numbered
<1>5. WordHasIndex'
  BY <1>3, <1>4 DEF WordHasIndex, Outcome, Rank
<1>6. IndexIsRank'
  BY <1>3 DEF IndexIsRank, Outcome
<1> QED
  BY <1>3, <1>5, <1>6

(***************************************************************************)
(* The other methods answer at once.                                       *)
(***************************************************************************)
LEMMA QueriesReturn ==
  ASSUME QueryNext \/ AskDump
  PROVE  \/ Next
         \/ \E a : Return(a) /\ a.call # "word2index" /\ a.call # "index2word"
<1>1. ASSUME NEW w \in Asked, AskExists(w) \/ AskLongestPrefix(w) \/ AskMatch(w)
      PROVE  \E a : Return(a) /\ a.call # "word2index" /\ a.call # "index2word"
  BY <1>1 DEF AskExists, AskLongestPrefix, AskMatch, Answer
<1>2. ASSUME AskWords
      PROVE  \E a : Return(a) /\ a.call # "word2index" /\ a.call # "index2word"
  BY <1>2 DEF AskWords, Answer
<1>3. ASSUME AskDump
      PROVE  \E a : Return(a) /\ a.call # "word2index" /\ a.call # "index2word"
  BY <1>3 DEF AskDump, Answer
<1> QED
  BY <1>1, <1>2, <1>3, Zenon DEF QueryNext

LEMMA StepKeepsNumbers ==
  ASSUME MphInv, ~EmptyWord, ReadersNext \/ UNCHANGED readers
  PROVE  MphInv'
<1>1. ASSUME UNCHANGED vars PROVE MphInv'
  <2>1. /\ words' = words /\ number' = number /\ pc' = pc /\ word' = word /\ i' = i
        /\ node' = node /\ index' = index /\ out' = out /\ answer' = answer
    BY <1>1 DEF vars
  <2> QED
    BY <2>1 DEF MphInv, Numbered, Walking, Searching, IndexIsRank, WordHasIndex, Rank
<1>2. ASSUME Next PROVE MphInv'
  <2>1. ASSUME NEW w \in Universe \cup {<<>>}, Word2Index(w) PROVE MphInv'
    BY <2>1, Word2IndexKeeps
  <2>2. ASSUME NEW k \in 0..(Cardinality(words) + 1), OutOfRange(k) \/ Index2Word(k)
        PROVE  MphInv'
    BY <2>2, OutOfRangeKeeps, Index2WordKeeps
  <2>3. ASSUME Step PROVE MphInv'
    BY <2>3, NextLetterKeeps, EndOfWordKeeps, DescendKeeps, FoundKeeps DEF Step
  <2> QED
    BY <1>2, <2>1, <2>2, <2>3, Zenon DEF Next
<1>3. ASSUME QueryNext \/ AskDump PROVE MphInv'
  <2>1. ASSUME NEW a, Return(a), a.call # "word2index", a.call # "index2word"
        PROVE  MphInv'
    BY <2>1, OtherAnswer DEF MphInv
  <2> QED
    BY <1>2, <1>3, <2>1, QueriesReturn, Zenon
<1> QED
  BY <1>1, <1>3, Zenon DEF ReadersNext, Asks, Iterates, readers

LEMMA InitNumbered ==
  ASSUME ReadersInit
  PROVE  MphInv
<1>1. Init
  BY DEF ReadersInit
<1>2. words \subseteq Seq(Nat) /\ IsFiniteSet(words)
  BY <1>1, UniverseAssumption, FS_Subset DEF Init
<1> QED
  BY <1>1, <1>2
  DEF Init, MphInv, Numbered, Walking, Searching, IndexIsRank, WordHasIndex, NoAnswer

(***************************************************************************)
(* word2index gives every word of the set its rank in the lexicographic    *)
(* order and says of every other that it is not there (dawg_mph.c), as     *)
(* long as no number is asked for of a set with the empty word.            *)
(***************************************************************************)
THEOREM AlwaysRank ==
  ASSUME ~EmptyWord
  PROVE  ReadersSpec => []IndexIsRank
<1>1. ReadersInit => MphInv
  BY InitNumbered
<1>2. MphInv /\ [ReadersNext]_readers => MphInv'
  BY StepKeepsNumbers
<1>3. MphInv => IndexIsRank
  BY DEF MphInv
<1> QED
  BY <1>1, <1>2, <1>3, PTL DEF ReadersSpec

(***************************************************************************)
(* index2word finds the word whose rank it is given, and nothing out of    *)
(* range: the loops of DAWG_mph_index2word never run out of children.      *)
(***************************************************************************)
THEOREM AlwaysInverse ==
  ASSUME ~EmptyWord
  PROVE  ReadersSpec => []WordHasIndex
<1>1. ReadersInit => MphInv
  BY InitNumbered
<1>2. MphInv /\ [ReadersNext]_readers => MphInv'
  BY StepKeepsNumbers
<1>3. MphInv => WordHasIndex
  BY DEF MphInv
<1> QED
  BY <1>1, <1>2, <1>3, PTL DEF ReadersSpec

-----------------------------------------------------------------------------
(***************************************************************************)
(* Walks along a word                                                      *)
(***************************************************************************)

(***************************************************************************)
(* The node behind k letters, and the definition of Walk for it.           *)
(***************************************************************************)
WalkStep(root, w, k) ==
  Behind(root, SubSeq(w, 1, k)) =
    IF k = 0 THEN root ELSE Child(Behind(root, SubSeq(w, 1, k - 1)), w[k])

LEMMA WalkSteps ==
  ASSUME NEW root, root \subseteq Seq(Nat), NEW w \in Seq(Nat), NEW k \in 0..Len(w)
  PROVE  WalkStep(root, w, k)
<1>1. CASE k = 0
  BY <1>1, NoLetterRead, BehindNothing DEF WalkStep
<1>2. CASE k # 0
  <2>1. Len(w) \in Nat
    BY LenProperties
  <2>2. PICK j \in 0..Len(w) : j = k - 1
    BY <1>2, <2>1
  <2>3. j < Len(w) /\ j + 1 = k
    BY <1>2, <2>1, <2>2
  <2>4. w[j + 1] \in Nat /\ SubSeq(w, 1, j + 1) = Append(SubSeq(w, 1, j), w[j + 1])
    BY <2>3, OneMoreLetter
  <2>5. SubSeq(w, 1, j) \in Seq(Nat)
    BY BeginningIs
  <2>6. Child(Behind(root, SubSeq(w, 1, j)), w[k]) = Behind(root, SubSeq(w, 1, k))
    BY <2>3, <2>4, <2>5, ChildOfBehind
  <2> QED
    BY <2>2, <2>6, <1>2 DEF WalkStep
<1> QED
  BY <1>1, <1>2

LEMMA WalkIs ==
  ASSUME words \subseteq Seq(Nat), NEW w \in Seq(Nat)
  PROVE  \A k \in 0..Len(w) : Walk(w)[k] = Behind(words, SubSeq(w, 1, k))
<1> DEFINE R(h) == h = [k \in 0..Len(w) |-> IF k = 0 THEN words ELSE Child(h[k - 1], w[k])]
           g == CHOOSE h : R(h)
           f == [k \in 0..Len(w) |-> Behind(words, SubSeq(w, 1, k))]
<1>1. Len(w) \in Nat
  BY LenProperties
<1>2. R(f)
  <2>1. ASSUME NEW k \in 0..Len(w)
        PROVE  f[k] = IF k = 0 THEN words ELSE Child(f[k - 1], w[k])
    <3>1. CASE k = 0
      BY <3>1, WalkSteps DEF WalkStep
    <3>2. CASE k # 0
      <4>1. k - 1 \in 0..Len(w)
        BY <1>1, <3>2
      <4> QED
        BY <4>1, <3>2, WalkSteps DEF WalkStep
    <3> QED
      BY <3>1, <3>2
  <2>2. f = [k \in 0..Len(w) |-> f[k]]
    OBVIOUS
  <2> HIDE DEF f
  <2> QED
    BY <2>1, <2>2
<1>3. R(g)
  <2> HIDE DEF R, f
  <2> QED
    BY <1>2
<1>4. Walk(w) = g
  BY DEF Walk
<1>5. \A k \in 0..Len(w) : g[k] = IF k = 0 THEN words ELSE Child(g[k - 1], w[k])
  BY <1>3
<1> HIDE DEF g, R, f
<1> DEFINE Wrong == {k \in 0..Len(w) : g[k] # Behind(words, SubSeq(w, 1, k))}
<1> SUFFICES ASSUME Wrong # {} PROVE FALSE
  BY <1>4
<1>6. PICK k \in Wrong : \A y \in Wrong : k <= y
  <2>1. Wrong \subseteq Nat
    BY <1>1
  <2> HIDE DEF Wrong
  <2> QED
    BY <2>1, LeastNatural
<1>7. k \in 0..Len(w) /\ g[k] # Behind(words, SubSeq(w, 1, k))
  BY <1>6
<1>8. CASE k = 0
  BY <1>5, <1>7, <1>8, WalkSteps DEF WalkStep
<1>9. CASE k # 0
  <2>1. k - 1 \in 0..Len(w) /\ ~ (k <= k - 1)
    BY <1>1, <1>7, <1>9
  <2>2. g[k - 1] = Behind(words, SubSeq(w, 1, k - 1))
    BY <2>1, <1>6
  <2> QED
    BY <2>2, <1>5, <1>7, <1>9, WalkSteps DEF WalkStep
<1> QED
  BY <1>8, <1>9

LEMMA ExistsIsMember ==
  ASSUME words \subseteq Seq(Nat), NEW w \in Seq(Nat)
  PROVE  Exists(w) = (w \in words)
<1>1. Walk(w)[Len(w)] = Behind(words, w)
  BY WalkIs, WholeWord
<1>2. Marker(Behind(words, w)) <=> w \in words
  BY MarkerBehind
<1>3. PICK n : n = Walk(w)[Len(w)]
  OBVIOUS
<1>4. <<>> \in n <=> w \in words
  BY <1>1, <1>2, <1>3 DEF Marker
<1>5. Exists(w) = (<<>> \in n)
  BY <1>3 DEF Exists, Marker
<1> QED
  BY <1>4, <1>5

(***************************************************************************)
(* A walk ends where no word agrees any longer.                            *)
(***************************************************************************)
LEMMA WalkEnds ==
  ASSUME words \subseteq Seq(Nat), NEW w \in Seq(Nat), NEW k \in 0..Len(w)
  PROVE  Walk(w)[k] # {} <=> k \in Common(w)
<1>1. Walk(w)[k] = Behind(words, SubSeq(w, 1, k))
  BY WalkIs
<1> QED
  BY <1>1 DEF Common, Behind

LEMMA PrefixIsLongest ==
  ASSUME words \subseteq Seq(Nat), NEW w \in Seq(Nat)
  PROVE  /\ LongestPrefix(w) = Max(Common(w) \cup {0})
         /\ Match(w) = (\E k \in Common(w) : k > 0)
<1>1. Len(w) \in Nat
  BY LenProperties
<1>2. PICK S : S = {0} \cup {k \in 1..Len(w) : Walk(w)[k] # {}}
  OBVIOUS
<1>3. \A k : k \in S <=> k = 0 \/ (k \in 1..Len(w) /\ k \in Common(w))
  <2>1. \A k \in 1..Len(w) : k \in 0..Len(w)
    BY <1>1
  <2> QED
    BY <1>2, <2>1, WalkEnds
<1>4. Common(w) \subseteq 0..Len(w)
  BY DEF Common
<1>5. S = Common(w) \cup {0}
  BY <1>1, <1>3, <1>4
<1>6. LongestPrefix(w) = Max(S)
  BY <1>2 DEF LongestPrefix
<1>7. S \subseteq Nat /\ IsFiniteSet(S)
  <2>1. S \subseteq 0..Len(w)
    BY <1>1, <1>4, <1>5
  <2>2. IsFiniteSet(0..Len(w))
    BY <1>1, FS_Interval
  <2>3. IsFiniteSet(S)
    BY <2>1, <2>2, FS_Subset
  <2>4. S \subseteq Nat
    BY <2>1, <1>1
  <2> QED
    BY <2>3, <2>4
<1>8. Max(S) \in S /\ \A y \in S : Max(S) >= y
  BY <1>3, <1>7, MaxIs
<1>9. PICK m \in Nat : m = Max(S)
  BY <1>7, <1>8
<1>10. m > 0 <=> \E k \in Common(w) : k > 0
  <2>1. ASSUME m > 0 PROVE m \in Common(w)
    BY <2>1, <1>5, <1>8, <1>9
  <2>2. ASSUME NEW k \in Common(w), k > 0 PROVE m > 0
    <3>1. m >= k /\ k \in Nat
      BY <1>5, <1>7, <1>8, <1>9
    <3> QED
      BY <3>1, <2>2
  <2> QED
    BY <2>1, <2>2
<1>11. Match(w) = (m > 0)
  BY <1>6, <1>9 DEF Match
<1>12. (m > 0) = (\E k \in Common(w) : k > 0)
  <2>1. ASSUME m > 0 PROVE (m > 0) = TRUE /\ (\E k \in Common(w) : k > 0) = TRUE
    BY <2>1, <1>10
  <2>2. ASSUME ~ (m > 0) PROVE (m > 0) = FALSE /\ (\E k \in Common(w) : k > 0) = FALSE
    BY <2>2, <1>10
  <2> QED
    BY <2>1, <2>2
<1> QED
  BY <1>5, <1>6, <1>11, <1>12

(***************************************************************************)
(* So is no prefix in the set missed, and no letter too many counted.      *)
(***************************************************************************)
LEMMA PrefixAnswered ==
  ASSUME words \subseteq Seq(Nat), NEW w \in Seq(Nat)
  PROVE  IsPrefixLength(w, LongestPrefix(w)) /\ IsMatch(w, Match(w))
<1>1. Len(w) \in Nat
  BY LenProperties
<1>2. PICK S : S = Common(w) \cup {0}
  OBVIOUS
<1>3. S \subseteq 0..Len(w)
  BY <1>1, <1>2 DEF Common
<1>4. S \subseteq Nat /\ IsFiniteSet(S) /\ 0 \in S
  <2>1. IsFiniteSet(0..Len(w))
    BY <1>1, FS_Interval
  <2>2. IsFiniteSet(S)
    BY <1>3, <2>1, FS_Subset
  <2> QED
    BY <1>1, <1>2, <1>3, <2>2
<1>5. Max(S) \in S /\ \A y \in S : Max(S) >= y
  BY <1>4, MaxIs
<1>6. InSet(w) \subseteq Common(w)
  <2> SUFFICES ASSUME NEW k \in InSet(w) PROVE k \in Common(w)
    OBVIOUS
  <2>1. PICK v : v = SubSeq(w, 1, k)
    OBVIOUS
  <2>2. k \in 0..Len(w) /\ v \in words /\ v \in Seq(Nat)
    BY <2>1 DEF InSet
  <2>3. PrefixOf(v, v)
    BY <2>2, LenProperties DEF PrefixOf, AgreeBelow
  <2> QED
    BY <2>1, <2>2, <2>3 DEF Common
<1>7. LongestPrefix(w) = Max(S) /\ Match(w) = (\E k \in Common(w) : k > 0)
  BY <1>2, PrefixIsLongest
<1>8. IsPrefixLength(w, LongestPrefix(w))
  <2>1. PICK m \in Nat : m = Max(S)
    BY <1>4, <1>5
  <2>2. \A j \in InSet(w) : j \in Nat /\ m >= j
    BY <1>2, <1>4, <1>5, <1>6, <2>1
  <2>3. m \in Common(w) \cup {0}
    BY <1>2, <1>5, <2>1
  <2> QED
    BY <1>7, <2>1, <2>2, <2>3 DEF IsPrefixLength
<1>9. IsMatch(w, Match(w))
  BY <1>6, <1>7 DEF IsMatch
<1> QED
  BY <1>8, <1>9
-----------------------------------------------------------------------------
(***************************************************************************)
(* Lists one after the other                                               *)
(***************************************************************************)

LEMMA JoinAscends ==
  ASSUME NEW S, NEW R, IsOrder(R, S), NEW A, A \subseteq S, NEW B, B \subseteq S,
         NEW s, Ascends(R, A, s), NEW t, Ascends(R, B, t),
         \A x \in A, y \in B : <<x, y>> \in R
  PROVE  Ascends(R, A \cup B, s \o t)
<1>1. PICK U : U = A \cup B
  OBVIOUS
<1>2. /\ s \in Seq(U) /\ Len(s) \in Nat /\ \A k \in 1..Len(s) : s[k] \in A
      /\ t \in Seq(U) /\ Len(t) \in Nat /\ \A k \in 1..Len(t) : t[k] \in B
  <2>1. s \in Seq(A) /\ t \in Seq(B)
    BY DEF Ascends
  <2>2. \A k \in 1..Len(s) : s[k] \in A
    BY <2>1, ElementOfSeq
  <2>3. \A k \in 1..Len(t) : t[k] \in B
    BY <2>1, ElementOfSeq
  <2>4. Seq(A) \subseteq Seq(U) /\ Seq(B) \subseteq Seq(U)
    BY <1>1
  <2> QED
    BY <2>1, <2>2, <2>3, <2>4, LenProperties
<1>3. PICK v : v = s \o t
  OBVIOUS
<1>4. /\ v \in Seq(U) /\ Len(v) = Len(s) + Len(t)
      /\ \A m \in 1..(Len(s) + Len(t)) : v[m] = IF m <= Len(s) THEN s[m] ELSE t[m - Len(s)]
  BY <1>2, <1>3, ConcatProperties
<1>5. ASSUME NEW k \in 1..Len(s) PROVE k \in 1..Len(v) /\ v[k] = s[k]
  BY <1>2, <1>4
<1>6. ASSUME NEW k \in 1..Len(t) PROVE Len(s) + k \in 1..Len(v) /\ v[Len(s) + k] = t[k]
  <2>1. /\ Len(s) + k \in 1..(Len(s) + Len(t)) /\ ~ (Len(s) + k <= Len(s))
        /\ (Len(s) + k) - Len(s) = k
    BY <1>2
  <2> QED
    BY <2>1, <1>4
<1>7. ASSUME NEW x \in U PROVE \E k \in 1..Len(v) : v[k] = x
  <2>1. CASE x \in A
    <3>1. PICK k \in 1..Len(s) : s[k] = x
      BY <2>1 DEF Ascends
    <3> QED
      BY <3>1, <1>5
  <2>2. CASE x \in B
    <3>1. PICK k \in 1..Len(t) : t[k] = x
      BY <2>2 DEF Ascends
    <3> QED
      BY <3>1, <1>6
  <2> QED
    BY <2>1, <2>2, <1>1
<1>8. ASSUME NEW k \in 1..Len(v), ~ (k <= Len(s))
      PROVE  k - Len(s) \in 1..Len(t) /\ v[k] = t[k - Len(s)]
  BY <1>2, <1>4, <1>8
<1>9. ASSUME NEW j \in 1..Len(v), NEW k \in 1..Len(v), j < k
      PROVE  <<v[j], v[k]>> \in R
  <2>1. CASE k <= Len(s)
    <3>1. j \in 1..Len(s) /\ k \in 1..Len(s)
      BY <2>1, <1>2, <1>9
    <3> QED
      BY <3>1, <1>5, <1>9 DEF Ascends
  <2>2. CASE j <= Len(s) /\ ~ (k <= Len(s))
    <3>1. j \in 1..Len(s) /\ k - Len(s) \in 1..Len(t)
      BY <2>2, <1>2, <1>8
    <3>2. v[j] \in A /\ v[k] \in B
      BY <3>1, <2>2, <1>2, <1>5, <1>8
    <3> QED
      BY <3>2
  <2>3. CASE ~ (j <= Len(s))
    <3>1. ~ (k <= Len(s))
      BY <2>3, <1>2, <1>9
    <3>2. PICK a \in 1..Len(t) : a = j - Len(s) /\ v[j] = t[a]
      BY <2>3, <1>8
    <3>3. PICK b \in 1..Len(t) : b = k - Len(s) /\ v[k] = t[b]
      BY <3>1, <1>8
    <3>4. a < b
      BY <3>2, <3>3, <1>2, <1>9
    <3> QED
      BY <3>2, <3>3, <3>4 DEF Ascends
  <2> QED
    BY <2>1, <2>2, <2>3
<1> QED
  BY <1>1, <1>3, <1>4, <1>7, <1>9 DEF Ascends

(***************************************************************************)
(* The lists s of the sets T, each set before the next.                    *)
(***************************************************************************)
AreLists(S, R, n, T, s) ==
  /\ n \in Nat \ {0} /\ s \in Seq(Seq(S)) /\ Len(s) = n
  /\ \A k \in 1..n : T[k] \subseteq S /\ Ascends(R, T[k], s[k])
  /\ \A j, k \in 1..n : j < k => \A x \in T[j], y \in T[k] : <<x, y>> \in R

UpToPart(T, m) == UNION {T[k] : k \in 1..m}

LEMMA OnePart ==
  ASSUME NEW S, NEW R, NEW n, NEW T, NEW s, AreLists(S, R, n, T, s), NEW m \in 1..n
  PROVE  /\ UpToPart(T, m) \subseteq S
         /\ m = 1 => UpToPart(T, m) = T[m]
         /\ m # 1 => /\ m - 1 \in 1..n
                     /\ UpToPart(T, m) = UpToPart(T, m - 1) \cup T[m]
                     /\ \A x \in UpToPart(T, m - 1), y \in T[m] : <<x, y>> \in R
<1>1. n \in Nat
  BY DEF AreLists
<1>2. UpToPart(T, m) \subseteq S
  <2>1. \A k \in 1..m : T[k] \subseteq S
    <3>1. \A k \in 1..m : k \in 1..n
      BY <1>1
    <3> QED
      BY <3>1 DEF AreLists
  <2> QED
    BY <2>1 DEF UpToPart
<1>3. ASSUME m = 1 PROVE UpToPart(T, m) = T[m]
  <2>1. 1..m = {m}
    BY <1>3
  <2> QED
    BY <2>1 DEF UpToPart
<1>4. ASSUME m # 1
      PROVE  /\ m - 1 \in 1..n
             /\ UpToPart(T, m) = UpToPart(T, m - 1) \cup T[m]
             /\ \A x \in UpToPart(T, m - 1), y \in T[m] : <<x, y>> \in R
  <2>1. m - 1 \in 1..n /\ 1..m = (1..(m - 1)) \cup {m}
    BY <1>1, <1>4
  <2>2. UpToPart(T, m) = UpToPart(T, m - 1) \cup T[m]
    BY <2>1 DEF UpToPart
  <2>3. ASSUME NEW x \in UpToPart(T, m - 1), NEW y \in T[m] PROVE <<x, y>> \in R
    <3>1. PICK k \in 1..(m - 1) : x \in T[k]
      BY DEF UpToPart
    <3>2. k \in 1..n /\ k < m
      BY <1>1
    <3> QED
      BY <3>1, <3>2 DEF AreLists
  <2> QED
    BY <2>1, <2>2, <2>3
<1> QED
  BY <1>2, <1>3, <1>4

LEMMA FlattenAscends ==
  ASSUME NEW S, IsFiniteSet(S), NEW R, IsOrder(R, S), NEW n, NEW T, NEW s,
         AreLists(S, R, n, T, s)
  PROVE  Ascends(R, UpToPart(T, n), FlattenSeq(s))
<1>1. /\ n \in Nat \ {0} /\ Len(s) = n
      /\ \A k \in 1..n : T[k] \subseteq S /\ Ascends(R, T[k], s[k])
  BY DEF AreLists
<1>2. ASSUME NEW A, A \subseteq S PROVE IsFiniteSet(A) /\ IsOrder(R, A)
  <2>1. IsOrder(R, A)
    BY <1>2 DEF IsOrder
  <2>2. IsFiniteSet(A)
    BY <1>2, FS_Subset
  <2> QED
    BY <2>1, <2>2
<1>3. ASSUME NEW m \in 1..n, m # 1, NEW t, Ascends(R, UpToPart(T, m - 1), t)
      PROVE  Ascends(R, UpToPart(T, m), t \o s[m])
  <2>1. PICK A : A = UpToPart(T, m - 1)
    OBVIOUS
  <2>2. PICK B : B = T[m]
    OBVIOUS
  <2>3. /\ m - 1 \in 1..n /\ UpToPart(T, m) = A \cup B
        /\ \A x \in A, y \in B : <<x, y>> \in R
    BY <1>3, <2>1, <2>2, OnePart
  <2>4. A \subseteq S
    BY <2>1, <2>3, OnePart
  <2>5. B \subseteq S /\ Ascends(R, B, s[m])
    BY <2>2, <1>1
  <2>6. Ascends(R, A, t)
    BY <2>1, <1>3
  <2>7. Ascends(R, A \cup B, t \o s[m])
    BY <2>3, <2>4, <2>5, <2>6, JoinAscends
  <2> QED
    BY <2>3, <2>7
<1> DEFINE Q(h) == h = [m \in 1..Len(s) |-> IF m = 1 THEN s[m] ELSE h[m - 1] \o s[m]]
           g == CHOOSE h : Q(h)
           f == [m \in 1..n |-> CHOOSE t : Ascends(R, UpToPart(T, m), t)]
<1>4. ASSUME NEW m \in 1..n PROVE Ascends(R, UpToPart(T, m), f[m])
  <2>1. PICK A : A = UpToPart(T, m)
    OBVIOUS
  <2>2. A \subseteq S
    BY <2>1, OnePart
  <2>3. \E t : Ascends(R, A, t)
    <3>1. IsFiniteSet(A) /\ IsOrder(R, A)
      BY <2>2, <1>2
    <3>2. \E t \in [1..Cardinality(A) -> A] : Ascends(R, A, t)
      BY <3>1, ListExists
    <3> QED
      BY <3>2
  <2>4. f[m] = CHOOSE t : Ascends(R, A, t)
    BY <2>1
  <2> HIDE DEF f
  <2> QED
    BY <2>1, <2>3, <2>4
<1>5. f = [m \in 1..n |-> f[m]]
  OBVIOUS
<1>6. FlattenSeq(s) = g[n]
  BY <1>1 DEF FlattenSeq
<1> HIDE DEF f
<1>8. ASSUME NEW m \in 1..n
      PROVE  f[m] = IF m = 1 THEN s[m] ELSE f[m - 1] \o s[m]
  <2>1. PICK A : A = UpToPart(T, m)
    OBVIOUS
  <2>2. IsOrder(R, A)
    BY <2>1, <1>2, OnePart
  <2>3. Ascends(R, A, f[m])
    BY <2>1, <1>4
  <2>4. CASE m = 1
    <3>1. Ascends(R, A, s[m])
      BY <2>1, <2>4, <1>1, OnePart
    <3>2. f[m] = s[m]
      BY <3>1, <2>2, <2>3, ListUnique
    <3> QED
      BY <3>2, <2>4
  <2>5. CASE m # 1
    <3>1. m - 1 \in 1..n
      BY <2>5, OnePart
    <3>2. Ascends(R, A, f[m - 1] \o s[m])
      BY <3>1, <2>1, <2>5, <1>3, <1>4
    <3>3. f[m] = f[m - 1] \o s[m]
      BY <3>2, <2>2, <2>3, ListUnique
    <3> QED
      BY <3>3, <2>5
  <2> QED
    BY <2>4, <2>5
<1>9. Q(f)
  BY <1>1, <1>5, <1>8
<1>10. Q(g)
  <2> HIDE DEF Q
  <2> QED
    BY <1>9
<1>11. \A m \in 1..n : g[m] = IF m = 1 THEN s[m] ELSE g[m - 1] \o s[m]
  <2> HIDE DEF g
  <2> QED
    BY <1>1, <1>10
<1> HIDE DEF g, Q
<1> DEFINE Wrong == {m \in 1..n : ~ Ascends(R, UpToPart(T, m), g[m])}
<1>12. n \in 1..n
  BY <1>1
<1> SUFFICES ASSUME Wrong # {} PROVE FALSE
  BY <1>6, <1>12
<1>13. PICK m \in Wrong : \A y \in Wrong : m <= y
  <2>1. Wrong \subseteq Nat
    BY <1>1
  <2> HIDE DEF Wrong
  <2> QED
    BY <2>1, LeastNatural
<1>14. m \in 1..n /\ ~ Ascends(R, UpToPart(T, m), g[m])
  BY <1>13
<1>15. CASE m = 1
  BY <1>1, <1>11, <1>14, <1>15, OnePart
<1>16. CASE m # 1
  <2>1. m - 1 \in 1..n /\ ~ (m <= m - 1)
    BY <1>1, <1>14, <1>16, OnePart
  <2>2. Ascends(R, UpToPart(T, m - 1), g[m - 1])
    BY <2>1, <1>13
  <2>3. Ascends(R, UpToPart(T, m), g[m - 1] \o s[m])
    BY <2>2, <1>3, <1>14, <1>16
  <2> QED
    BY <2>3, <1>11, <1>14, <1>16
<1> QED
  BY <1>15, <1>16
-----------------------------------------------------------------------------
(***************************************************************************)
(* The list of the words                                                   *)
(***************************************************************************)

(***************************************************************************)
(* The edges of a node are all in its order, each before those with a      *)
(* greater letter.                                                         *)
(***************************************************************************)
LEMMA EdgesInOrder ==
  ASSUME NEW L, L \subseteq Nat, IsFiniteSet(L)
  PROVE  /\ Cardinality(L) \in Nat
         /\ EdgeOrder(L) \in Seq(L) /\ Len(EdgeOrder(L)) = Cardinality(L)
         /\ \A k \in 1..Cardinality(L) : EdgeOrder(L)[k] \in L
         /\ \A l \in L : \E k \in 1..Cardinality(L) : EdgeOrder(L)[k] = l
         /\ \A j, k \in 1..Cardinality(L) : j < k => EdgeOrder(L)[j] < EdgeOrder(L)[k]
<1>1. PICK n \in Nat : n = Cardinality(L)
  BY FS_CardinalityType
<1>2. PICK R : R = {x \in L \X L : x[1] < x[2]}
  OBVIOUS
<1>3. \A x, y \in L : <<x, y>> \in R <=> x < y
  BY <1>2
<1>4. IsOrder(R, L)
  BY <1>3 DEF IsOrder
<1>5. \E s \in [1..Cardinality(L) -> L] : Ascends(R, L, s)
  BY <1>4, ListExists
<1>6. PICK t \in [1..n -> L] : Ascends(R, L, t)
  BY <1>1, <1>5
<1>7. \A j, k \in 1..n : j < k => t[j] < t[k]
  <2>1. t \in Seq(L) /\ Len(t) = n
    BY <1>1, <1>6
  <2>2. \A j, k \in 1..n : j < k => <<t[j], t[k]>> \in R
    BY <1>6, <2>1 DEF Ascends
  <2> QED
    BY <2>2, <1>3, <1>6
<1>8. PICK s \in [1..n -> L] : /\ s = EdgeOrder(L)
                               /\ \A j, k \in 1..n : j < k => s[j] < s[k]
  BY <1>1, <1>6, <1>7 DEF EdgeOrder
<1>9. s \in Seq(L) /\ Len(s) = n
  BY <1>1, <1>8
<1>10. s \in Injection(1..n, L)
  <2>1. \A j, k \in 1..n : s[j] = s[k] => j = k
    <3>1. ASSUME NEW j \in 1..n, NEW k \in 1..n, s[j] = s[k] PROVE j = k
      <4>1. s[j] \in Nat /\ s[k] \in Nat
        BY <1>8
      <4>2. ~ (j < k) /\ ~ (k < j)
        BY <4>1, <3>1, <1>8
      <4> QED
        BY <4>2
    <3> QED
      BY <3>1
  <2> QED
    BY <2>1, <1>8 DEF Injection, IsInjective
<1>11. Cardinality(1..n) = Cardinality(L)
  <2>1. 1 \in Int /\ n \in Int
    BY <1>1
  <2>2. Cardinality(1..n) = IF 1 > n THEN 0 ELSE n - 1 + 1
    BY <2>1, FS_Interval
  <2> QED
    BY <2>2, <1>1
<1>12. s \in Surjection(1..n, L)
  BY <1>10, <1>11, FS_Injection
<1>13. \A l \in L : \E k \in 1..n : s[k] = l
  BY <1>12 DEF Surjection
<1> QED
  BY <1>1, <1>8, <1>9, <1>13

OrderOf(e, n, L) ==
  /\ e \in Seq(L) /\ Len(e) = n
  /\ \A k \in 1..n : e[k] \in L
  /\ \A l \in L : \E k \in 1..n : e[k] = l
  /\ \A j, k \in 1..n : j < k => e[j] < e[k]

LEMMA EdgesAreOrder ==
  ASSUME NEW L, L \subseteq Nat, IsFiniteSet(L)
  PROVE  OrderOf(EdgeOrder(L), Cardinality(L), L)
BY EdgesInOrder DEF OrderOf

(***************************************************************************)
(* The words that begin with p: p itself comes first, and those that go on *)
(* with a smaller letter come before the others.                           *)
(***************************************************************************)
Part(root, p) == {v \in root : PrefixOf(p, v)}

LEMMA PartOf ==
  ASSUME NEW root, root \subseteq Seq(Nat), NEW p \in Seq(Nat), NEW v \in Seq(Nat)
  PROVE  /\ PrefixOf(p, p)
         /\ PrefixOf(p, v) <=> p = v \/ \E c \in Nat : PrefixOf(Append(p, c), v)
         /\ PrefixOf(p, v) /\ p # v => Less(p, v)
<1>1. /\ Len(p) \in Nat /\ Len(v) \in Nat
      /\ PrefixOf(p, v) <=> Len(p) <= Len(v) /\ \A j \in 1..Len(p) : p[j] = v[j]
  BY PrefixIs
<1>2. PrefixOf(p, p)
  <2>1. PrefixOf(p, p) <=> Len(p) <= Len(p) /\ \A j \in 1..Len(p) : p[j] = p[j]
    BY PrefixIs
  <2> QED
    BY <2>1, <1>1
<1>3. ASSUME NEW c \in Nat
      PROVE  PrefixOf(Append(p, c), v) <=>
               /\ Len(p) + 1 <= Len(v) /\ v[Len(p) + 1] = c
               /\ \A j \in 1..Len(p) : p[j] = v[j]
  <2>1. PICK q : q = Append(p, c)
    OBVIOUS
  <2>2. /\ q \in Seq(Nat) /\ Len(q) = Len(p) + 1 /\ \A j \in 1..Len(p) : q[j] = p[j]
        /\ q[Len(p) + 1] = c
    BY <2>1, AppendProperties
  <2>3. PrefixOf(q, v) <=> Len(q) <= Len(v) /\ \A j \in 1..Len(q) : q[j] = v[j]
    BY <2>2, PrefixIs
  <2>4. ASSUME \A j \in 1..Len(q) : q[j] = v[j]
        PROVE  v[Len(p) + 1] = c /\ \A j \in 1..Len(p) : p[j] = v[j]
    <3>1. Len(p) + 1 \in 1..Len(q) /\ \A j \in 1..Len(p) : j \in 1..Len(q)
      BY <1>1, <2>2
    <3> QED
      BY <3>1, <2>2, <2>4
  <2>5. ASSUME v[Len(p) + 1] = c, \A j \in 1..Len(p) : p[j] = v[j], NEW j \in 1..Len(q)
        PROVE  q[j] = v[j]
    <3>1. j \in 1..Len(p) \/ j = Len(p) + 1
      BY <1>1, <2>2
    <3> QED
      BY <3>1, <2>2, <2>5
  <2> QED
    BY <2>1, <2>2, <2>3, <2>4, <2>5
<1>4. ASSUME PrefixOf(p, v), p # v
      PROVE  Len(p) + 1 <= Len(v) /\ v[Len(p) + 1] \in Nat
  <2>1. Len(p) # Len(v)
    <3> SUFFICES ASSUME Len(p) = Len(v) PROVE FALSE
      OBVIOUS
    <3> QED
      BY <1>1, <1>4, SeqEqual
  <2>2. Len(p) + 1 \in 1..Len(v)
    BY <2>1, <1>1, <1>4
  <2>3. v[Len(p) + 1] \in Nat
    BY <2>2, ElementOfSeq
  <2> QED
    BY <2>2, <2>3
<1>5. PrefixOf(p, v) <=> p = v \/ \E c \in Nat : PrefixOf(Append(p, c), v)
  <2>1. ASSUME PrefixOf(p, v), p # v PROVE \E c \in Nat : PrefixOf(Append(p, c), v)
    BY <2>1, <1>1, <1>3, <1>4
  <2>2. ASSUME NEW c \in Nat, PrefixOf(Append(p, c), v) PROVE PrefixOf(p, v)
    BY <2>2, <1>1, <1>3
  <2> QED
    BY <2>1, <2>2, <1>2
<1>6. ASSUME PrefixOf(p, v), p # v PROVE Less(p, v)
  <2>1. Len(p) < Len(v) /\ (Len(p) + 1) - 1 = Len(p)
    BY <1>1, <1>4, <1>6
  <2> QED
    BY <2>1, <1>1, <1>6 DEF Less, AgreeBelow
<1> QED
  BY <1>2, <1>5, <1>6

LEMMA PartsInOrder ==
  ASSUME NEW p \in Seq(Nat), NEW a \in Nat, NEW b \in Nat, a < b,
         NEW v \in Seq(Nat), NEW w \in Seq(Nat),
         PrefixOf(Append(p, a), v), PrefixOf(Append(p, b), w)
  PROVE  Less(v, w)
<1>1. ASSUME NEW c \in Nat, NEW u \in Seq(Nat), PrefixOf(Append(p, c), u)
      PROVE  Len(p) + 1 <= Len(u) /\ u[Len(p) + 1] = c /\ \A j \in 1..Len(p) : p[j] = u[j]
  <2>1. PICK q : q = Append(p, c)
    OBVIOUS
  <2>2. /\ q \in Seq(Nat) /\ Len(q) = Len(p) + 1 /\ \A j \in 1..Len(p) : q[j] = p[j]
        /\ q[Len(p) + 1] = c /\ Len(p) \in Nat
    BY <2>1, AppendProperties, LenProperties
  <2>3. Len(q) <= Len(u) /\ \A j \in 1..Len(q) : q[j] = u[j]
    BY <1>1, <2>1, <2>2, PrefixIs
  <2>4. Len(p) + 1 \in 1..Len(q) /\ \A j \in 1..Len(p) : j \in 1..Len(q)
    BY <2>2
  <2> QED
    BY <2>2, <2>3, <2>4
<1>2. Len(p) \in Nat /\ Len(v) \in Nat /\ Len(w) \in Nat
  BY LenProperties
<1>3. PICK k : k = Len(p) + 1
  OBVIOUS
<1>4. k \in 1..Len(v) /\ k <= Len(w) /\ v[k] < w[k]
  BY <1>1, <1>2, <1>3
<1>5. AgreeBelow(v, w, k)
  <2>1. k - 1 = Len(p)
    BY <1>2, <1>3
  <2>2. \A j \in 1..Len(p) : v[j] = w[j]
    BY <1>1
  <2> QED
    BY <2>1, <2>2 DEF AgreeBelow
<1> QED
  BY <1>4, <1>5 DEF Less

(***************************************************************************)
(* words_aux for the node behind p, when h lists what is behind its edges. *)
(***************************************************************************)
ListStep(root, h, p) ==
  (IF Marker(Behind(root, p)) THEN <<p>> ELSE <<>>)
    \o FlattenSeq([k \in 1..Cardinality(Labels(Behind(root, p))) |->
         h[Append(p, EdgeOrder(Labels(Behind(root, p)))[k])]])

LEMMA ListOfEdges ==
  ASSUME NEW root, root \subseteq Seq(Nat), IsFiniteSet(root), NEW h, NEW p \in Seq(Nat),
         NEW L, L = Labels(Behind(root, p)),
         \A l \in L : Ascends(WordOrder(root), Part(root, Append(p, l)), h[Append(p, l)])
  PROVE  Ascends(WordOrder(root), Part(root, p) \ {p},
                 FlattenSeq([k \in 1..Cardinality(L) |-> h[Append(p, EdgeOrder(L)[k])]]))
<1>1. L \subseteq Nat /\ IsFiniteSet(L)
  BY BehindTyped, BehindFinite, LabelsAreLetters
<1>2. PICK R : R = WordOrder(root)
  OBVIOUS
<1>3. IsOrder(R, root) /\ \A x, y \in root : <<x, y>> \in R <=> Less(x, y)
  BY <1>2, WordsAreOrdered
<1>4. PICK m \in Nat : m = Cardinality(L)
  BY <1>1, EdgesInOrder
<1>5. PICK e : e = EdgeOrder(L)
  OBVIOUS
<1>6. /\ \A k \in 1..m : e[k] \in L
      /\ \A l \in L : \E k \in 1..m : e[k] = l
      /\ \A j, k \in 1..m : j < k => e[j] < e[k]
  <2>1. OrderOf(e, m, L)
    BY <1>1, <1>4, <1>5, EdgesAreOrder
  <2> QED
    BY <2>1 DEF OrderOf
<1>7. PICK s : s = [k \in 1..m |-> h[Append(p, e[k])]]
  OBVIOUS
<1>8. PICK T : T = [k \in 1..m |-> Part(root, Append(p, e[k]))]
  OBVIOUS
<1>9. \A v : v \in Part(root, p) \ {p} <=> \E l \in L : v \in Part(root, Append(p, l))
  <2>1. ASSUME NEW v \in Part(root, p), v # p
        PROVE  \E l \in L : v \in Part(root, Append(p, l))
    <3>1. v \in root /\ v \in Seq(Nat) /\ PrefixOf(p, v)
      BY DEF Part
    <3>2. PICK c \in Nat : PrefixOf(Append(p, c), v)
      BY <2>1, <3>1, PartOf
    <3>3. Behind(root, Append(p, c)) # {}
      BY <3>1, <3>2 DEF Behind
    <3>4. c \in L
      BY <3>3, ShorterPath
    <3> QED
      BY <3>1, <3>2, <3>4 DEF Part
  <2>2. ASSUME NEW l \in L, NEW v \in Part(root, Append(p, l))
        PROVE  v \in Part(root, p) /\ v # p
    <3>1. l \in Nat /\ v \in root /\ v \in Seq(Nat) /\ PrefixOf(Append(p, l), v)
      BY <1>1 DEF Part
    <3>2. PrefixOf(p, v)
      BY <3>1, PartOf
    <3>3. PICK q \in Seq(Nat) : q = Append(p, l) /\ Len(q) = Len(p) + 1
      BY <3>1, AppendProperties
    <3>4. Len(p) \in Nat /\ Len(v) \in Nat /\ Len(p) + 1 <= Len(v)
      BY <3>1, <3>3, PrefixIs
    <3>5. Len(p) # Len(v)
      BY <3>4
    <3> QED
      BY <3>1, <3>2, <3>5 DEF Part
  <2> QED
    BY <2>1, <2>2
<1>10. CASE m = 0
  <2>1. L = {}
    BY <1>1, <1>4, <1>10, FS_EmptySet
  <2>2. Part(root, p) \ {p} = {}
    BY <2>1, <1>9
  <2>3. s = <<>>
    BY <1>7, <1>10
  <2>4. PICK z : z = <<>>
    OBVIOUS
  <2>5. z \in Seq({}) /\ Len(z) = 0
    BY <2>4, EmptySeq
  <2>6. FlattenSeq(z) = z
    BY <2>5 DEF FlattenSeq
  <2>7. Ascends(R, {}, z)
    BY <2>5 DEF Ascends
  <2> QED
    BY <2>2, <2>3, <2>4, <2>6, <2>7, <1>2, <1>4, <1>5, <1>7
<1>11. CASE m # 0
  <2>1. ASSUME NEW k \in 1..m PROVE T[k] \subseteq root /\ Ascends(R, T[k], s[k])
    BY <1>2, <1>6, <1>7, <1>8 DEF Part
  <2>2. s \in Seq(Seq(root)) /\ Len(s) = m
    <3>1. ASSUME NEW k \in 1..m PROVE s[k] \in Seq(root)
      <4>1. PICK t : t = T[k]
        OBVIOUS
      <4>2. s[k] \in Seq(t) /\ t \subseteq root
        BY <2>1, <4>1 DEF Ascends
      <4> QED
        BY <4>2
    <3>2. s \in [1..m -> Seq(root)]
      BY <3>1, <1>7
    <3> QED
      BY <3>2
  <2>3. ASSUME NEW j \in 1..m, NEW k \in 1..m, j < k, NEW x \in T[j], NEW y \in T[k]
        PROVE  <<x, y>> \in R
    <3>1. PICK a \in Nat : a = e[j]
      BY <1>1, <1>6
    <3>2. PICK b \in Nat : b = e[k]
      BY <1>1, <1>6
    <3>3. a < b
      BY <2>3, <3>1, <3>2, <1>6
    <3>4. /\ x \in root /\ x \in Seq(Nat) /\ PrefixOf(Append(p, a), x)
          /\ y \in root /\ y \in Seq(Nat) /\ PrefixOf(Append(p, b), y)
      BY <2>3, <3>1, <3>2, <1>8 DEF Part
    <3>5. Less(x, y)
      BY <3>3, <3>4, PartsInOrder
    <3> QED
      BY <3>4, <3>5, <1>3
  <2>4. AreLists(root, R, m, T, s)
    BY <2>1, <2>2, <2>3, <1>11 DEF AreLists
  <2>5. Ascends(R, UpToPart(T, m), FlattenSeq(s))
    BY <2>4, <1>3, FlattenAscends
  <2>6. UpToPart(T, m) = Part(root, p) \ {p}
    <3>1. \A v : v \in UpToPart(T, m) <=> \E k \in 1..m : v \in Part(root, Append(p, e[k]))
      BY <1>8 DEF UpToPart
    <3>2. \A v : v \in UpToPart(T, m) <=> \E l \in L : v \in Part(root, Append(p, l))
      BY <3>1, <1>6
    <3> QED
      BY <3>2, <1>9
  <2> QED
    BY <2>5, <2>6, <1>2, <1>4, <1>5, <1>7
<1> QED
  BY <1>10, <1>11

LEMMA ListOfNode ==
  ASSUME NEW root, root \subseteq Seq(Nat), IsFiniteSet(root), NEW h, NEW p \in Seq(Nat),
         \A l \in Labels(Behind(root, p)) :
           Ascends(WordOrder(root), Part(root, Append(p, l)), h[Append(p, l)])
  PROVE  Ascends(WordOrder(root), Part(root, p), ListStep(root, h, p))
<1>1. PICK R : R = WordOrder(root)
  OBVIOUS
<1>2. IsOrder(R, root) /\ \A x, y \in root : <<x, y>> \in R <=> Less(x, y)
  BY <1>1, WordsAreOrdered
<1>3. PICK B : B = Part(root, p) \ {p}
  OBVIOUS
<1>4. PICK t : t = FlattenSeq([k \in 1..Cardinality(Labels(Behind(root, p))) |->
                     h[Append(p, EdgeOrder(Labels(Behind(root, p)))[k])]])
  OBVIOUS
<1>5. Ascends(R, B, t)
  <2>1. PICK L : L = Labels(Behind(root, p))
    OBVIOUS
  <2>2. \A l \in L : Ascends(WordOrder(root), Part(root, Append(p, l)), h[Append(p, l)])
    BY <2>1
  <2>3. Ascends(WordOrder(root), Part(root, p) \ {p},
                FlattenSeq([k \in 1..Cardinality(L) |-> h[Append(p, EdgeOrder(L)[k])]]))
    BY <2>1, <2>2, ListOfEdges
  <2> QED
    BY <2>1, <2>3, <1>1, <1>3, <1>4
<1>6. B \subseteq root /\ \A y \in B : <<p, y>> \in R \/ p \notin root
  <2>1. ASSUME NEW y \in B, p \in root PROVE <<p, y>> \in R
    <3>1. y \in root /\ y \in Seq(Nat) /\ PrefixOf(p, y) /\ p # y
      BY <1>3 DEF Part
    <3>2. Less(p, y)
      BY <3>1, PartOf
    <3> QED
      BY <3>1, <3>2, <2>1, <1>2
  <2> QED
    BY <2>1, <1>3 DEF Part
<1>7. CASE p \in root
  <2>1. PICK s : s = <<p>>
    OBVIOUS
  <2>2. ListStep(root, h, p) = s \o t
    BY <2>1, <1>4, <1>7, MarkerBehind DEF ListStep
  <2>3. PICK A : A = {p}
    OBVIOUS
  <2>4. Ascends(R, A, s)
    <3>1. s \in Seq(A) /\ Len(s) = 1 /\ s[1] = p
      BY <2>1, <2>3
    <3> QED
      BY <3>1, <2>3 DEF Ascends
  <2>5. Ascends(R, A \cup B, s \o t)
    BY <2>3, <2>4, <1>2, <1>5, <1>6, <1>7, JoinAscends
  <2>6. A \cup B = Part(root, p)
    <3>1. p \in Part(root, p)
      BY <1>7, PartOf DEF Part
    <3> QED
      BY <3>1, <2>3, <1>3
  <2> QED
    BY <2>2, <2>5, <2>6, <1>1
<1>8. CASE p \notin root
  <2>1. PICK z : z = <<>>
    OBVIOUS
  <2>2. ListStep(root, h, p) = z \o t
    BY <2>1, <1>4, <1>8, MarkerBehind DEF ListStep
  <2>3. t \in Seq(B)
    BY <1>5 DEF Ascends
  <2>4. z \o t = t
    BY <2>1, <2>3, ConcatEmptySeq
  <2>5. B = Part(root, p)
    BY <1>3, <1>8 DEF Part
  <2> QED
    BY <2>2, <2>4, <2>5, <1>1, <1>5
<1> QED
  BY <1>7, <1>8

LEMMA ListingExists ==
  ASSUME NEW root, root \subseteq Seq(Nat), IsFiniteSet(root)
  PROVE  \E h : h = [p \in PathsOf(root) |-> ListStep(root, h, p)]
<1>1. PICK R : R = WordOrder(root)
  OBVIOUS
<1> DEFINE h == [p \in PathsOf(root) |-> CHOOSE t : Ascends(R, Part(root, p), t)]
<1>2. \A p \in PathsOf(root) : p \in Seq(Nat) /\ Behind(root, p) # {}
  BY InPaths
<1>3. ASSUME NEW p \in PathsOf(root)
      PROVE  IsOrder(R, Part(root, p)) /\ Ascends(R, Part(root, p), h[p])
  <2>1. PICK A : A = Part(root, p)
    OBVIOUS
  <2>2. A \subseteq root /\ IsFiniteSet(A)
    BY <2>1, FS_Subset DEF Part
  <2>3. IsOrder(R, root)
    BY <1>1, WordsAreOrdered
  <2>4. IsOrder(R, A)
    BY <2>2, <2>3 DEF IsOrder
  <2>5. \E t \in [1..Cardinality(A) -> A] : Ascends(R, A, t)
    BY <2>2, <2>4, ListExists
  <2>6. h[p] = CHOOSE t : Ascends(R, A, t)
    BY <2>1
  <2> HIDE DEF h
  <2> QED
    BY <2>1, <2>4, <2>5, <2>6
<1>4. h = [p \in PathsOf(root) |-> h[p]]
  OBVIOUS
<1> HIDE DEF h
<1>5. ASSUME NEW p \in PathsOf(root) PROVE h[p] = ListStep(root, h, p)
  <2>1. p \in Seq(Nat)
    BY <1>2
  <2>2. ASSUME NEW l \in Labels(Behind(root, p))
        PROVE  Ascends(R, Part(root, Append(p, l)), h[Append(p, l)])
    <3>1. Append(p, l) \in Seq(Nat) /\ Behind(root, Append(p, l)) # {}
      BY <2>1, LongerPath
    <3>2. Append(p, l) \in PathsOf(root)
      BY <3>1, InPaths
    <3> QED
      BY <3>2, <1>3
  <2>3. Ascends(R, Part(root, p), ListStep(root, h, p))
    BY <2>1, <2>2, <1>1, ListOfNode
  <2> QED
    BY <2>3, <1>3, ListUnique
<1>6. h = [p \in PathsOf(root) |-> ListStep(root, h, p)]
  BY <1>4, <1>5
<1> QED
  BY <1>6

LEMMA WordsOfAscends ==
  ASSUME NEW root, root \subseteq Seq(Nat), IsFiniteSet(root), root # {}
  PROVE  Ascends(WordOrder(root), root, WordsOf(root))
<1> DEFINE Q(h) == h = [p \in UNION {{SubSeq(w, 1, k) : k \in 0..Len(w)} : w \in root} |->
        (IF Marker(Behind(root, p)) THEN <<p>> ELSE <<>>)
          \o FlattenSeq([k \in 1..Cardinality(Labels(Behind(root, p))) |->
               h[Append(p, EdgeOrder(Labels(Behind(root, p)))[k])]])]
           g == CHOOSE h : Q(h)
<1>1. WordsOf(root) = g[<<>>]
  BY DEF WordsOf
<1>2. ASSUME NEW h
      PROVE  Q(h) <=> h = [p \in PathsOf(root) |-> ListStep(root, h, p)]
  BY DEF ListStep, PathsOf
<1> HIDE DEF Q
<1>3. Q(g)
  BY <1>2, ListingExists
<1>4. \A p \in PathsOf(root) : g[p] = ListStep(root, g, p)
  BY <1>2, <1>3
<1> HIDE DEF g
<1>5. PICK n \in Nat : n = LongestWord(root)
  BY LongestIs
<1>6. PICK R : R = WordOrder(root)
  OBVIOUS
<1> DEFINE Wrong(p) == p \in PathsOf(root) /\ ~ Ascends(R, Part(root, p), g[p])
           Left == {k \in Nat : \E p : Wrong(p) /\ k + Len(p) = n}
<1>7. ASSUME NEW p \in PathsOf(root)
      PROVE  p \in Seq(Nat) /\ Len(p) \in Nat /\ Len(p) <= n
  <2>1. p \in Seq(Nat) /\ Len(p) \in Nat /\ Behind(root, p) # {}
    BY InPaths, LenProperties
  <2>2. PICK u : u \in Behind(root, p)
    BY <2>1
  <2>3. Len(u) \in Nat /\ Len(p) + Len(u) <= n
    BY <2>1, <2>2, <1>5, PathIsShort
  <2> QED
    BY <2>1, <2>3
<1>8. ASSUME NEW p0, Wrong(p0) PROVE FALSE
  <2>1. n - Len(p0) \in Left
    <3>1. Len(p0) \in Nat /\ Len(p0) <= n
      BY <1>7, <1>8
    <3>2. n - Len(p0) \in Nat /\ (n - Len(p0)) + Len(p0) = n
      BY <3>1
    <3> QED
      BY <3>2, <1>8
  <2>2. PICK k \in Left : \A y \in Left : k <= y
    <3>1. Left \subseteq Nat /\ Left # {}
      BY <2>1
    <3> HIDE DEF Left
    <3> QED
      BY <3>1, LeastNatural
  <2>3. PICK p : Wrong(p) /\ k + Len(p) = n
    BY <2>2
  <2>4. p \in Seq(Nat) /\ Len(p) \in Nat /\ Len(p) <= n /\ k \in Nat
    BY <1>7, <2>2, <2>3
  <2>5. ASSUME NEW l \in Labels(Behind(root, p))
        PROVE  Ascends(R, Part(root, Append(p, l)), g[Append(p, l)])
    <3>1. PICK q : q = Append(p, l)
      OBVIOUS
    <3>2. l \in Nat /\ q \in Seq(Nat) /\ Behind(root, q) # {}
      BY <2>4, <3>1, LongerPath
    <3>3. q \in PathsOf(root) /\ Len(q) = Len(p) + 1
      BY <2>4, <3>1, <3>2, InPaths, AppendProperties
    <3>4. ~ Wrong(q)
      <4> SUFFICES ASSUME Wrong(q) PROVE FALSE
        OBVIOUS
      <4>1. Len(p) + 1 <= n
        BY <1>7, <3>3
      <4>2. k - 1 \in Nat /\ (k - 1) + (Len(p) + 1) = n
        <5>1. PICK m \in Nat : m = Len(p)
          BY <2>4
        <5>2. k + m = n /\ m + 1 <= n /\ k \in Nat
          BY <4>1, <2>3, <2>4, <5>1
        <5> QED
          BY <5>1, <5>2
      <4>3. k - 1 \in Left
        BY <4>2, <3>3
      <4>4. k <= k - 1
        BY <4>3, <2>2
      <4> QED
        BY <4>4, <2>4
    <3> QED
      BY <3>1, <3>3, <3>4
  <2>6. Ascends(R, Part(root, p), ListStep(root, g, p))
    BY <2>4, <2>5, <1>6, ListOfNode
  <2> QED
    BY <2>3, <2>6, <1>4
<1>9. <<>> \in PathsOf(root) /\ Part(root, <<>>) = root
  <2>1. PICK e \in Seq(Nat) : e = <<>> /\ Len(e) = 0
    BY EmptySeq
  <2>2. Behind(root, e) = root
    BY <2>1, BehindNothing
  <2>3. \A v \in root : PrefixOf(e, v)
    <3>1. ASSUME NEW v \in Seq(Nat) PROVE PrefixOf(e, v)
      <4>1. /\ Len(v) \in Nat
            /\ PrefixOf(e, v) <=> Len(e) <= Len(v) /\ \A j \in 1..Len(e) : e[j] = v[j]
        BY PrefixIs
      <4> QED
        BY <4>1, <2>1
    <3> QED
      BY <3>1
  <2> QED
    BY <2>1, <2>2, <2>3, InPaths DEF Part
<1> QED
  BY <1>1, <1>6, <1>8, <1>9

-----------------------------------------------------------------------------
(***************************************************************************)
(* The answers                                                             *)
(***************************************************************************)

SetOfWords == words \subseteq Seq(Nat) /\ IsFiniteSet(words)

(***************************************************************************)
(* What a step may answer.  It leaves the set as it is.                    *)
(***************************************************************************)
Said(a) ==
  \/ a.call \in {"none", "word2index", "index2word"}
  \/ \E w \in Asked : \/ a = [call |-> "exists", word |-> w, value |-> Exists(w)]
                      \/ a = [call |-> "longest_prefix", word |-> w, value |-> LongestPrefix(w)]
                      \/ a = [call |-> "match", word |-> w, value |-> Match(w)]
  \/ a = [call |-> "words", word |-> <<>>,
          value |-> IF words = {} THEN <<>> ELSE WordsOf(words)]
  \/ words # {} /\ a = [call |-> "dump", word |-> <<>>,
                        value |-> [nodes |-> DumpedNodes, edges |-> DumpedEdges]]

LEMMA StepAnswers ==
  ASSUME ReadersNext \/ UNCHANGED readers
  PROVE  words' = words /\ (answer' = answer \/ Said(answer'))
<1>1. ASSUME UNCHANGED vars PROVE words' = words /\ answer' = answer
  BY <1>1 DEF vars
<1>2. ASSUME NEW a, Return(a) PROVE words' = words /\ answer' = a
  BY <1>2 DEF Return
<1>3. ASSUME Next PROVE words' = words /\ (answer' = answer \/ Said(answer'))
  <2>1. ASSUME NEW w, Word2Index(w) PROVE words' = words /\ Said(answer')
    BY <2>1 DEF Word2Index, Said, NoAnswer
  <2>2. ASSUME NEW k, OutOfRange(k) \/ Index2Word(k) PROVE words' = words /\ Said(answer')
    BY <2>2, <1>2 DEF OutOfRange, Index2Word, Outcome, Said, NoAnswer
  <2>3. ASSUME NextLetter PROVE words' = words /\ (answer' = answer \/ Said(answer'))
    <3>1. \/ Return(Index(DAWG_NOT_EXISTS))
          \/ words' = words /\ answer' = answer
      BY <2>3 DEF NextLetter
    <3> QED
      BY <3>1, <1>2 DEF Index, Said
  <2>4. ASSUME EndOfWord PROVE words' = words /\ Said(answer')
    BY <2>4, <1>2 DEF EndOfWord, Index, Said
  <2>5. ASSUME Descend PROVE words' = words /\ answer' = answer
    BY <2>5 DEF Descend
  <2>6. ASSUME Found PROVE words' = words /\ Said(answer')
    BY <2>6, <1>2 DEF Found, Outcome, Said
  <2> QED
    BY <1>3, <2>1, <2>2, <2>3, <2>4, <2>5, <2>6, Zenon DEF Next, Step
<1>4. ASSUME NEW w \in Asked, AskExists(w) \/ AskLongestPrefix(w) \/ AskMatch(w)
      PROVE  words' = words /\ Said(answer')
  <2>1. PICK a : Return(a) /\ \/ a = [call |-> "exists", word |-> w, value |-> Exists(w)]
                              \/ a = [call |-> "longest_prefix", word |-> w,
                                      value |-> LongestPrefix(w)]
                              \/ a = [call |-> "match", word |-> w, value |-> Match(w)]
    BY <1>4, Zenon DEF AskExists, AskLongestPrefix, AskMatch, Answer
  <2>2. words' = words /\ answer' = a
    BY <2>1, <1>2
  <2> QED
    BY <2>1, <2>2, Zenon DEF Said
<1>5. ASSUME AskWords PROVE words' = words /\ Said(answer')
  BY <1>5, <1>2 DEF AskWords, Answer, Said
<1>6. ASSUME AskDump PROVE words' = words /\ Said(answer')
  BY <1>6, <1>2 DEF AskDump, Answer, Said
<1>7. ASSUME QueryNext \/ AskDump
      PROVE  words' = words /\ (answer' = answer \/ Said(answer'))
  BY <1>7, <1>3, <1>4, <1>5, <1>6, Zenon DEF QueryNext
<1> QED
  BY <1>1, <1>7, Zenon DEF ReadersNext, Asks, Iterates, readers

LEMMA StepKeepsSet ==
  ASSUME SetOfWords, ReadersNext \/ UNCHANGED readers
  PROVE  SetOfWords'
BY StepAnswers DEF SetOfWords

LEMMA InitSet ==
  ASSUME ReadersInit
  PROVE  SetOfWords /\ answer = NoAnswer
<1>1. Init
  BY DEF ReadersInit
<1> QED
  BY <1>1, UniverseAssumption, FS_Subset DEF Init, SetOfWords

LEMMA ListIsWords ==
  ASSUME SetOfWords, NEW s, s = IF words = {} THEN <<>> ELSE WordsOf(words)
  PROVE  /\ ToSet(s) = words
         /\ \A j, k \in 1..Len(s) : j < k => Less(s[j], s[k])
<1>1. CASE words = {}
  <2>1. s = <<>>
    BY <1>1
  <2>2. Len(s) = 0 /\ DOMAIN s = {}
    BY <2>1
  <2> QED
    BY <2>2, <1>1 DEF ToSet
<1>2. CASE words # {}
  <2>1. PICK R : R = WordOrder(words)
    OBVIOUS
  <2>2. Ascends(R, words, s)
    BY <2>1, <1>2, WordsOfAscends DEF SetOfWords
  <2>3. s \in Seq(words)
    BY <2>2 DEF Ascends
  <2>4. DOMAIN s = 1..Len(s) /\ \A k \in 1..Len(s) : s[k] \in words
    BY <2>3, LenProperties, ElementOfSeq
  <2>5. ToSet(s) = words
    BY <2>2, <2>4 DEF Ascends, ToSet
  <2>6. \A x, y \in words : <<x, y>> \in R <=> Less(x, y)
    BY <2>1, WordsAreOrdered DEF SetOfWords
  <2>7. \A j, k \in 1..Len(s) : j < k => Less(s[j], s[k])
    BY <2>2, <2>4, <2>6 DEF Ascends
  <2> QED
    BY <2>5, <2>7
<1> QED
  BY <1>1, <1>2

(***************************************************************************)
(* What is said is right.                                                  *)
(***************************************************************************)
LEMMA SaidExact ==
  ASSUME SetOfWords, NEW a, Said(a)
  PROVE  /\ a.call = "exists" => a.value = (a.word \in words)
         /\ a.call = "longest_prefix" => IsPrefixLength(a.word, a.value)
         /\ a.call = "match" => IsMatch(a.word, a.value)
         /\ a.call = "words" =>
              /\ ToSet(a.value) = words
              /\ \A j, k \in 1..Len(a.value) : j < k => Less(a.value[j], a.value[k])
<1>1. ASSUME a.call = "exists" PROVE a.value = (a.word \in words)
  <2>1. PICK w \in Asked : a = [call |-> "exists", word |-> w, value |-> Exists(w)]
    BY <1>1 DEF Said
  <2>2. w \in Seq(Nat)
    BY AskedAssumption
  <2>3. Exists(w) = (w \in words)
    BY <2>2, ExistsIsMember DEF SetOfWords
  <2>4. a.word = w /\ a.value = Exists(w)
    BY <2>1
  <2> QED
    BY <2>3, <2>4, Zenon
<1>2. ASSUME a.call = "longest_prefix" PROVE IsPrefixLength(a.word, a.value)
  <2>1. PICK w \in Asked :
          a = [call |-> "longest_prefix", word |-> w, value |-> LongestPrefix(w)]
    BY <1>2 DEF Said
  <2>2. w \in Seq(Nat)
    BY AskedAssumption
  <2>3. IsPrefixLength(w, LongestPrefix(w))
    BY <2>2, PrefixAnswered DEF SetOfWords
  <2>4. a.word = w /\ a.value = LongestPrefix(w)
    BY <2>1
  <2> QED
    BY <2>3, <2>4, Zenon
<1>3. ASSUME a.call = "match" PROVE IsMatch(a.word, a.value)
  <2>1. PICK w \in Asked : a = [call |-> "match", word |-> w, value |-> Match(w)]
    BY <1>3 DEF Said
  <2>2. w \in Seq(Nat)
    BY AskedAssumption
  <2>3. IsMatch(w, Match(w))
    BY <2>2, PrefixAnswered DEF SetOfWords
  <2>4. a.word = w /\ a.value = Match(w)
    BY <2>1
  <2> QED
    BY <2>3, <2>4, Zenon
<1>4. ASSUME a.call = "words"
      PROVE  /\ ToSet(a.value) = words
             /\ \A j, k \in 1..Len(a.value) : j < k => Less(a.value[j], a.value[k])
  <2>1. a.value = IF words = {} THEN <<>> ELSE WordsOf(words)
    BY <1>4 DEF Said
  <2> QED
    BY <2>1, ListIsWords
<1> QED
  BY <1>1, <1>2, <1>3, <1>4

(***************************************************************************)
(* exists, longest_prefix, match and words answer about the same set of    *)
(* words, whatever the order of the calls and whatever word is asked for;  *)
(* words lists the set in order, each word once.                           *)
(***************************************************************************)
THEOREM AlwaysExact == ReadersSpec => []AnswersExact
<1>1. ReadersInit => SetOfWords /\ AnswersExact
  <2> SUFFICES ASSUME ReadersInit PROVE SetOfWords /\ AnswersExact
    OBVIOUS
  <2>1. SetOfWords /\ answer.call = "none"
    BY InitSet DEF NoAnswer
  <2>2. /\ answer.call # "exists" /\ answer.call # "longest_prefix"
        /\ answer.call # "match" /\ answer.call # "words"
    BY <2>1
  <2> QED
    BY <2>1, <2>2, Zenon DEF AnswersExact, ExistsExact, PrefixExact, WordsInOrder
<1>2. ASSUME SetOfWords, AnswersExact, ReadersNext \/ UNCHANGED readers
      PROVE  SetOfWords' /\ AnswersExact'
  <2>1. SetOfWords'
    BY <1>2, StepKeepsSet
  <2>2. words' = words /\ (answer' = answer \/ Said(answer'))
    BY <1>2, StepAnswers
  <2>3. PICK a : a = answer'
    OBVIOUS
  <2>4. /\ a.call = "exists" => a.value = (a.word \in words)
        /\ a.call = "longest_prefix" => IsPrefixLength(a.word, a.value)
        /\ a.call = "match" => IsMatch(a.word, a.value)
        /\ a.call = "words" =>
             /\ ToSet(a.value) = words
             /\ \A j, k \in 1..Len(a.value) : j < k => Less(a.value[j], a.value[k])
    <3>1. CASE answer' = answer
      BY <3>1, <2>3, <1>2, Zenon DEF AnswersExact, ExistsExact, PrefixExact, WordsInOrder
    <3>2. CASE Said(answer')
      BY <3>2, <2>3, <1>2, SaidExact
    <3> QED
      BY <2>2, <3>1, <3>2
  <2>5. AnswersExact'
    BY <2>2, <2>3, <2>4, Zenon
    DEF AnswersExact, ExistsExact, PrefixExact, WordsInOrder,
        IsPrefixLength, IsMatch, InSet, Common
  <2> QED
    BY <2>1, <2>5
<1>3. SetOfWords /\ AnswersExact /\ [ReadersNext]_readers => SetOfWords' /\ AnswersExact'
  BY <1>2
<1> QED
  BY <1>1, <1>3, PTL DEF ReadersSpec

-----------------------------------------------------------------------------
(***************************************************************************)
(* The text dump                                                           *)
(***************************************************************************)

(***************************************************************************)
(* The tuples of dump: the nodes with their markers, and the edges.        *)
(***************************************************************************)
LEMMA InDumped ==
  ASSUME SetOfWords, NEW d, d = [nodes |-> DumpedNodes, edges |-> DumpedEdges]
  PROVE  /\ \A t : t \in d.nodes <=> \E p : /\ IsPath(words, p)
                                            /\ t = <<Behind(words, p), Marker(Behind(words, p))>>
         /\ \A e : e \in d.edges <=>
              \E p : /\ IsPath(words, p)
                     /\ \E l \in Labels(Behind(words, p)) :
                          e = <<Behind(words, p), l, Child(Behind(words, p), l)>>
<1>1. ASSUME NEW t
      PROVE  t \in DumpedNodes <=> \E n \in Below(words) : t = <<n, Marker(n)>>
  BY DEF DumpedNodes
<1>2. ASSUME NEW e
      PROVE  e \in DumpedEdges <=>
               \E n \in Below(words) : \E l \in Labels(n) : e = <<n, l, Child(n, l)>>
  BY DEF DumpedEdges
<1>3. \A n : n \in Below(words) <=> \E p : IsPath(words, p) /\ n = Behind(words, p)
  BY InBelow DEF SetOfWords
<1>4. d.nodes = DumpedNodes /\ d.edges = DumpedEdges
  OBVIOUS
<1>5. ASSUME NEW t
      PROVE  t \in d.nodes <=> \E p : /\ IsPath(words, p)
                                      /\ t = <<Behind(words, p), Marker(Behind(words, p))>>
  BY <1>1, <1>3, <1>4
<1>6. ASSUME NEW e
      PROVE  e \in d.edges <=>
               \E p : /\ IsPath(words, p)
                      /\ \E l \in Labels(Behind(words, p)) :
                           e = <<Behind(words, p), l, Child(Behind(words, p), l)>>
  BY <1>2, <1>3, <1>4
<1> QED
  BY <1>5, <1>6

(***************************************************************************)
(* No edge leads to the root: what is left behind a letter is shorter than *)
(* the longest word.                                                       *)
(***************************************************************************)
LEMMA RootIsNoChild ==
  ASSUME SetOfWords, words # {}, NEW p \in Seq(Nat), NEW c \in Nat
  PROVE  Behind(words, Append(p, c)) # words
<1> SUFFICES ASSUME Behind(words, Append(p, c)) = words PROVE FALSE
  OBVIOUS
<1>1. PICK q \in Seq(Nat) : q = Append(p, c) /\ Len(q) = Len(p) + 1
  BY AppendProperties
<1>2. PICK v \in words : Len(v) = LongestWord(words)
  BY LongestIs DEF SetOfWords
<1>3. Len(v) \in Nat /\ Len(p) \in Nat
  BY LenProperties DEF SetOfWords
<1>4. v \in Behind(words, q)
  BY <1>1, <1>2
<1>5. Len(q) + Len(v) <= LongestWord(words)
  BY <1>4, PathIsShort DEF SetOfWords
<1> QED
  BY <1>1, <1>2, <1>3, <1>5

LEMMA RootsOfDump ==
  ASSUME SetOfWords, words # {},
         NEW d, d = [nodes |-> DumpedNodes, edges |-> DumpedEdges]
  PROVE  DumpedRoots(d) = {words}
<1> USE DEF SetOfWords
<1>1. /\ \A t : t \in d.nodes <=> \E p : /\ IsPath(words, p)
                                         /\ t = <<Behind(words, p), Marker(Behind(words, p))>>
      /\ \A e : e \in d.edges <=>
           \E p : /\ IsPath(words, p)
                  /\ \E l \in Labels(Behind(words, p)) :
                       e = <<Behind(words, p), l, Child(Behind(words, p), l)>>
  BY InDumped
<1>2. PICK r \in Seq(Nat) : r = <<>> /\ IsPath(words, r) /\ Behind(words, r) = words
  BY EmptySeq, BehindNothing DEF IsPath
<1>3. ASSUME NEW n
      PROVE  n \in {t[1] : t \in d.nodes} <=> \E p : IsPath(words, p) /\ n = Behind(words, p)
  <2>1. ASSUME NEW p, IsPath(words, p), n = Behind(words, p)
        PROVE  n \in {t[1] : t \in d.nodes}
    <3>1. <<n, Marker(n)>> \in d.nodes
      BY <2>1, <1>1
    <3>2. <<n, Marker(n)>>[1] = n
      OBVIOUS
    <3> QED
      BY <3>1, <3>2
  <2>2. ASSUME NEW t \in d.nodes, n = t[1]
        PROVE  \E p : IsPath(words, p) /\ n = Behind(words, p)
    BY <2>2, <1>1
  <2> QED
    BY <2>1, <2>2
<1>4. ASSUME NEW e \in d.edges PROVE e[3] # words
  <2>1. PICK p : /\ IsPath(words, p)
                 /\ \E l \in Labels(Behind(words, p)) :
                      e = <<Behind(words, p), l, Child(Behind(words, p), l)>>
    BY <1>1
  <2>2. PICK l \in Labels(Behind(words, p)) :
          e = <<Behind(words, p), l, Child(Behind(words, p), l)>>
    BY <2>1
  <2>3. p \in Seq(Nat)
    BY <2>1 DEF IsPath
  <2>4. l \in Nat /\ Child(Behind(words, p), l) = Behind(words, Append(p, l))
    BY <2>3, LongerPath
  <2>5. e[3] = Behind(words, Append(p, l))
    BY <2>2, <2>4
  <2> QED
    BY <2>3, <2>4, <2>5, RootIsNoChild
<1>5. words \in DumpedRoots(d)
  BY <1>2, <1>3, <1>4 DEF DumpedRoots
<1>6. ASSUME NEW n \in DumpedRoots(d) PROVE n = words
  <2>1. PICK p : IsPath(words, p) /\ n = Behind(words, p)
    BY <1>3 DEF DumpedRoots
  <2>2. p \in Seq(Nat)
    BY <2>1 DEF IsPath
  <2>3. CASE p = <<>>
    BY <2>1, <2>3, <1>2
  <2>4. CASE p # <<>>
    <3>1. PICK q \in Seq(Nat), c \in Nat : p = Append(q, c)
      BY <2>2, <2>4, LastLetter
    <3>2. Behind(words, Append(q, c)) # {}
      BY <2>1, <2>4, <3>1 DEF IsPath
    <3>3. Behind(words, q) # {} /\ c \in Labels(Behind(words, q))
      BY <3>2, ShorterPath
    <3>4. IsPath(words, q) /\ Child(Behind(words, q), c) = n
      BY <2>1, <3>1, <3>3, LongerPath DEF IsPath
    <3>5. PICK e : e = <<Behind(words, q), c, Child(Behind(words, q), c)>>
      OBVIOUS
    <3>6. e \in d.edges /\ e[3] = n
      BY <1>1, <3>3, <3>4, <3>5
    <3> QED
      BY <3>6 DEF DumpedRoots
  <2> QED
    BY <2>3, <2>4
<1> QED
  BY <1>5, <1>6

(***************************************************************************)
(* The edges labelled with the next letter go on from the one node reached *)
(* to the next, or nowhere.                                                *)
(***************************************************************************)
Reached(w, k) == {Behind(words, SubSeq(w, 1, k))} \ {{}}

DumpStep(d, S, c) == {e[3] : e \in {f \in d.edges : f[1] \in S /\ f[2] = c}}

LEMMA DumpSteps ==
  ASSUME SetOfWords, NEW d, d = [nodes |-> DumpedNodes, edges |-> DumpedEdges],
         NEW w \in Seq(Nat), NEW k \in 0..Len(w), k # 0
  PROVE  k - 1 \in 0..Len(w) /\ Reached(w, k) = DumpStep(d, Reached(w, k - 1), w[k])
<1> USE DEF SetOfWords
<1>1. Len(w) \in Nat
  BY LenProperties
<1>2. PICK j \in 0..Len(w) : j = k - 1 /\ j < Len(w) /\ j + 1 = k
  <2>1. k - 1 \in 0..Len(w) /\ k - 1 < Len(w) /\ (k - 1) + 1 = k
    BY <1>1
  <2> QED
    BY <2>1
<1>3. PICK c \in Nat : c = w[k] /\ SubSeq(w, 1, k) = Append(SubSeq(w, 1, j), c)
  <2>1. w[j + 1] \in Nat /\ SubSeq(w, 1, j + 1) = Append(SubSeq(w, 1, j), w[j + 1])
    BY <1>2, OneMoreLetter
  <2> QED
    BY <2>1, <1>2
<1>4. PICK q \in Seq(Nat) : q = SubSeq(w, 1, j)
  BY BeginningIs
<1>5. PICK n : n = Behind(words, q)
  OBVIOUS
<1>6. n \subseteq Seq(Nat) /\ Child(n, c) = Behind(words, Append(q, c))
  BY <1>5, BehindTyped, ChildOfBehind
<1>7. \A e : e \in d.edges <=>
        \E p : /\ IsPath(words, p)
               /\ \E l \in Labels(Behind(words, p)) :
                    e = <<Behind(words, p), l, Child(Behind(words, p), l)>>
  BY InDumped
<1>8. ASSUME NEW e \in d.edges, e[1] \in {n} \ {{}}, e[2] = c
      PROVE  e[3] \in {Child(n, c)} \ {{}}
  <2>1. PICK p : /\ IsPath(words, p)
                 /\ \E l \in Labels(Behind(words, p)) :
                      e = <<Behind(words, p), l, Child(Behind(words, p), l)>>
    BY <1>7
  <2>2. PICK l \in Labels(Behind(words, p)) :
          e = <<Behind(words, p), l, Child(Behind(words, p), l)>>
    BY <2>1
  <2>3. Behind(words, p) = n /\ l = c /\ e[3] = Child(n, c)
    BY <2>2, <1>8
  <2>4. Child(n, c) # {}
    BY <2>3, <1>6, InLabels
  <2> QED
    BY <2>3, <2>4
<1>9. ASSUME Child(n, c) # {}
      PROVE  \E e \in d.edges : e[1] \in {n} \ {{}} /\ e[2] = c /\ e[3] = Child(n, c)
  <2>1. n # {} /\ c \in Labels(n) /\ IsPath(words, q)
    BY <1>5, <1>6, <1>9, ShorterPath DEF IsPath
  <2>2. PICK e : e = <<n, c, Child(n, c)>>
    OBVIOUS
  <2>3. e \in d.edges
    BY <2>1, <2>2, <1>5, <1>7
  <2> QED
    BY <2>1, <2>2, <2>3
<1>10. DumpStep(d, {n} \ {{}}, c) = {Child(n, c)} \ {{}}
  BY <1>8, <1>9 DEF DumpStep
<1> QED
  BY <1>2, <1>3, <1>4, <1>5, <1>6, <1>10 DEF Reached

LEMMA DumpedTargetIs ==
  ASSUME SetOfWords, words # {},
         NEW d, d = [nodes |-> DumpedNodes, edges |-> DumpedEdges],
         NEW w \in Seq(Nat)
  PROVE  DumpedTarget(d, w) = {Behind(words, w)} \ {{}}
<1> DEFINE Q(h) == h = [k \in 0..Len(w) |->
             IF k = 0 THEN DumpedRoots(d)
                      ELSE {e[3] : e \in {f \in d.edges : f[1] \in h[k - 1] /\ f[2] = w[k]}}]
           g == CHOOSE h : Q(h)
           r == [k \in 0..Len(w) |-> Reached(w, k)]
<1>1. Len(w) \in Nat
  BY LenProperties
<1>2. DumpedTarget(d, w) = g[Len(w)]
  BY DEF DumpedTarget
<1>3. ASSUME NEW h
      PROVE  Q(h) <=> h = [k \in 0..Len(w) |->
                IF k = 0 THEN DumpedRoots(d) ELSE DumpStep(d, h[k - 1], w[k])]
  BY DEF DumpStep
<1> HIDE DEF Q
<1>4. Reached(w, 0) = DumpedRoots(d)
  <2>1. Behind(words, SubSeq(w, 1, 0)) = words
    BY NoLetterRead, BehindNothing DEF SetOfWords
  <2>2. DumpedRoots(d) = {words}
    BY RootsOfDump
  <2> QED
    BY <2>1, <2>2 DEF Reached
<1>5. \A k \in 0..Len(w) : r[k] = Reached(w, k)
  OBVIOUS
<1>6. r = [k \in 0..Len(w) |-> r[k]]
  OBVIOUS
<1> HIDE DEF r
<1>7. ASSUME NEW k \in 0..Len(w)
      PROVE  r[k] = IF k = 0 THEN DumpedRoots(d) ELSE DumpStep(d, r[k - 1], w[k])
  <2>1. CASE k = 0
    BY <2>1, <1>4, <1>5
  <2>2. CASE k # 0
    BY <2>2, <1>5, DumpSteps
  <2> QED
    BY <2>1, <2>2
<1>8. r = [k \in 0..Len(w) |-> IF k = 0 THEN DumpedRoots(d) ELSE DumpStep(d, r[k - 1], w[k])]
  BY <1>6, <1>7
<1>9. Q(g)
  BY <1>3, <1>8
<1>10. \A k \in 0..Len(w) :
         g[k] = IF k = 0 THEN DumpedRoots(d) ELSE DumpStep(d, g[k - 1], w[k])
  BY <1>3, <1>9
<1> HIDE DEF g
<1> DEFINE Wrong == {k \in 0..Len(w) : g[k] # Reached(w, k)}
<1>11. Wrong = {}
  <2> SUFFICES ASSUME Wrong # {} PROVE FALSE
    OBVIOUS
  <2>1. PICK k \in Wrong : \A y \in Wrong : k <= y
    <3>1. Wrong \subseteq Nat
      BY <1>1
    <3> HIDE DEF Wrong
    <3> QED
      BY <3>1, LeastNatural
  <2>2. k \in 0..Len(w) /\ g[k] # Reached(w, k)
    BY <2>1
  <2>3. CASE k = 0
    BY <2>2, <2>3, <1>4, <1>10
  <2>4. CASE k # 0
    <3>1. k - 1 \in 0..Len(w) /\ Reached(w, k) = DumpStep(d, Reached(w, k - 1), w[k])
      BY <2>2, <2>4, DumpSteps
    <3>2. ~ (k <= k - 1)
      BY <1>1, <2>2
    <3>3. g[k - 1] = Reached(w, k - 1)
      BY <3>1, <3>2, <2>1
    <3> QED
      BY <3>1, <3>3, <2>2, <2>4, <1>10
  <2> QED
    BY <2>3, <2>4
<1>12. SubSeq(w, 1, Len(w)) = w /\ Len(w) \in 0..Len(w)
  BY WholeWord
<1>13. g[Len(w)] = Reached(w, Len(w))
  BY <1>11, <1>12
<1> QED
  BY <1>2, <1>12, <1>13 DEF Reached

LEMMA DumpExact ==
  ASSUME SetOfWords, words # {},
         NEW d, d = [nodes |-> DumpedNodes, edges |-> DumpedEdges]
  PROVE  /\ Cardinality(DumpedRoots(d)) = 1
         /\ \A w \in Asked :
              w \in words <=> \E n \in DumpedTarget(d, w) : <<n, TRUE>> \in d.nodes
<1>1. Cardinality(DumpedRoots(d)) = 1
  BY RootsOfDump, FS_Singleton
<1>2. ASSUME NEW w \in Asked
      PROVE  w \in words <=> \E n \in DumpedTarget(d, w) : <<n, TRUE>> \in d.nodes
  <2>1. w \in Seq(Nat)
    BY AskedAssumption
  <2>2. DumpedTarget(d, w) = {Behind(words, w)} \ {{}}
    BY <2>1, DumpedTargetIs
  <2>3. Marker(Behind(words, w)) <=> w \in words
    BY <2>1, MarkerBehind DEF SetOfWords
  <2>4. \A t : t \in d.nodes <=> \E p : /\ IsPath(words, p)
                                        /\ t = <<Behind(words, p), Marker(Behind(words, p))>>
    BY InDumped
  <2>5. ASSUME w \in words PROVE \E n \in DumpedTarget(d, w) : <<n, TRUE>> \in d.nodes
    <3>1. PICK n : n = Behind(words, w)
      OBVIOUS
    <3>2. Marker(n) = TRUE /\ n # {}
      BY <3>1, <2>3, <2>5 DEF Marker
    <3>3. IsPath(words, w)
      BY <3>1, <3>2, <2>1 DEF IsPath
    <3>4. <<n, Marker(n)>> \in d.nodes
      BY <3>1, <3>3, <2>4
    <3>5. n \in DumpedTarget(d, w)
      BY <3>1, <3>2, <2>2
    <3>6. <<n, TRUE>> \in d.nodes
      BY <3>2, <3>4, Zenon
    <3> QED
      BY <3>5, <3>6
  <2>6. ASSUME NEW n \in DumpedTarget(d, w), <<n, TRUE>> \in d.nodes PROVE w \in words
    <3>1. n = Behind(words, w)
      BY <2>2
    <3>2. PICK p : <<n, TRUE>> = <<Behind(words, p), Marker(Behind(words, p))>>
      BY <2>4, <2>6
    <3>3. PICK b : b = Marker(Behind(words, p))
      OBVIOUS
    <3>4. n = Behind(words, p) /\ b = TRUE
      BY <3>2, <3>3
    <3>5. Marker(n)
      BY <3>3, <3>4
    <3> QED
      BY <3>1, <3>5, <2>3
  <2> QED
    BY <2>5, <2>6
<1> QED
  BY <1>1, <1>2

(***************************************************************************)
(* What dump returns are the nodes and the edges of the finished graph.    *)
(***************************************************************************)
DumpInv ==
  answer.call = "dump" =>
    words # {} /\ answer.value = [nodes |-> DumpedNodes, edges |-> DumpedEdges]

(***************************************************************************)
(* The two sets dump returns are an automaton with one root that accepts   *)
(* the words of the set and no others: nothing is lost although the nodes  *)
(* are shared and the traversal has no marks.                              *)
(***************************************************************************)
THEOREM AlwaysAutomaton == ReadersSpec => []DumpIsAutomaton
<1>1. ReadersInit => SetOfWords /\ DumpInv
  <2> SUFFICES ASSUME ReadersInit PROVE SetOfWords /\ DumpInv
    OBVIOUS
  <2>1. SetOfWords /\ answer.call = "none"
    BY InitSet DEF NoAnswer
  <2> QED
    BY <2>1 DEF DumpInv
<1>2. ASSUME SetOfWords, DumpInv, ReadersNext \/ UNCHANGED readers
      PROVE  SetOfWords' /\ DumpInv'
  <2>1. SetOfWords'
    BY <1>2, StepKeepsSet
  <2>2. words' = words /\ (answer' = answer \/ Said(answer'))
    BY <1>2, StepAnswers
  <2>3. PICK a : a = answer'
    OBVIOUS
  <2>4. ASSUME a.call = "dump"
        PROVE  words # {} /\ a.value = [nodes |-> DumpedNodes, edges |-> DumpedEdges]
    <3>1. CASE a = answer
      BY <3>1, <2>4, <1>2 DEF DumpInv
    <3>2. CASE Said(a)
      BY <3>2, <2>4 DEF Said
    <3> QED
      BY <2>2, <2>3, <3>1, <3>2
  <2>5. DumpedNodes' = DumpedNodes /\ DumpedEdges' = DumpedEdges
    BY <2>2 DEF DumpedNodes, DumpedEdges
  <2> QED
    BY <2>1, <2>2, <2>3, <2>4, <2>5 DEF DumpInv
<1>3. SetOfWords /\ DumpInv => DumpIsAutomaton
  BY DumpExact DEF DumpInv, DumpIsAutomaton
<1>4. SetOfWords /\ DumpInv /\ [ReadersNext]_readers => SetOfWords' /\ DumpInv'
  BY <1>2
<1> QED
  BY <1>1, <1>3, <1>4, PTL DEF ReadersSpec

-----------------------------------------------------------------------------
(***************************************************************************)
(* The iterator: what is read on the way to an item                        *)
(***************************************************************************)

LEMMA PrefixesOfAppend ==
  ASSUME NEW p \in Seq(Nat), NEW c \in Nat, NEW q \in Seq(Nat)
  PROVE  /\ ~ PrefixOf(Append(p, c), p)
         /\ PrefixOf(Append(p, c), q) => PrefixOf(p, q)
         /\ PrefixOf(q, Append(p, c)) /\ Len(q) <= Len(p) => PrefixOf(q, p)
         /\ \A a \in Nat : PrefixOf(Append(p, a), Append(p, c)) => a = c
<1>1. PICK s : s = Append(p, c)
  OBVIOUS
<1>2. /\ s \in Seq(Nat) /\ Len(s) = Len(p) + 1 /\ s[Len(p) + 1] = c
      /\ \A j \in 1..Len(p) : s[j] = p[j]
  BY <1>1, AppendProperties
<1>3. Len(p) \in Nat /\ Len(q) \in Nat
  BY LenProperties
<1>4. ~ PrefixOf(s, p)
  BY <1>2, <1>3, PrefixIs
<1>5. PrefixOf(s, q) => PrefixOf(p, q)
  BY <1>1, PartOf
<1>6. ASSUME PrefixOf(q, s), Len(q) <= Len(p) PROVE PrefixOf(q, p)
  <2>1. \A j \in 1..Len(q) : q[j] = s[j]
    BY <1>2, <1>6, PrefixIs
  <2>2. \A j \in 1..Len(q) : j \in 1..Len(p)
    BY <1>3, <1>6
  <2>3. \A j \in 1..Len(q) : q[j] = p[j]
    BY <2>1, <2>2, <1>2
  <2> QED
    BY <2>3, <1>6, PrefixIs
<1>7. ASSUME NEW a \in Nat, PrefixOf(Append(p, a), s) PROVE a = c
  <2>1. PICK t : t = Append(p, a)
    OBVIOUS
  <2>2. t \in Seq(Nat) /\ Len(t) = Len(p) + 1 /\ t[Len(p) + 1] = a
    BY <2>1, AppendProperties
  <2>3. \A j \in 1..Len(t) : t[j] = s[j]
    BY <2>1, <2>2, <1>2, <1>7, PrefixIs
  <2>4. Len(p) + 1 \in 1..Len(t)
    BY <2>2, <1>3
  <2> QED
    BY <2>2, <2>3, <2>4, <1>2
<1> QED
  BY <1>1, <1>4, <1>5, <1>6, <1>7

(***************************************************************************)
(* The items of the stack, and the letters that lead to one: all but the   *)
(* last are in the buffer.                                                 *)
(***************************************************************************)
Items(root) == [node : SUBSET Seq(Nat), letter : Nat, depth : 0..LongestWord(root)]

Buffers(root) == [0..LongestWord(root) -> Nat]

ReadAt(x, b) == [j \in 1..x.depth |-> IF j = x.depth THEN x.letter ELSE b[j]]

Written(x, b) == [b EXCEPT ![x.depth] = x.letter]

LEMMA ReadAtTyped ==
  ASSUME NEW root, LongestWord(root) \in Nat,
         NEW x \in Items(root), NEW b \in Buffers(root)
  PROVE  /\ x.depth \in Nat /\ ReadAt(x, b) \in Seq(Nat) /\ Len(ReadAt(x, b)) = x.depth
         /\ Written(x, b) \in Buffers(root)
         /\ [k \in 1..x.depth |-> Written(x, b)[k]] = ReadAt(x, b)
<1>1. PICK n \in Nat : n = LongestWord(root)
  OBVIOUS
<1>2. x.depth \in 0..n /\ x.letter \in Nat /\ b \in [0..n -> Nat]
  BY <1>1 DEF Items, Buffers
<1>3. PICK d \in 0..n : d = x.depth
  BY <1>2
<1>4. PICK l \in Nat : l = x.letter
  BY <1>2
<1>5. \A j \in 1..d : j \in 0..n
  BY <1>1, <1>3
<1>6. PICK r : r = [j \in 1..d |-> IF j = d THEN l ELSE b[j]]
  OBVIOUS
<1>7. r \in [1..d -> Nat]
  BY <1>2, <1>4, <1>5, <1>6
<1>8. d \in Nat /\ r \in Seq(Nat) /\ Len(r) = d
  BY <1>1, <1>3, <1>7
<1>9. PICK v : v = [b EXCEPT ![d] = l]
  OBVIOUS
<1>10. v \in [0..n -> Nat] /\ \A j \in 0..n : v[j] = IF j = d THEN l ELSE b[j]
  BY <1>2, <1>4, <1>9
<1>11. [k \in 1..d |-> v[k]] = r
  BY <1>5, <1>6, <1>10
<1> QED
  BY <1>1, <1>3, <1>4, <1>6, <1>8, <1>9, <1>10, <1>11 DEF ReadAt, Written, Buffers

(***************************************************************************)
(* Writing the letter of an item disturbs no item that is not deeper, and  *)
(* its children go one letter further.                                     *)
(***************************************************************************)
LEMMA ReadAfter ==
  ASSUME NEW root, LongestWord(root) \in Nat,
         NEW x \in Items(root), NEW b \in Buffers(root),
         NEW z \in Items(root), z.depth <= x.depth
  PROVE  ReadAt(z, Written(x, b)) = ReadAt(z, b)
<1>1. PICK n \in Nat : n = LongestWord(root)
  OBVIOUS
<1>2. x.depth \in 0..n /\ z.depth \in 0..n /\ b \in [0..n -> Nat]
  BY <1>1 DEF Items, Buffers
<1>3. PICK d \in 0..n : d = x.depth
  BY <1>2
<1>4. PICK e \in 0..n : e = z.depth /\ e <= d
  BY <1>2, <1>3
<1>5. PICK v : v = [b EXCEPT ![d] = x.letter]
  OBVIOUS
<1>6. \A j \in 1..e : j # e => v[j] = b[j]
  <2>1. \A j \in 1..e : j # e => j \in 0..n /\ j # d
    BY <1>1, <1>3, <1>4
  <2> QED
    BY <2>1, <1>2, <1>5
<1>7. [j \in 1..e |-> IF j = e THEN z.letter ELSE v[j]]
        = [j \in 1..e |-> IF j = e THEN z.letter ELSE b[j]]
  BY <1>6
<1> QED
  BY <1>3, <1>4, <1>5, <1>7 DEF ReadAt, Written

LEMMA ReadChild ==
  ASSUME NEW root, LongestWord(root) \in Nat,
         NEW x \in Items(root), NEW b \in Buffers(root), NEW c \in Nat, NEW z,
         z.letter = c, z.depth = x.depth + 1
  PROVE  ReadAt(z, Written(x, b)) = Append(ReadAt(x, b), c)
<1>1. /\ x.depth \in Nat /\ ReadAt(x, b) \in Seq(Nat) /\ Len(ReadAt(x, b)) = x.depth
      /\ Written(x, b) \in Buffers(root)
      /\ [k \in 1..x.depth |-> Written(x, b)[k]] = ReadAt(x, b)
  BY ReadAtTyped
<1>2. PICK d \in Nat : d = x.depth
  BY <1>1
<1>3. PICK r \in Seq(Nat) : r = ReadAt(x, b) /\ Len(r) = d
  BY <1>1, <1>2
<1>4. PICK v : v = Written(x, b)
  OBVIOUS
<1>5. \A k \in 1..d : r[k] = v[k]
  <2>1. r = [k \in 1..d |-> v[k]]
    BY <1>1, <1>2, <1>3, <1>4
  <2> QED
    BY <2>1
<1>6. PICK s : s = Append(r, c)
  OBVIOUS
<1>7. /\ s \in Seq(Nat) /\ Len(s) = d + 1 /\ s[d + 1] = c
      /\ \A j \in 1..d : s[j] = r[j]
  BY <1>3, <1>6, AppendProperties
<1>8. PICK t : t = [j \in 1..(d + 1) |-> IF j = d + 1 THEN c ELSE v[j]]
  OBVIOUS
<1>9. \A j \in 1..(d + 1) : t[j] = s[j]
  <2>1. \A j \in 1..(d + 1) : j = d + 1 \/ (j # d + 1 /\ j \in 1..d)
    BY <1>2
  <2> QED
    BY <2>1, <1>5, <1>7, <1>8
<1>10. t \in Seq(Nat) /\ Len(t) = d + 1
  <2>1. \A j \in 1..(d + 1) : t[j] \in Nat
    <3>1. \A j \in 1..(d + 1) : j \in 1..Len(s)
      BY <1>7
    <3> QED
      BY <3>1, <1>7, <1>9, ElementOfSeq
  <2>2. t \in [1..(d + 1) -> Nat]
    BY <2>1, <1>8
  <2> QED
    BY <2>2
<1>11. t = s
  BY <1>7, <1>9, <1>10, SeqEqual
<1>12. ReadAt(z, v) = t
  BY <1>2, <1>8 DEF ReadAt
<1> QED
  BY <1>3, <1>4, <1>6, <1>11, <1>12

-----------------------------------------------------------------------------
(***************************************************************************)
(* The iterator: its stack                                                 *)
(***************************************************************************)

AgreesWith(pat, wild, w) ==
  \A k \in 1..Len(w) : k <= Len(pat) => pat[k] \in wild \/ pat[k] = w[k]

(***************************************************************************)
(* An item on the stack is the node behind the letters that lead to it,    *)
(* and they agree with the pattern.                                        *)
(***************************************************************************)
Waiting(root, pat, wild, x, b) ==
  /\ x.node = Behind(root, ReadAt(x, b))
  /\ x.node = {} => root = {}
  /\ AgreesWith(pat, wild, ReadAt(x, b))

(***************************************************************************)
(* z may wait under x: the words behind them differ, and it can still rely *)
(* on the letters in the buffer when the words behind x have been read.    *)
(***************************************************************************)
Apart(p, q) == ~ PrefixOf(p, q) /\ ~ PrefixOf(q, p)

Under(x, z, b) == z.depth <= x.depth /\ Apart(ReadAt(x, b), ReadAt(z, b))

Stacked(root, pat, wild, st, b) ==
  /\ st \in Seq(Items(root))
  /\ \A k \in 1..Len(st) : Waiting(root, pat, wild, st[k], b)
  /\ \A j, k \in 1..Len(st) : j < k => Under(st[j], st[k], b)

Paths(st, b) == {ReadAt(st[k], b) : k \in 1..Len(st)}

(***************************************************************************)
(* Q are the paths Q2 with the one on top, with longer ones in its place.  *)
(***************************************************************************)
With(Q, p, Q2) == Q = {p} \cup Q2

Longer(Q, p, F, Q2) == Q = {Append(p, c) : c \in F} \cup Q2

LEMMA TopOfStack ==
  ASSUME NEW root, LongestWord(root) \in Nat, NEW pat, NEW wild,
         NEW b \in Buffers(root), NEW st, st # <<>>, Stacked(root, pat, wild, st, b),
         NEW x, x = Head(st), NEW rest, rest = Tail(st)
  PROVE  /\ x \in Items(root) /\ Waiting(root, pat, wild, x, b)
         /\ rest \in Seq(Items(root)) /\ Len(rest) \in Nat
         /\ \A k \in 1..Len(rest) : Under(x, rest[k], b)
         /\ Stacked(root, pat, wild, rest, b)
         /\ With(Paths(st, b), ReadAt(x, b), Paths(rest, b))
<1>1. st \in Seq(Items(root)) /\ Len(st) \in Nat
  BY LenProperties DEF Stacked
<1>2. /\ x \in Items(root) /\ rest \in Seq(Items(root)) /\ Len(rest) = Len(st) - 1
      /\ \A k \in 1..Len(rest) : rest[k] = st[k + 1]
  BY <1>1, HeadTailProperties
<1>3. Len(rest) \in Nat
  BY <1>2, LenProperties
<1>4. x = st[1] /\ 1 \in 1..Len(st)
  <2>1. Len(st) # 0
    BY <1>1, EmptySeq
  <2> QED
    BY <2>1, <1>1
<1>5. \A k \in 1..Len(rest) : k + 1 \in 1..Len(st) /\ 1 < k + 1
  BY <1>1, <1>2
<1>6. Waiting(root, pat, wild, x, b)
  BY <1>4 DEF Stacked
<1>7. \A k \in 1..Len(rest) : Under(x, rest[k], b)
  BY <1>2, <1>4, <1>5 DEF Stacked
<1>8. \A k \in 1..Len(rest) : Waiting(root, pat, wild, rest[k], b)
  BY <1>2, <1>5 DEF Stacked
<1>9. ASSUME NEW j \in 1..Len(rest), NEW k \in 1..Len(rest), j < k
      PROVE  Under(rest[j], rest[k], b)
  <2>1. j + 1 \in 1..Len(st) /\ k + 1 \in 1..Len(st) /\ j + 1 < k + 1
    BY <1>5, <1>9
  <2> QED
    BY <2>1, <1>2 DEF Stacked
<1>10. Stacked(root, pat, wild, rest, b)
  BY <1>2, <1>8, <1>9 DEF Stacked
<1>11. Paths(st, b) = {ReadAt(x, b)} \cup Paths(rest, b)
  <2>1. ASSUME NEW k \in 1..Len(st)
        PROVE  ReadAt(st[k], b) \in {ReadAt(x, b)} \cup Paths(rest, b)
    <3>1. CASE k = 1
      BY <3>1, <1>4
    <3>2. CASE k # 1
      <4>1. PICK j \in 1..Len(rest) : j + 1 = k
        <5>1. k - 1 \in 1..Len(rest) /\ (k - 1) + 1 = k
          BY <3>2, <1>1, <1>2
        <5> QED
          BY <5>1
      <4> QED
        BY <4>1, <1>2 DEF Paths
    <3> QED
      BY <3>1, <3>2
  <2>2. \A k \in 1..Len(rest) : ReadAt(rest[k], b) \in Paths(st, b)
    BY <1>2, <1>5 DEF Paths
  <2>3. ReadAt(x, b) \in Paths(st, b)
    BY <1>4 DEF Paths
  <2> QED
    BY <2>1, <2>2, <2>3 DEF Paths
<1>12. With(Paths(st, b), ReadAt(x, b), Paths(rest, b))
  BY <1>11 DEF With
<1> QED
  BY <1>2, <1>3, <1>6, <1>7, <1>10, <1>12

(***************************************************************************)
(* The items t that are pushed for x: one for each of the letters F.       *)
(***************************************************************************)
ArePushed(root, x, F, t) ==
  /\ t \in Seq(Items(root))
  /\ \A k \in 1..Len(t) : /\ t[k].letter \in F /\ t[k].depth = x.depth + 1
                          /\ t[k].node = Child(x.node, t[k].letter)
  /\ \A c \in F : \E k \in 1..Len(t) : t[k].letter = c
  /\ \A j, k \in 1..Len(t) : t[j].letter = t[k].letter => j = k

LEMMA VisitedStack ==
  ASSUME NEW root, root \subseteq Seq(Nat), LongestWord(root) \in Nat, NEW pat, NEW wild,
         NEW b \in Buffers(root), NEW st, st # <<>>, Stacked(root, pat, wild, st, b),
         NEW x, x = Head(st), NEW F, F \subseteq Labels(x.node), NEW t, ArePushed(root, x, F, t),
         \A c \in F : AgreesWith(pat, wild, Append(ReadAt(x, b), c))
  PROVE  /\ Stacked(root, pat, wild, t \o Tail(st), Written(x, b))
         /\ Longer(Paths(t \o Tail(st), Written(x, b)), ReadAt(x, b), F, Paths(Tail(st), b))
<1>1. PICK rest : rest = Tail(st)
  OBVIOUS
<1>2. PICK v : v = Written(x, b)
  OBVIOUS
<1>3. /\ x \in Items(root) /\ Waiting(root, pat, wild, x, b)
      /\ rest \in Seq(Items(root)) /\ Len(rest) \in Nat
      /\ \A k \in 1..Len(rest) : Under(x, rest[k], b)
      /\ Stacked(root, pat, wild, rest, b)
  BY <1>1, TopOfStack
<1>4. PICK p \in Seq(Nat) : p = ReadAt(x, b) /\ Len(p) = x.depth /\ v \in Buffers(root)
                            /\ x.depth \in Nat
  BY <1>2, <1>3, ReadAtTyped
<1>5. F \subseteq Nat /\ \A c \in F : Child(x.node, c) = Behind(root, Append(p, c))
                                      /\ Behind(root, Append(p, c)) # {}
  BY <1>3, <1>4, LongerPath DEF Waiting
<1>6. /\ t \in Seq(Items(root)) /\ Len(t) \in Nat
      /\ \A k \in 1..Len(t) : t[k] \in Items(root)
      /\ \A k \in 1..Len(rest) : rest[k] \in Items(root)
  BY <1>3, LenProperties, ElementOfSeq DEF ArePushed
<1>7. ASSUME NEW k \in 1..Len(t)
      PROVE  /\ t[k].letter \in F /\ t[k].depth = x.depth + 1
             /\ ReadAt(t[k], v) = Append(p, t[k].letter)
             /\ Waiting(root, pat, wild, t[k], v)
  <2>1. /\ t[k].letter \in F /\ t[k].depth = x.depth + 1
        /\ t[k].node = Child(x.node, t[k].letter)
    BY DEF ArePushed
  <2>2. PICK c \in Nat : c = t[k].letter
    BY <2>1, <1>5
  <2>3. ReadAt(t[k], v) = Append(p, c)
    <3>1. PICK z : z = t[k]
      OBVIOUS
    <3>2. z.letter = c /\ z.depth = x.depth + 1
      BY <3>1, <2>1, <2>2
    <3>3. ReadAt(z, Written(x, b)) = Append(ReadAt(x, b), c)
      BY <3>2, <1>3, ReadChild
    <3> QED
      BY <3>1, <3>3, <1>2, <1>4
  <2>4. t[k].node = Behind(root, Append(p, c)) /\ t[k].node # {}
    BY <2>1, <2>2, <1>5
  <2>5. AgreesWith(pat, wild, Append(p, c))
    BY <2>1, <2>2, <1>4
  <2> QED
    BY <2>1, <2>2, <2>3, <2>4, <2>5 DEF Waiting
<1>8. ASSUME NEW k \in 1..Len(rest)
      PROVE  /\ rest[k].depth <= x.depth /\ rest[k].depth \in Nat
             /\ ReadAt(rest[k], v) = ReadAt(rest[k], b)
             /\ ReadAt(rest[k], b) \in Seq(Nat) /\ Len(ReadAt(rest[k], b)) = rest[k].depth
             /\ Apart(p, ReadAt(rest[k], b))
  <2>1. rest[k].depth <= x.depth /\ Apart(p, ReadAt(rest[k], b))
    BY <1>3, <1>4 DEF Under
  <2>2. rest[k] \in Items(root)
    BY <1>6
  <2>3. ReadAt(rest[k], v) = ReadAt(rest[k], b)
    BY <2>1, <2>2, <1>2, <1>3, ReadAfter
  <2>4. /\ rest[k].depth \in Nat /\ ReadAt(rest[k], b) \in Seq(Nat)
        /\ Len(ReadAt(rest[k], b)) = rest[k].depth
    BY <2>2, ReadAtTyped
  <2> QED
    BY <2>1, <2>3, <2>4
<1>9. PICK s : s = t \o rest
  OBVIOUS
<1>10. /\ s \in Seq(Items(root)) /\ Len(s) = Len(t) + Len(rest)
       /\ \A k \in 1..(Len(t) + Len(rest)) :
            s[k] = IF k <= Len(t) THEN t[k] ELSE rest[k - Len(t)]
  BY <1>3, <1>6, <1>9, ConcatProperties
<1>11. ASSUME NEW k \in 1..Len(s), k <= Len(t) PROVE k \in 1..Len(t) /\ s[k] = t[k]
  BY <1>6, <1>10, <1>11
<1>12. ASSUME NEW k \in 1..Len(s), ~ (k <= Len(t))
       PROVE  k - Len(t) \in 1..Len(rest) /\ s[k] = rest[k - Len(t)]
  BY <1>3, <1>6, <1>10, <1>12
<1>13. ASSUME NEW k \in 1..Len(rest) PROVE Len(t) + k \in 1..Len(s) /\ s[Len(t) + k] = rest[k]
  <2>1. /\ Len(t) + k \in 1..(Len(t) + Len(rest)) /\ ~ (Len(t) + k <= Len(t))
        /\ (Len(t) + k) - Len(t) = k
    BY <1>3, <1>6
  <2> QED
    BY <2>1, <1>10
<1>14. ASSUME NEW k \in 1..Len(t) PROVE k \in 1..Len(s) /\ s[k] = t[k]
  BY <1>3, <1>6, <1>10
<1>15. ASSUME NEW k \in 1..Len(s) PROVE Waiting(root, pat, wild, s[k], v)
  <2>1. CASE k <= Len(t)
    BY <2>1, <1>7, <1>11
  <2>2. CASE ~ (k <= Len(t))
    <3>1. PICK j \in 1..Len(rest) : s[k] = rest[j]
      BY <2>2, <1>12
    <3>2. Waiting(root, pat, wild, rest[j], b)
      BY <1>3 DEF Stacked
    <3> QED
      BY <3>1, <3>2, <1>8 DEF Waiting
  <2> QED
    BY <2>1, <2>2
<1>16. ASSUME NEW j \in 1..Len(s), NEW k \in 1..Len(s), j < k
       PROVE  Under(s[j], s[k], v)
  <2>1. CASE k <= Len(t)
    <3>1. j \in 1..Len(t) /\ k \in 1..Len(t) /\ s[j] = t[j] /\ s[k] = t[k]
      BY <2>1, <1>6, <1>10, <1>11, <1>16
    <3>2. PICK a \in Nat : a = t[j].letter
      BY <3>1, <1>5, <1>7
    <3>3. PICK c \in Nat : c = t[k].letter
      BY <3>1, <1>5, <1>7
    <3>4. a # c
      <4>1. j # k
        BY <1>16
      <4>2. t[j].letter # t[k].letter
        BY <4>1, <3>1, Zenon DEF ArePushed
      <4> QED
        BY <4>2, <3>2, <3>3
    <3>5. Apart(Append(p, a), Append(p, c))
      BY <3>4, PrefixesOfAppend, AppendProperties DEF Apart
    <3>6. t[j].depth = x.depth + 1 /\ t[k].depth = x.depth + 1
      BY <3>1, <1>7
    <3>7. ReadAt(t[j], v) = Append(p, a) /\ ReadAt(t[k], v) = Append(p, c)
      BY <3>1, <3>2, <3>3, <1>7
    <3>8. t[k].depth <= t[j].depth
      BY <3>6, <1>4
    <3> QED
      BY <3>1, <3>5, <3>7, <3>8 DEF Under
  <2>2. CASE j <= Len(t) /\ ~ (k <= Len(t))
    <3>1. j \in 1..Len(t) /\ s[j] = t[j]
      BY <2>2, <1>11
    <3>2. PICK e \in 1..Len(rest) : s[k] = rest[e]
      BY <2>2, <1>12
    <3>3. PICK q \in Seq(Nat) : q = ReadAt(rest[e], b) /\ Len(q) = rest[e].depth
      BY <1>8
    <3>4. PICK a \in Nat : a = t[j].letter
      BY <3>1, <1>5, <1>7
    <3>5. Apart(p, q) /\ rest[e].depth <= x.depth /\ ReadAt(rest[e], v) = q
      BY <3>3, <1>8
    <3>6. Apart(Append(p, a), q)
      BY <3>3, <3>5, <1>4, PrefixesOfAppend DEF Apart
    <3>7. t[j].depth = x.depth + 1 /\ ReadAt(t[j], v) = Append(p, a)
      BY <3>1, <3>4, <1>7
    <3>8. rest[e].depth <= t[j].depth
      <4>1. PICK d \in Nat : d = x.depth
        BY <1>4
      <4>2. PICK h \in Nat : h = rest[e].depth
        BY <3>3
      <4>3. h <= d + 1
        BY <3>5, <4>1, <4>2
      <4> QED
        BY <3>7, <4>1, <4>2, <4>3
    <3> QED
      BY <3>1, <3>2, <3>5, <3>6, <3>7, <3>8 DEF Under
  <2>3. CASE ~ (j <= Len(t))
    <3>1. ~ (k <= Len(t))
      BY <2>3, <1>6, <1>10, <1>16
    <3>2. PICK e \in 1..Len(rest) : e = j - Len(t) /\ s[j] = rest[e]
      BY <2>3, <1>12
    <3>3. PICK f \in 1..Len(rest) : f = k - Len(t) /\ s[k] = rest[f]
      BY <3>1, <1>12
    <3>4. e < f
      BY <3>2, <3>3, <1>6, <1>10, <1>16
    <3>5. Under(rest[e], rest[f], b)
      BY <3>4, <1>3 DEF Stacked
    <3> QED
      BY <3>2, <3>3, <3>5, <1>8 DEF Under
  <2> QED
    BY <2>1, <2>2, <2>3
<1>17. Stacked(root, pat, wild, s, v)
  BY <1>10, <1>15, <1>16 DEF Stacked
<1>18. Paths(s, v) = {Append(p, c) : c \in F} \cup Paths(rest, b)
  <2>1. ASSUME NEW k \in 1..Len(s)
        PROVE  ReadAt(s[k], v) \in {Append(p, c) : c \in F} \cup Paths(rest, b)
    <3>1. CASE k <= Len(t)
      BY <3>1, <1>7, <1>11
    <3>2. CASE ~ (k <= Len(t))
      <4>1. PICK j \in 1..Len(rest) : s[k] = rest[j]
        BY <3>2, <1>12
      <4>2. ReadAt(s[k], v) = ReadAt(rest[j], b)
        BY <4>1, <1>8
      <4> QED
        BY <4>2 DEF Paths
    <3> QED
      BY <3>1, <3>2
  <2>2. ASSUME NEW c \in F PROVE Append(p, c) \in Paths(s, v)
    <3>1. PICK k \in 1..Len(t) : t[k].letter = c
      BY DEF ArePushed
    <3>2. k \in 1..Len(s) /\ s[k] = t[k] /\ ReadAt(t[k], v) = Append(p, c)
      BY <3>1, <1>7, <1>14
    <3> QED
      BY <3>2 DEF Paths
  <2>3. ASSUME NEW k \in 1..Len(rest) PROVE ReadAt(rest[k], b) \in Paths(s, v)
    <3>1. PICK e \in 1..Len(s) : s[e] = rest[k]
      BY <1>13
    <3>2. ReadAt(s[e], v) = ReadAt(rest[k], b)
      BY <3>1, <1>8
    <3> QED
      BY <3>2 DEF Paths
  <2> QED
    BY <2>1, <2>2, <2>3 DEF Paths
<1>19. Longer(Paths(s, v), p, F, Paths(rest, b))
  BY <1>18 DEF Longer
<1> QED
  BY <1>1, <1>2, <1>4, <1>9, <1>17, <1>19

-----------------------------------------------------------------------------
(***************************************************************************)
(* The iterator: its results                                               *)
(***************************************************************************)

(***************************************************************************)
(* y are words of W, each once; every other word of W is still to come     *)
(* behind one of the paths Q, and none of y is.                            *)
(***************************************************************************)
Results(W, Q, y) ==
  /\ y \in Seq(Seq(Nat))
  /\ \A j \in 1..Len(y) : y[j] \in W /\ \A q \in Q : ~ PrefixOf(q, y[j])
  /\ \A j, k \in 1..Len(y) : y[j] = y[k] => j = k
  /\ \A w \in W : (\E j \in 1..Len(y) : y[j] = w) \/ (\E q \in Q : PrefixOf(q, w))

LEMMA ResultsWithout ==
  ASSUME NEW W, NEW Q, NEW p, NEW Q2, With(Q, p, Q2), NEW y, Results(W, Q, y),
         \A w \in W : ~ PrefixOf(p, w)
  PROVE  Results(W, Q2, y)
<1> USE DEF With
<1>1. \A j \in 1..Len(y) : y[j] \in W /\ \A q \in Q2 : ~ PrefixOf(q, y[j])
  BY DEF Results
<1>2. \A w \in W : (\E j \in 1..Len(y) : y[j] = w) \/ (\E q \in Q2 : PrefixOf(q, w))
  BY DEF Results
<1> QED
  BY <1>1, <1>2 DEF Results

LEMMA ResultsWith ==
  ASSUME NEW W, W \subseteq Seq(Nat), NEW p \in Seq(Nat), NEW Q, NEW Q2, With(Q, p, Q2),
         NEW y, Results(W, Q, y), NEW F, F \subseteq Nat,
         \A q \in Q2 : ~ PrefixOf(q, p),
         \A w \in W : PrefixOf(p, w) => w = p \/ \E c \in F : PrefixOf(Append(p, c), w),
         NEW N, Longer(N, p, F, Q2),
         NEW y2, y2 = IF p \in W THEN Append(y, p) ELSE y
  PROVE  Results(W, N, y2)
<1> USE DEF With, Longer
<1>1. N = {Append(p, c) : c \in F} \cup Q2
  OBVIOUS
<1>2. /\ y \in Seq(Seq(Nat)) /\ Len(y) \in Nat
      /\ \A j \in 1..Len(y) : y[j] \in W /\ y[j] \in Seq(Nat)
  <2>1. y \in Seq(Seq(Nat))
    BY DEF Results
  <2>2. \A j \in 1..Len(y) : y[j] \in W
    BY DEF Results
  <2> QED
    BY <2>1, <2>2, LenProperties
<1>3. ASSUME NEW q \in N, NEW j \in 1..Len(y) PROVE ~ PrefixOf(q, y[j])
  <2>1. CASE q \in Q2
    BY <2>1 DEF Results
  <2>2. CASE q \notin Q2
    <3>1. PICK c \in F : q = Append(p, c)
      BY <2>2, <1>1
    <3>2. ~ PrefixOf(p, y[j])
      BY DEF Results
    <3> QED
      BY <3>1, <3>2, <1>2, PrefixesOfAppend
  <2> QED
    BY <2>1, <2>2
<1>4. ASSUME NEW q \in N PROVE ~ PrefixOf(q, p)
  <2>1. ASSUME NEW c \in F PROVE ~ PrefixOf(Append(p, c), p)
    BY PrefixesOfAppend
  <2> QED
    BY <2>1, <1>1
<1>5. ASSUME NEW w \in W
      PROVE  (\E j \in 1..Len(y) : y[j] = w) \/ w = p \/ (\E q \in N : PrefixOf(q, w))
  <2>1. CASE \E j \in 1..Len(y) : y[j] = w
    BY <2>1
  <2>2. CASE \E q \in Q : PrefixOf(q, w)
    <3>1. PICK q \in Q : PrefixOf(q, w)
      BY <2>2
    <3>2. CASE q \in Q2
      BY <3>1, <3>2, <1>1
    <3>3. CASE q \notin Q2
      <4>1. PrefixOf(p, w)
        BY <3>1, <3>3
      <4>2. w = p \/ \E c \in F : PrefixOf(Append(p, c), w)
        BY <4>1
      <4> QED
        BY <4>2, <1>1
    <3> QED
      BY <3>2, <3>3
  <2> QED
    BY <2>1, <2>2 DEF Results
<1>6. CASE p \in W
  <2>1. /\ y2 \in Seq(Seq(Nat)) /\ Len(y2) = Len(y) + 1 /\ y2[Len(y) + 1] = p
        /\ \A j \in 1..Len(y) : y2[j] = y[j]
    BY <1>2, <1>6, AppendProperties
  <2>2. \A j \in 1..Len(y2) : j \in 1..Len(y) \/ j = Len(y) + 1
    BY <2>1, <1>2
  <2>3. ASSUME NEW j \in 1..Len(y2)
        PROVE  y2[j] \in W /\ \A q \in N : ~ PrefixOf(q, y2[j])
    <3>1. CASE j \in 1..Len(y)
      BY <3>1, <2>1, <1>2, <1>3
    <3>2. CASE j = Len(y) + 1
      BY <3>2, <2>1, <1>4, <1>6
    <3> QED
      BY <3>1, <3>2, <2>2
  <2>4. \A j \in 1..Len(y) : y[j] # p
    <3>1. \A j \in 1..Len(y) : ~ PrefixOf(p, y[j])
      BY DEF Results
    <3>2. PrefixOf(p, p)
      BY PartOf
    <3> QED
      BY <3>1, <3>2
  <2>5. ASSUME NEW j \in 1..Len(y2), NEW k \in 1..Len(y2), y2[j] = y2[k] PROVE j = k
    <3>1. CASE j \in 1..Len(y) /\ k \in 1..Len(y)
      BY <3>1, <2>1, <2>5 DEF Results
    <3>2. CASE j \in 1..Len(y) /\ k = Len(y) + 1
      BY <3>2, <2>1, <2>4, <2>5
    <3>3. CASE j = Len(y) + 1 /\ k \in 1..Len(y)
      BY <3>3, <2>1, <2>4, <2>5
    <3>4. CASE j = Len(y) + 1 /\ k = Len(y) + 1
      BY <3>4
    <3> QED
      BY <2>2, <3>1, <3>2, <3>3, <3>4
  <2>6. ASSUME NEW w \in W
        PROVE  (\E j \in 1..Len(y2) : y2[j] = w) \/ (\E q \in N : PrefixOf(q, w))
    <3>1. \A j \in 1..Len(y) : j \in 1..Len(y2)
      BY <2>1, <1>2
    <3>2. Len(y) + 1 \in 1..Len(y2)
      BY <2>1, <1>2
    <3> QED
      BY <3>1, <3>2, <2>1, <1>5
  <2>7. Results(W, N, y2)
    BY <2>1, <2>3, <2>5, <2>6 DEF Results
  <2> QED
    BY <2>7, <1>1
<1>7. CASE p \notin W
  <2>1. y2 = y
    BY <1>7
  <2>2. \A j, k \in 1..Len(y) : y[j] = y[k] => j = k
    BY DEF Results
  <2>3. \A w \in W : (\E j \in 1..Len(y) : y[j] = w) \/ (\E q \in N : PrefixOf(q, w))
    BY <1>5, <1>7
  <2>4. Results(W, N, y)
    BY <2>2, <2>3, <1>2, <1>3 DEF Results
  <2> QED
    BY <2>1, <2>4, <1>1
<1> QED
  BY <1>6, <1>7

-----------------------------------------------------------------------------
(***************************************************************************)
(* The iterator: its steps                                                 *)
(***************************************************************************)

(***************************************************************************)
(* The words that match, and the test of an item's depth for them.         *)
(***************************************************************************)
LengthFits(mode, pat, n) ==
  /\ mode = "MATCH_EXACT_LENGTH" => n = Len(pat)
  /\ mode = "MATCH_AT_LEAST_PREFIX" => n >= Len(pat)
  /\ mode = "MATCH_AT_MOST_PREFIX" => n <= Len(pat)

Wanted(root, pat, wild, mode) ==
  {w \in root : AgreesWith(pat, wild, w) /\ LengthFits(mode, pat, Len(w))}

Children(x, s) ==
  [k \in 1..Len(s) |-> [node |-> Child(x.node, s[k]), letter |-> s[k], depth |-> x.depth + 1]]

Follow(pat, wild, x) ==
  IF x.depth >= Len(pat) \/ pat[x.depth + 1] \in wild
    THEN Labels(x.node)
    ELSE Labels(x.node) \cap {pat[x.depth + 1]}

(***************************************************************************)
(* The graph the iterator reads is the one the other methods read.         *)
(***************************************************************************)
LEMMA SameGraph ==
  /\ \A n, l : It!Child(n, l) = Child(n, l)
  /\ \A n : It!Labels(n) = Labels(n) /\ It!Marker(n) = Marker(n)
  /\ \A L : It!EdgeOrder(L) = EdgeOrder(L)
  /\ \A W : It!LongestWord(W) = LongestWord(W)
  /\ \A s : It!Reverse(s) = Reverse(s) /\ It!ToSet(s) = ToSet(s)
<1>1. \A n, l : It!Child(n, l) = Child(n, l)
  BY DEF It!Child, Child
<1>2. \A n : It!Labels(n) = Labels(n)
  BY DEF It!Labels, Labels
<1>3. \A n : It!Marker(n) = Marker(n)
  BY DEF It!Marker, Marker
<1>4. \A L : It!EdgeOrder(L) = EdgeOrder(L)
  <2>1. \A L : It!Cardinality(L) = Cardinality(L)
    BY DEF It!Cardinality, Cardinality
  <2> QED
    BY <2>1 DEF It!EdgeOrder, EdgeOrder
<1>5. \A W : It!LongestWord(W) = LongestWord(W)
  BY DEF It!LongestWord, LongestWord, It!Max, Max
<1>6. \A s : It!Reverse(s) = Reverse(s)
  BY DEF It!Reverse, Reverse
<1>7. \A s : It!ToSet(s) = ToSet(s)
  BY DEF It!ToSet, ToSet
<1> QED
  BY <1>1, <1>2, <1>3, <1>4, <1>5, <1>6, <1>7

LEMMA VisitIs ==
  ASSUME matchtype \in It!Modes, It!Visit, NEW x, x = Head(stack)
  PROVE  /\ stack # <<>> /\ x.node # {} /\ words' = words
         /\ pattern' = pattern /\ wildcard' = wildcard /\ matchtype' = matchtype
         /\ stopped' = stopped
         /\ stack' = Children(x, Reverse(EdgeOrder(Follow(pattern, wildcard, x)))) \o Tail(stack)
         /\ buffer' = Written(x, buffer)
         /\ yielded' = IF LengthFits(matchtype, pattern, x.depth) /\ Marker(x.node)
                         THEN Append(yielded, [k \in 1..x.depth |-> Written(x, buffer)[k]])
                         ELSE yielded
<1>1. /\ stack # <<>> /\ x.node # {} /\ words' = words
      /\ pattern' = pattern /\ wildcard' = wildcard /\ matchtype' = matchtype
      /\ stopped' = stopped
      /\ stack' = It!Pushed \o Tail(stack)
      /\ buffer' = It!Buffered
      /\ yielded' = IF It!Output
                      THEN Append(yielded, [k \in 1..x.depth |-> It!Buffered[k]])
                      ELSE yielded
  BY DEF It!Visit, It!Item, It!Rest
<1>2. It!Followed = Follow(pattern, wildcard, x)
  BY SameGraph DEF It!Followed, It!AnyLetter, It!Item, Follow
<1>3. It!Pushed = Children(x, Reverse(EdgeOrder(Follow(pattern, wildcard, x))))
  BY <1>2, SameGraph DEF It!Pushed, It!Item, Children
<1>4. It!Buffered = Written(x, buffer)
  BY DEF It!Buffered, It!Item, Written
<1>5. It!Output = (LengthFits(matchtype, pattern, x.depth) /\ Marker(x.node))
  <2>1. It!Marker(x.node) = Marker(x.node)
    BY SameGraph
  <2>2. CASE matchtype = "MATCH_EXACT_LENGTH"
    BY <2>1, <2>2 DEF It!Output, It!Item, LengthFits
  <2>3. CASE matchtype = "MATCH_AT_MOST_PREFIX"
    BY <2>1, <2>3 DEF It!Output, It!Item, LengthFits
  <2>4. CASE matchtype = "MATCH_AT_LEAST_PREFIX"
    BY <2>1, <2>4 DEF It!Output, It!Item, LengthFits
  <2> QED
    BY <2>2, <2>3, <2>4 DEF It!Modes
<1> QED
  BY <1>1, <1>3, <1>4, <1>5

LEMMA SkipIs ==
  ASSUME It!Skip, NEW x, x = Head(stack)
  PROVE  /\ stack # <<>> /\ x.node # {}
         /\ matchtype # "MATCH_AT_LEAST_PREFIX" /\ x.depth > Len(pattern)
         /\ stack' = Tail(stack)
         /\ words' = words /\ pattern' = pattern /\ wildcard' = wildcard
         /\ matchtype' = matchtype /\ buffer' = buffer /\ yielded' = yielded
         /\ stopped' = stopped
BY DEF It!Skip, It!Item, It!Rest, It!TooDeep

LEMMA StopIs ==
  ASSUME It!Stop, NEW x, x = Head(stack)
  PROVE  /\ stack = <<>> \/ (stack # <<>> /\ x.node = {})
         /\ stack' = IF stack = <<>> THEN <<>> ELSE Tail(stack)
         /\ words' = words /\ pattern' = pattern /\ wildcard' = wildcard
         /\ matchtype' = matchtype /\ buffer' = buffer /\ yielded' = yielded
         /\ stopped' = TRUE
BY DEF It!Stop, It!Item, It!Rest

LEMMA MatchingIs ==
  It!Matching = Wanted(words, pattern, wildcard, matchtype)
BY DEF It!Matching, It!Agrees, Wanted, AgreesWith, LengthFits

(***************************************************************************)
(* What the item on top is asked: its children that agree are pushed, the  *)
(* last first, and its word is returned when it matches.                   *)
(***************************************************************************)
LEMMA PushedForAll ==
  ASSUME NEW root, root \subseteq Seq(Nat), IsFiniteSet(root),
         NEW x \in Items(root), NEW p \in Seq(Nat), x.node = Behind(root, p), Len(p) = x.depth,
         NEW F, F \subseteq Labels(x.node)
  PROVE  ArePushed(root, x, F, Children(x, Reverse(EdgeOrder(F))))
<1>1. Labels(x.node) \subseteq Nat /\ IsFiniteSet(Labels(x.node))
  BY BehindTyped, BehindFinite, LabelsAreLetters
<1>2. F \subseteq Nat /\ IsFiniteSet(F)
  BY <1>1, FS_Subset
<1>3. PICK e : e = EdgeOrder(F)
  OBVIOUS
<1>4. PICK n \in Nat : n = Cardinality(F)
  BY <1>2, EdgesInOrder
<1>5. /\ e \in Seq(F) /\ Len(e) = n
      /\ \A k \in 1..n : e[k] \in F
      /\ \A c \in F : \E k \in 1..n : e[k] = c
      /\ \A j, k \in 1..n : j < k => e[j] < e[k]
  <2>1. OrderOf(e, n, F)
    BY <1>2, <1>3, <1>4, EdgesAreOrder
  <2> QED
    BY <2>1 DEF OrderOf
<1>6. PICK s : s = Reverse(e)
  OBVIOUS
<1>7. s = [k \in 1..n |-> e[(n - k) + 1]]
  BY <1>5, <1>6 DEF Reverse
<1>8. ASSUME NEW k \in 1..n PROVE (n - k) + 1 \in 1..n /\ s[k] = e[(n - k) + 1] /\ s[k] \in F
  <2>1. (n - k) + 1 \in 1..n
    BY <1>4
  <2> QED
    BY <2>1, <1>5, <1>7
<1>9. Len(s) = n
  BY <1>7
<1>10. PICK t : t = Children(x, s)
  OBVIOUS
<1>11. t = [k \in 1..n |-> [node |-> Child(x.node, s[k]), letter |-> s[k], depth |-> x.depth + 1]]
  BY <1>9, <1>10 DEF Children
<1>12. ASSUME NEW k \in 1..n
       PROVE  /\ t[k].letter = s[k] /\ t[k].depth = x.depth + 1
              /\ t[k].node = Child(x.node, t[k].letter)
  BY <1>11
<1>13. ASSUME NEW k \in 1..n PROVE t[k] \in Items(root)
  <2>1. PICK c \in F : c = s[k]
    BY <1>8
  <2>2. /\ c \in Nat /\ Append(p, c) \in Seq(Nat)
        /\ Child(x.node, c) = Behind(root, Append(p, c))
        /\ Behind(root, Append(p, c)) # {}
    BY LongerPath
  <2>3. PICK q \in Seq(Nat) : q = Append(p, c) /\ Len(q) = Len(p) + 1
    BY <2>2, AppendProperties
  <2>4. PICK u : u \in Behind(root, q)
    BY <2>2, <2>3
  <2>5. Len(q) \in Nat /\ Len(u) \in Nat /\ LongestWord(root) \in Nat
        /\ Len(q) + Len(u) <= LongestWord(root)
    BY <2>4, PathIsShort
  <2>6. PICK d : d = x.depth + 1
    OBVIOUS
  <2>7. d \in 0..LongestWord(root)
    BY <2>3, <2>5, <2>6
  <2>8. PICK m : m = Child(x.node, c)
    OBVIOUS
  <2>9. m \in SUBSET Seq(Nat)
    BY <2>2, <2>8, BehindTyped
  <2>10. t[k] = [node |-> m, letter |-> c, depth |-> d]
    BY <2>1, <2>6, <2>8, <1>11
  <2> QED
    BY <2>2, <2>7, <2>9, <2>10 DEF Items
<1>14. t \in Seq(Items(root)) /\ Len(t) = n
  <2>1. t \in [1..n -> Items(root)]
    BY <1>11, <1>13
  <2> QED
    BY <2>1
<1>15. ASSUME NEW c \in F PROVE \E k \in 1..n : t[k].letter = c
  <2>1. PICK j \in 1..n : e[j] = c
    BY <1>5
  <2>2. PICK k \in 1..n : (n - k) + 1 = j
    <3>1. (n - j) + 1 \in 1..n /\ (n - ((n - j) + 1)) + 1 = j
      BY <1>4
    <3> QED
      BY <3>1
  <2> QED
    BY <2>1, <2>2, <1>8, <1>12
<1>16. ASSUME NEW j \in 1..n, NEW k \in 1..n, t[j].letter = t[k].letter PROVE j = k
  <2>1. PICK a \in 1..n : a = (n - j) + 1 /\ s[j] = e[a]
    BY <1>8
  <2>2. PICK b \in 1..n : b = (n - k) + 1 /\ s[k] = e[b]
    BY <1>8
  <2>3. e[a] = e[b] /\ e[a] \in Nat /\ e[b] \in Nat
    BY <2>1, <2>2, <1>2, <1>5, <1>12, <1>16
  <2>4. a = b
    <3>1. ~ (a < b) /\ ~ (b < a)
      BY <2>3, <1>5
    <3> QED
      BY <3>1
  <2> QED
    BY <2>1, <2>2, <2>4, <1>4
<1>17. ArePushed(root, x, F, t)
  BY <1>8, <1>12, <1>14, <1>15, <1>16 DEF ArePushed
<1> QED
  BY <1>3, <1>6, <1>10, <1>17

LEMMA FollowedAgree ==
  ASSUME NEW pat \in Seq(Nat), NEW wild, NEW x, NEW p \in Seq(Nat), Len(p) = x.depth,
         AgreesWith(pat, wild, p), NEW c \in Nat, c \in Follow(pat, wild, x)
  PROVE  AgreesWith(pat, wild, Append(p, c))
<1>1. PICK q : q = Append(p, c)
  OBVIOUS
<1>2. /\ q \in Seq(Nat) /\ Len(q) = Len(p) + 1 /\ q[Len(p) + 1] = c
      /\ \A j \in 1..Len(p) : q[j] = p[j]
  BY <1>1, AppendProperties
<1>3. PICK d \in Nat : d = Len(p) /\ d = x.depth
  BY LenProperties
<1>4. Len(pat) \in Nat
  BY LenProperties
<1>5. d >= Len(pat) \/ pat[d + 1] \in wild \/ c = pat[d + 1]
  BY <1>3 DEF Follow
<1>6. ASSUME NEW k \in 1..Len(q), k <= Len(pat)
      PROVE  pat[k] \in wild \/ pat[k] = q[k]
  <2>1. CASE k = d + 1
    <3>1. ~ (d >= Len(pat))
      BY <2>1, <1>3, <1>4, <1>6
    <3> QED
      BY <3>1, <2>1, <1>2, <1>3, <1>5
  <2>2. CASE k # d + 1
    <3>1. k \in 1..Len(p)
      BY <2>2, <1>2, <1>3
    <3> QED
      BY <3>1, <1>2, <1>6 DEF AgreesWith
  <2> QED
    BY <2>1, <2>2
<1> QED
  BY <1>1, <1>6 DEF AgreesWith

LEMMA FollowedEnough ==
  ASSUME NEW root, root \subseteq Seq(Nat), NEW pat \in Seq(Nat), NEW wild,
         NEW x, NEW p \in Seq(Nat), x.node = Behind(root, p), Len(p) = x.depth,
         NEW w \in root, AgreesWith(pat, wild, w), PrefixOf(p, w), p # w
  PROVE  \E c \in Follow(pat, wild, x) : PrefixOf(Append(p, c), w)
<1>1. PICK c \in Nat : PrefixOf(Append(p, c), w)
  BY PartOf
<1>2. PICK q : q = Append(p, c)
  OBVIOUS
<1>3. q \in Seq(Nat) /\ Len(q) = Len(p) + 1 /\ q[Len(p) + 1] = c
  BY <1>2, AppendProperties
<1>4. c \in Labels(x.node)
  <2>1. Behind(root, Append(p, c)) # {}
    BY <1>1 DEF Behind
  <2> QED
    BY <2>1, ShorterPath
<1>5. PICK d \in Nat : d = Len(p) /\ d = x.depth
  BY LenProperties
<1>6. d + 1 \in 1..Len(w) /\ w[d + 1] = c
  <2>1. /\ Len(w) \in Nat /\ Len(q) <= Len(w)
        /\ \A j \in 1..Len(q) : q[j] = w[j]
    BY <1>1, <1>2, <1>3, PrefixIs
  <2>2. d + 1 \in 1..Len(q) /\ d + 1 \in 1..Len(w)
    BY <2>1, <1>3, <1>5
  <2> QED
    BY <2>1, <2>2, <1>3, <1>5
<1>7. d >= Len(pat) \/ pat[d + 1] \in wild \/ pat[d + 1] = c
  <2>1. ASSUME ~ (d >= Len(pat)) PROVE pat[d + 1] \in wild \/ pat[d + 1] = c
    <3>1. d + 1 <= Len(pat)
      <4>1. Len(pat) \in Nat
        BY LenProperties
      <4> QED
        BY <4>1, <2>1, <1>5
    <3> QED
      BY <3>1, <1>6 DEF AgreesWith
  <2> QED
    BY <2>1
<1>8. c \in Follow(pat, wild, x)
  BY <1>4, <1>5, <1>7 DEF Follow
<1> QED
  BY <1>1, <1>8

(***************************************************************************)
(* The invariant of the iterator.                                          *)
(***************************************************************************)
Iterating ==
  /\ pattern \in Seq(Nat) /\ matchtype \in It!Modes
  /\ buffer \in Buffers(words)
  /\ Stacked(words, pattern, wildcard, stack, buffer)
  /\ Results(Wanted(words, pattern, wildcard, matchtype), Paths(stack, buffer), yielded)
  /\ stopped => stack = <<>> \/ words = {}

LEMMA InitIterates ==
  ASSUME SetOfWords, It!Init
  PROVE  Iterating
<1> USE DEF SetOfWords
<1>1. PICK n \in Nat : n = LongestWord(words)
  BY LongestIs
<1>2. /\ pattern \in Seq(Nat) /\ matchtype \in It!Modes
      /\ buffer = [k \in 0..n |-> 0] /\ yielded = <<>> /\ stopped = FALSE
      /\ stack = <<[node |-> words, letter |-> 0, depth |-> 0]>>
  BY <1>1, PatternAssumption, SameGraph DEF It!Init, It!BufferIndices, It!Modes
<1>3. PICK x : x = [node |-> words, letter |-> 0, depth |-> 0]
  OBVIOUS
<1>4. x \in Items(words)
  <2>1. 0 \in 0..LongestWord(words)
    BY <1>1
  <2> QED
    BY <2>1, <1>3 DEF Items
<1>5. buffer \in Buffers(words)
  BY <1>1, <1>2 DEF Buffers
<1>6. PICK e \in Seq(Nat) : e = <<>> /\ Len(e) = 0 /\ Behind(words, e) = words
  BY EmptySeq, BehindNothing
<1>7. ReadAt(x, buffer) = e
  <2>1. ReadAt(x, buffer) \in Seq(Nat) /\ Len(ReadAt(x, buffer)) = 0
    BY <1>1, <1>3, <1>4, <1>5, ReadAtTyped
  <2> QED
    BY <2>1, <1>6, EmptySeq
<1>8. stack \in Seq(Items(words)) /\ Len(stack) = 1 /\ stack[1] = x
  BY <1>2, <1>3, <1>4
<1>9. Waiting(words, pattern, wildcard, x, buffer)
  BY <1>3, <1>6, <1>7 DEF Waiting, AgreesWith
<1>10. \A k \in 1..Len(stack) : k = 1
  BY <1>8
<1>11. Stacked(words, pattern, wildcard, stack, buffer)
  BY <1>8, <1>9, <1>10 DEF Stacked
<1>12. Paths(stack, buffer) = {e}
  BY <1>7, <1>8, <1>10 DEF Paths
<1>13. PICK W : W = Wanted(words, pattern, wildcard, matchtype)
  OBVIOUS
<1>14. \A w \in W : PrefixOf(e, w)
  <2>1. W \subseteq Seq(Nat)
    BY <1>13 DEF Wanted
  <2>2. ASSUME NEW v \in Seq(Nat) PROVE PrefixOf(e, v)
    <3>1. /\ Len(v) \in Nat
          /\ PrefixOf(e, v) <=> Len(e) <= Len(v) /\ \A j \in 1..Len(e) : e[j] = v[j]
      BY PrefixIs
    <3> QED
      BY <3>1, <1>6
  <2> QED
    BY <2>1, <2>2
<1>15. Results(W, {e}, yielded)
  <2>1. yielded \in Seq(Seq(Nat)) /\ Len(yielded) = 0
    BY <1>2, EmptySeq
  <2> QED
    BY <2>1, <1>14 DEF Results
<1> QED
  BY <1>2, <1>5, <1>11, <1>12, <1>13, <1>15 DEF Iterating

(***************************************************************************)
(* What holds of the item on top.                                          *)
(***************************************************************************)
LEMMA TopItem ==
  ASSUME SetOfWords, Iterating, stack # <<>>, NEW x, x = Head(stack)
  PROVE  /\ LongestWord(words) \in Nat /\ x \in Items(words)
         /\ x.depth \in Nat /\ ReadAt(x, buffer) \in Seq(Nat)
         /\ Len(ReadAt(x, buffer)) = x.depth
         /\ [k \in 1..x.depth |-> Written(x, buffer)[k]] = ReadAt(x, buffer)
         /\ Written(x, buffer) \in Buffers(words)
         /\ Waiting(words, pattern, wildcard, x, buffer)
         /\ Stacked(words, pattern, wildcard, Tail(stack), buffer)
         /\ With(Paths(stack, buffer), ReadAt(x, buffer), Paths(Tail(stack), buffer))
         /\ \A q \in Paths(Tail(stack), buffer) : Apart(ReadAt(x, buffer), q)
<1>1. LongestWord(words) \in Nat
  BY LongestIs DEF SetOfWords
<1>2. PICK rest : rest = Tail(stack)
  OBVIOUS
<1>3. /\ x \in Items(words) /\ Waiting(words, pattern, wildcard, x, buffer)
      /\ \A k \in 1..Len(rest) : Under(x, rest[k], buffer)
      /\ Stacked(words, pattern, wildcard, rest, buffer)
      /\ With(Paths(stack, buffer), ReadAt(x, buffer), Paths(rest, buffer))
  <2>1. buffer \in Buffers(words) /\ Stacked(words, pattern, wildcard, stack, buffer)
    BY DEF Iterating
  <2>2. x \in Items(words) /\ Waiting(words, pattern, wildcard, x, buffer)
    BY <2>1, <1>1, <1>2, TopOfStack, Zenon
  <2>3. \A k \in 1..Len(rest) : Under(x, rest[k], buffer)
    BY <2>1, <1>1, <1>2, TopOfStack, Zenon
  <2>4. Stacked(words, pattern, wildcard, rest, buffer)
    BY <2>1, <1>1, <1>2, TopOfStack, Zenon
  <2>5. With(Paths(stack, buffer), ReadAt(x, buffer), Paths(rest, buffer))
    BY <2>1, <1>1, <1>2, TopOfStack, Zenon
  <2> QED
    BY <2>2, <2>3, <2>4, <2>5
<1>4. \A q \in Paths(rest, buffer) : Apart(ReadAt(x, buffer), q)
  BY <1>3 DEF Paths, Under
<1>5. /\ x.depth \in Nat /\ ReadAt(x, buffer) \in Seq(Nat)
      /\ Len(ReadAt(x, buffer)) = x.depth
      /\ [k \in 1..x.depth |-> Written(x, buffer)[k]] = ReadAt(x, buffer)
      /\ Written(x, buffer) \in Buffers(words)
  BY <1>1, <1>3, ReadAtTyped DEF Iterating
<1> QED
  BY <1>1, <1>2, <1>3, <1>4, <1>5

LEMMA SkipKeeps ==
  ASSUME SetOfWords, Iterating, It!Skip
  PROVE  Iterating'
<1>1. PICK x : x = Head(stack)
  OBVIOUS
<1>2. /\ stack # <<>> /\ x.node # {}
      /\ matchtype # "MATCH_AT_LEAST_PREFIX" /\ x.depth > Len(pattern)
      /\ stack' = Tail(stack)
      /\ words' = words /\ pattern' = pattern /\ wildcard' = wildcard
      /\ matchtype' = matchtype /\ buffer' = buffer /\ yielded' = yielded
      /\ stopped' = stopped
  BY <1>1, SkipIs
<1>3. PICK p \in Seq(Nat) : p = ReadAt(x, buffer) /\ Len(p) = x.depth /\ x.depth \in Nat
  BY <1>1, <1>2, TopItem
<1>4. /\ Stacked(words, pattern, wildcard, Tail(stack), buffer)
      /\ With(Paths(stack, buffer), p, Paths(Tail(stack), buffer))
      /\ x.node = Behind(words, p)
  BY <1>1, <1>2, <1>3, TopItem DEF Waiting
<1>5. PICK W : W = Wanted(words, pattern, wildcard, matchtype)
  OBVIOUS
<1>6. ASSUME NEW w \in W PROVE ~ PrefixOf(p, w)
  <2>1. w \in Seq(Nat) /\ Len(w) \in Nat /\ LengthFits(matchtype, pattern, Len(w))
    BY <1>5, LenProperties DEF Wanted, SetOfWords
  <2>2. Len(w) <= Len(pattern) /\ Len(pattern) \in Nat
    <3>1. Len(pattern) \in Nat
      BY LenProperties DEF Iterating
    <3>2. matchtype = "MATCH_EXACT_LENGTH" \/ matchtype = "MATCH_AT_MOST_PREFIX"
      BY <1>2 DEF Iterating, It!Modes
    <3> QED
      BY <3>1, <3>2, <2>1 DEF LengthFits
  <2>3. PrefixOf(p, w) => Len(p) <= Len(w)
    BY <2>1, PrefixIs
  <2> QED
    BY <2>1, <2>2, <2>3, <1>2, <1>3
<1>7. Results(W, Paths(Tail(stack), buffer), yielded)
  <2>1. Results(W, Paths(stack, buffer), yielded)
    BY <1>5 DEF Iterating
  <2> QED
    BY <2>1, <1>4, <1>6, ResultsWithout
<1>8. stopped' => words' = {}
  <2>1. words = {} \/ words # {}
    OBVIOUS
  <2>2. ~ (stopped /\ words # {})
    BY <1>2 DEF Iterating
  <2> QED
    BY <2>2, <1>2
<1> QED
  BY <1>2, <1>4, <1>5, <1>7, <1>8 DEF Iterating

LEMMA StopKeeps ==
  ASSUME SetOfWords, Iterating, It!Stop
  PROVE  Iterating'
<1>1. PICK x : x = Head(stack)
  OBVIOUS
<1>2. /\ stack = <<>> \/ (stack # <<>> /\ x.node = {})
      /\ stack' = IF stack = <<>> THEN <<>> ELSE Tail(stack)
      /\ words' = words /\ pattern' = pattern /\ wildcard' = wildcard
      /\ matchtype' = matchtype /\ buffer' = buffer /\ yielded' = yielded
      /\ stopped' = TRUE
  BY <1>1, StopIs
<1>3. CASE stack = <<>>
  <2>1. stack' = stack
    BY <1>2, <1>3
  <2> QED
    BY <2>1, <1>2, <1>3 DEF Iterating
<1>4. CASE stack # <<>>
  <2>1. PICK p : p = ReadAt(x, buffer)
    OBVIOUS
  <2>2. /\ Stacked(words, pattern, wildcard, Tail(stack), buffer)
        /\ With(Paths(stack, buffer), p, Paths(Tail(stack), buffer))
        /\ x.node = {} => words = {}
    BY <1>1, <1>4, <2>1, TopItem DEF Waiting
  <2>3. words = {} /\ stack' = Tail(stack)
    BY <2>2, <1>2, <1>4
  <2>4. PICK W : W = Wanted(words, pattern, wildcard, matchtype)
    OBVIOUS
  <2>5. W = {}
    BY <2>3, <2>4 DEF Wanted
  <2>6. Results(W, Paths(Tail(stack), buffer), yielded)
    <3>1. Results(W, Paths(stack, buffer), yielded)
      BY <2>4 DEF Iterating
    <3> QED
      BY <3>1, <2>2, <2>5, ResultsWithout
  <2> QED
    BY <2>2, <2>3, <2>4, <2>6, <1>2 DEF Iterating
<1> QED
  BY <1>3, <1>4

LEMMA VisitKeeps ==
  ASSUME SetOfWords, Iterating, It!Visit
  PROVE  Iterating'
<1>1. PICK x : x = Head(stack)
  OBVIOUS
<1>2. PICK F : F = Follow(pattern, wildcard, x)
  OBVIOUS
<1>3. PICK t : t = Children(x, Reverse(EdgeOrder(F)))
  OBVIOUS
<1>4. PICK fits \in BOOLEAN : fits = LengthFits(matchtype, pattern, x.depth)
  BY DEF LengthFits
<1>5. /\ stack # <<>> /\ x.node # {} /\ words' = words
      /\ pattern' = pattern /\ wildcard' = wildcard /\ matchtype' = matchtype
      /\ stopped' = stopped
      /\ stack' = t \o Tail(stack)
      /\ buffer' = Written(x, buffer)
      /\ yielded' = IF fits /\ Marker(x.node)
                      THEN Append(yielded, [k \in 1..x.depth |-> Written(x, buffer)[k]])
                      ELSE yielded
  BY <1>1, <1>2, <1>3, <1>4, VisitIs DEF Iterating
<1>6. PICK p \in Seq(Nat) : p = ReadAt(x, buffer) /\ Len(p) = x.depth /\ x.depth \in Nat
  BY <1>1, <1>5, TopItem
<1>7. /\ LongestWord(words) \in Nat /\ x \in Items(words)
      /\ [k \in 1..x.depth |-> Written(x, buffer)[k]] = p
      /\ Written(x, buffer) \in Buffers(words)
      /\ x.node = Behind(words, p) /\ AgreesWith(pattern, wildcard, p)
      /\ With(Paths(stack, buffer), p, Paths(Tail(stack), buffer))
      /\ \A q \in Paths(Tail(stack), buffer) : Apart(p, q)
  BY <1>1, <1>5, <1>6, TopItem DEF Waiting
<1>8. words \subseteq Seq(Nat) /\ IsFiniteSet(words) /\ pattern \in Seq(Nat)
  BY DEF SetOfWords, Iterating
<1>9. F \subseteq Labels(x.node)
  BY <1>2 DEF Follow
<1>10. F \subseteq Nat
  BY <1>7, <1>8, <1>9, <1>6, LongerPath
<1>11. ArePushed(words, x, F, t)
  BY <1>3, <1>6, <1>7, <1>8, <1>9, PushedForAll
<1>12. \A c \in F : AgreesWith(pattern, wildcard, Append(p, c))
  BY <1>2, <1>6, <1>7, <1>8, <1>10, FollowedAgree
<1>13. /\ Stacked(words, pattern, wildcard, stack', buffer')
       /\ Longer(Paths(stack', buffer'), p, F, Paths(Tail(stack), buffer))
  <2>1. Stacked(words, pattern, wildcard, stack, buffer) /\ buffer \in Buffers(words)
    BY DEF Iterating
  <2>2. \A c \in F : AgreesWith(pattern, wildcard, Append(ReadAt(x, buffer), c))
    BY <1>6, <1>12
  <2>3. /\ Stacked(words, pattern, wildcard, t \o Tail(stack), Written(x, buffer))
        /\ Longer(Paths(t \o Tail(stack), Written(x, buffer)),
                  ReadAt(x, buffer), F, Paths(Tail(stack), buffer))
    <3>1. /\ stack # <<>> /\ words \subseteq Seq(Nat) /\ LongestWord(words) \in Nat
          /\ F \subseteq Labels(x.node) /\ ArePushed(words, x, F, t)
      BY <1>5, <1>7, <1>8, <1>9, <1>11
    <3>2. Stacked(words, pattern, wildcard, t \o Tail(stack), Written(x, buffer))
      BY <3>1, <2>1, <2>2, <1>1, VisitedStack, Zenon
    <3>3. Longer(Paths(t \o Tail(stack), Written(x, buffer)),
                 ReadAt(x, buffer), F, Paths(Tail(stack), buffer))
      BY <3>1, <2>1, <2>2, <1>1, VisitedStack, Zenon
    <3> QED
      BY <3>2, <3>3
  <2> QED
    BY <2>3, <1>5, <1>6
<1>14. PICK W : W = Wanted(words, pattern, wildcard, matchtype)
  OBVIOUS
<1>15. W \subseteq Seq(Nat)
  BY <1>8, <1>14 DEF Wanted
<1>16. p \in W <=> fits /\ Marker(x.node)
  <2>1. Marker(x.node) <=> p \in words
    BY <1>7, <1>8, MarkerBehind
  <2>2. fits <=> LengthFits(matchtype, pattern, Len(p))
    BY <1>4, <1>6
  <2>3. p \in W <=> p \in words /\ AgreesWith(pattern, wildcard, p)
                    /\ LengthFits(matchtype, pattern, Len(p))
    BY <1>14 DEF Wanted
  <2> QED
    BY <2>1, <2>2, <2>3, <1>7
<1>17. yielded' = IF p \in W THEN Append(yielded, p) ELSE yielded
  BY <1>5, <1>7, <1>16
<1>18. ASSUME NEW w \in W, PrefixOf(p, w)
       PROVE  w = p \/ \E c \in F : PrefixOf(Append(p, c), w)
  <2>1. w \in words /\ AgreesWith(pattern, wildcard, w)
    BY <1>14 DEF Wanted
  <2> QED
    BY <2>1, <1>2, <1>6, <1>7, <1>8, <1>18, FollowedEnough
<1>19. Results(W, Paths(stack', buffer'), yielded')
  <2>1. Results(W, Paths(stack, buffer), yielded)
    BY <1>14 DEF Iterating
  <2>2. \A q \in Paths(Tail(stack), buffer) : ~ PrefixOf(q, p)
    BY <1>7 DEF Apart
  <2>3. PICK Q, Q2, N : /\ Q = Paths(stack, buffer) /\ Q2 = Paths(Tail(stack), buffer)
                       /\ N = Paths(stack', buffer')
    OBVIOUS
  <2>4. With(Q, p, Q2) /\ Longer(N, p, F, Q2)
    BY <2>3, <1>7, <1>13
  <2>5. Results(W, N, yielded')
    BY <2>1, <2>2, <2>3, <2>4, <1>10, <1>15, <1>17, <1>18, ResultsWith
  <2> QED
    BY <2>3, <2>5
<1>20. ~ (stopped /\ words # {})
  BY <1>5 DEF Iterating
<1>21. Results(Wanted(words', pattern', wildcard', matchtype'), Paths(stack', buffer'), yielded')
  BY <1>5, <1>14, <1>19
<1>22. Stacked(words', pattern', wildcard', stack', buffer') /\ buffer' \in Buffers(words')
  BY <1>5, <1>7, <1>13
<1>23. stopped' => words' = {}
  BY <1>5, <1>20
<1>24. pattern' \in Seq(Nat) /\ matchtype' \in It!Modes
  BY <1>5 DEF Iterating
<1> QED
  BY <1>21, <1>22, <1>23, <1>24 DEF Iterating

(***************************************************************************)
(* A client asks or iterates; the one that asks leaves the iterator alone. *)
(***************************************************************************)
IteratesInv == SetOfWords /\ (client = "iterates" => Iterating)

LEMMA StepKeepsIterating ==
  ASSUME IteratesInv, ReadersNext \/ UNCHANGED readers
  PROVE  IteratesInv'
<1>1. SetOfWords'
  BY StepKeepsSet DEF IteratesInv
<1>2. client' = client
  BY Zenon DEF ReadersNext, Asks, Iterates, readers
<1>3. ASSUME client = "iterates" PROVE Iterating'
  <2>1. SetOfWords /\ Iterating
    BY <1>3 DEF IteratesInv
  <2>2. ASSUME UNCHANGED <<words, iterator>> PROVE Iterating'
    <3>1. /\ words' = words /\ pattern' = pattern /\ wildcard' = wildcard
          /\ matchtype' = matchtype /\ stack' = stack /\ buffer' = buffer
          /\ yielded' = yielded /\ stopped' = stopped
      BY <2>2 DEF iterator
    <3> QED
      BY <2>1, <3>1 DEF Iterating
  <2>3. ASSUME It!Next PROVE Iterating'
    <3>1. ASSUME It!AskAgain PROVE Iterating'
      <4>1. UNCHANGED <<words, iterator>>
        BY <3>1 DEF It!AskAgain, It!vars, iterator
      <4> QED
        BY <4>1, <2>2
    <3> QED
      BY <2>1, <2>3, <3>1, SkipKeeps, StopKeeps, VisitKeeps, Zenon DEF It!Next
  <2>4. It!Next \/ UNCHANGED readers
    <3>1. client # "asks"
      BY <1>3
    <3> QED
      BY <3>1, Zenon DEF ReadersNext, Asks, Iterates
  <2>5. ASSUME UNCHANGED readers PROVE UNCHANGED <<words, iterator>>
    BY <2>5 DEF readers, vars
  <2> QED
    BY <2>2, <2>3, <2>4, <2>5
<1> QED
  BY <1>1, <1>2, <1>3 DEF IteratesInv

LEMMA IteratesRight ==
  ASSUME IteratesInv
  PROVE  YieldsMatching
<1> SUFFICES ASSUME client = "iterates" PROVE It!InBuffer /\ It!YieldsMatching
  BY DEF YieldsMatching
<1>1. SetOfWords /\ Iterating
  BY DEF IteratesInv
<1>2. It!InBuffer
  <2>1. stack \in Seq(Items(words)) /\ buffer \in Buffers(words)
    BY <1>1 DEF Iterating, Stacked
  <2>2. \A k \in 1..Len(stack) : stack[k] \in Items(words)
    BY <2>1, ElementOfSeq
  <2> QED
    BY <2>1, <2>2 DEF It!InBuffer, Items, Buffers
<1>3. PICK W : W = Wanted(words, pattern, wildcard, matchtype) /\ W = It!Matching
  BY MatchingIs
<1>4. Results(W, Paths(stack, buffer), yielded)
  BY <1>1, <1>3 DEF Iterating
<1>5. yielded \in Seq(Seq(Nat)) /\ DOMAIN yielded = 1..Len(yielded)
  BY <1>4, LenProperties DEF Results
<1>6. It!ToSet(yielded) = {yielded[j] : j \in 1..Len(yielded)}
  BY <1>5 DEF It!ToSet
<1>7. It!ToSet(yielded) \subseteq W
  BY <1>4, <1>6 DEF Results
<1>8. \A j, k \in 1..Len(yielded) : yielded[j] = yielded[k] => j = k
  BY <1>4 DEF Results
<1>9. ASSUME stopped PROVE It!ToSet(yielded) = W
  <2>1. CASE words = {}
    <3>1. W = {}
      BY <2>1, <1>3 DEF Wanted
    <3> QED
      BY <3>1, <1>7
  <2>2. CASE words # {}
    <3>1. stack = <<>>
      BY <2>2, <1>1, <1>9 DEF Iterating
    <3>2. Paths(stack, buffer) = {}
      <4>1. Len(stack) = 0
        BY <3>1
      <4> QED
        BY <4>1 DEF Paths
    <3>3. \A w \in W : \E j \in 1..Len(yielded) : yielded[j] = w
      BY <3>2, <1>4 DEF Results
    <3> QED
      BY <3>3, <1>6, <1>7
  <2> QED
    BY <2>1, <2>2
<1> QED
  BY <1>2, <1>3, <1>7, <1>8, <1>9 DEF It!YieldsMatching

(***************************************************************************)
(* The iterators of find_all: what is returned matches, each word once,    *)
(* and when __next__ raises StopIteration every word that matches has been *)
(* returned, although the items share one buffer; none of them writes      *)
(* behind its end.                                                         *)
(***************************************************************************)
THEOREM AlwaysYieldsMatching == ReadersSpec => []YieldsMatching
<1>1. ReadersInit => IteratesInv
  BY InitSet, InitIterates DEF IteratesInv, ReadersInit
<1>2. IteratesInv /\ [ReadersNext]_readers => IteratesInv'
  BY StepKeepsIterating
<1>3. IteratesInv => YieldsMatching
  BY IteratesRight
<1> QED
  BY <1>1, <1>2, <1>3, PTL DEF ReadersSpec
=============================================================================
