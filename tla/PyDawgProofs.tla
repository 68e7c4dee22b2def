---------------------------- MODULE PyDawgProofs ----------------------------
(***************************************************************************)
(* The Python implementation, for every alphabet, every set of words and   *)
(* any number of objects, wherever they are put: its graph holds the words *)
(* that were added, and the nodes of the register, and all nodes after     *)
(* freeze, accept different words; and its numbers are ranks.              *)
(***************************************************************************)
EXTENDS PyDawg, WordsProofs

-----------------------------------------------------------------------------
(***************************************************************************)
(* Runs                                                                    *)
(***************************************************************************)

(***************************************************************************)
(* The equations of a run: the recursive definition denotes a function,    *)
(* built letter by letter.                                                 *)
(***************************************************************************)
IsRun(h, g, root, w, m) ==
  /\ h = [k \in 0..m |-> h[k]]
  /\ \A k \in 0..m : h[k] = IF k = 0 THEN root ELSE GetChild(g, h[k - 1], w[k])

LEMMA RunExists ==
  ASSUME NEW g, NEW root, NEW w, NEW m \in Nat
  PROVE  \E h : IsRun(h, g, root, w, m)
<1> DEFINE Bad == {n \in Nat : ~ \E h : IsRun(h, g, root, w, n)}
<1> SUFFICES ASSUME Bad # {} PROVE FALSE
  OBVIOUS
<1>1. PICK n \in Bad : \A y \in Bad : n <= y
  BY LeastNatural
<1>2. CASE n = 0
  <2>1. IsRun([k \in 0..0 |-> root], g, root, w, 0)
    BY DEF IsRun
  <2> QED
    BY <2>1, <1>2
<1>3. CASE n # 0
  <2>1. n - 1 \in Nat /\ n - 1 \notin Bad
    BY <1>1, <1>3
  <2>2. PICK h : IsRun(h, g, root, w, n - 1)
    BY <2>1
  <2> DEFINE e == [k \in 0..n |-> IF k = n THEN GetChild(g, h[n - 1], w[n]) ELSE h[k]]
  <2>3. ASSUME NEW k \in 0..n
        PROVE  e[k] = IF k = 0 THEN root ELSE GetChild(g, e[k - 1], w[k])
    <3>1. CASE k = n
      BY <3>1, <1>3
    <3>2. CASE k # n
      <4>1. k \in 0..(n - 1) /\ k - 1 # n
        BY <3>2
      <4>2. k # 0 => e[k - 1] = h[k - 1]
        BY <4>1
      <4> QED
        BY <2>2, <4>1, <4>2, <3>2 DEF IsRun
    <3> QED
      BY <3>1, <3>2
  <2>4. IsRun(e, g, root, w, n)
    BY <2>3 DEF IsRun
  <2> QED
    BY <2>4
<1> QED
  BY <1>2, <1>3

LEMMA RunEquations ==
  ASSUME NEW g, NEW root, NEW w, Len(w) \in Nat
  PROVE  IsRun(Run(g, root, w), g, root, w, Len(w))
<1> DEFINE R(h) == h = [k \in 0..Len(w) |->
                         IF k = 0 THEN root ELSE GetChild(g, h[k - 1], w[k])]
<1>1. \E h : R(h)
  <2>1. PICK h : IsRun(h, g, root, w, Len(w))
    BY RunExists
  <2>2. R(h)
    BY <2>1 DEF IsRun
  <2> QED
    BY <2>2
<1>2. R(CHOOSE h : R(h))
  BY <1>1
<1>3. Run(g, root, w) = CHOOSE h : R(h)
  BY DEF Run
<1>4. R(Run(g, root, w))
  BY <1>2, <1>3
<1> QED
  BY <1>4 DEF IsRun

LEMMA RunStep ==
  ASSUME NEW g, NEW root, NEW w, Len(w) \in Nat
  PROVE  /\ Run(g, root, w)[0] = root
         /\ \A k \in 1..Len(w) :
              Run(g, root, w)[k] = GetChild(g, Run(g, root, w)[k - 1], w[k])
<1> IsRun(Run(g, root, w), g, root, w, Len(w))
  BY RunEquations
<1>1. Run(g, root, w)[0] = root
  BY DEF IsRun
<1>2. ASSUME NEW k \in 1..Len(w)
      PROVE  Run(g, root, w)[k] = GetChild(g, Run(g, root, w)[k - 1], w[k])
  <2>1. k \in 0..Len(w) /\ k # 0
    OBVIOUS
  <2> QED
    BY <2>1 DEF IsRun
<1> QED
  BY <1>1, <1>2

(***************************************************************************)
(* A sequence of nodes that starts at the root and follows the letters of  *)
(* w is the run of w, as far as it goes.                                   *)
(***************************************************************************)
Follows(h, g, root, w, m) ==
  /\ m \in 0..Len(w)
  /\ h[0] = root
  /\ \A k \in 1..m : h[k] = GetChild(g, h[k - 1], w[k])

LEMMA RunUnique ==
  ASSUME NEW g, NEW root, NEW w, NEW m, NEW h, Len(w) \in Nat,
         Follows(h, g, root, w, m)
  PROVE  \A k \in 0..m : Run(g, root, w)[k] = h[k]
<1> USE DEF Follows
<1> DEFINE r == Run(g, root, w)
           Bad == {k \in 0..m : r[k] # h[k]}
<1> HIDE DEF r
<1>r. /\ r[0] = root
      /\ \A k \in 1..Len(w) : r[k] = GetChild(g, r[k - 1], w[k])
  BY RunStep DEF r
<1> SUFFICES ASSUME Bad # {} PROVE FALSE
  BY DEF r
<1>1. PICK k \in Bad : \A y \in Bad : k <= y
  <2> Bad \subseteq Nat
    OBVIOUS
  <2> QED
    BY LeastNatural
<1>2. k # 0
  BY <1>r, <1>1
<1>3. k - 1 \in 0..m /\ k - 1 \notin Bad /\ k \in 1..m /\ k \in 1..Len(w)
  BY <1>1, <1>2
<1>4. r[k] = h[k]
  BY <1>3, <1>r
<1> QED
  BY <1>4, <1>1

-----------------------------------------------------------------------------
(***************************************************************************)
(* What is read from a node                                                *)
(***************************************************************************)

(***************************************************************************)
(* The words read from a node of any graph, and a word with one letter     *)
(* more in front.                                                          *)
(***************************************************************************)
Read(g, f, n) == {u \in Seq(Letter) : Accepts(g, f, n, u)}

More(l, u) == <<l>> \o u

IsMore(w, l, u) ==
  /\ w \in Seq(Letter) /\ Len(u) \in Nat /\ Len(w) = Len(u) + 1 /\ w[1] = l
  /\ \A k \in 1..Len(u) : w[k + 1] = u[k]

LEMMA MoreFacts ==
  ASSUME NEW l \in Letter, NEW u \in Seq(Letter)
  PROVE  IsMore(More(l, u), l, u)
<1>0. PICK w : w = More(l, u)
  OBVIOUS
<1>1. PICK v : v = <<l>>
  OBVIOUS
<1>2. v \in Seq(Letter) /\ Len(v) = 1 /\ v[1] = l /\ w = v \o u
  BY <1>0, <1>1 DEF More
<1>3. PICK n \in Nat : n = Len(u)
  BY LenProperties
<1>4. /\ w \in Seq(Letter) /\ Len(w) = 1 + n
      /\ \A k \in 1..(1 + n) : w[k] = IF k <= 1 THEN v[k] ELSE u[k - 1]
  <2>1. /\ w \in Seq(Letter) /\ Len(w) = Len(v) + Len(u)
        /\ \A k \in 1..(Len(v) + Len(u)) : w[k] = IF k <= Len(v) THEN v[k] ELSE u[k - Len(v)]
    BY <1>2, ConcatProperties
  <2> QED
    BY <2>1, <1>2, <1>3
<1>5. ASSUME NEW k \in 1..n PROVE w[k + 1] = u[k]
  <2>1. k + 1 \in 1..(1 + n) /\ ~ (k + 1 <= 1) /\ (k + 1) - 1 = k
    OBVIOUS
  <2> QED
    BY <2>1, <1>4
<1>6. w[1] = l
  <2>1. 1 \in 1..(1 + n)
    OBVIOUS
  <2> QED
    BY <2>1, <1>2, <1>4
<1>7. IsMore(w, l, u)
  BY <1>3, <1>4, <1>5, <1>6 DEF IsMore
<1> QED
  BY <1>0, <1>7

(***************************************************************************)
(* Every word but the empty one is such a word, in one way.                *)
(***************************************************************************)
LEMMA MoreOfWord ==
  ASSUME NEW w \in Seq(Letter), w # <<>>
  PROVE  \E l \in Letter, u \in Seq(Letter) : w = More(l, u)
<1>1. PICK n \in Nat : n = Len(w) /\ n # 0
  BY LenProperties, EmptySeq
<1>2. \A k \in 1..n : w[k] \in Letter
  BY <1>1, ElementOfSeq
<1>3. PICK l \in Letter : l = w[1]
  BY <1>1, <1>2
<1>4. PICK u : u = [k \in 1..(n - 1) |-> w[k + 1]]
  OBVIOUS
<1>5. u \in Seq(Letter) /\ Len(u) = n - 1 /\ \A k \in 1..(n - 1) : u[k] = w[k + 1]
  <2>1. n - 1 \in Nat /\ \A k \in 1..(n - 1) : k + 1 \in 1..n
    BY <1>1
  <2>2. u \in [1..(n - 1) -> Letter]
    BY <2>1, <1>2, <1>4
  <2> QED
    BY <2>1, <2>2, <1>4
<1>6. PICK v : v = More(l, u)
  OBVIOUS
<1>7. /\ v \in Seq(Letter) /\ Len(v) = (n - 1) + 1 /\ v[1] = l
      /\ \A k \in 1..(n - 1) : v[k + 1] = u[k]
  <2>1. IsMore(v, l, u)
    BY <1>5, <1>6, MoreFacts
  <2> QED
    BY <2>1, <1>5 DEF IsMore
<1>8. Len(v) = n
  BY <1>7
<1>9. ASSUME NEW k \in 1..Len(w) PROVE v[k] = w[k]
  <2>1. CASE k = 1
    BY <2>1, <1>3, <1>7
  <2>2. CASE k # 1
    <3>1. PICK j \in 1..(n - 1) : j + 1 = k
      <4>1. k - 1 \in 1..(n - 1) /\ (k - 1) + 1 = k
        BY <2>2, <1>1
      <4> QED
        BY <4>1
    <3> QED
      BY <3>1, <1>5, <1>7
  <2> QED
    BY <2>1, <2>2
<1>10. v = w
  BY <1>1, <1>7, <1>8, <1>9, SeqEqual
<1> QED
  BY <1>5, <1>6, <1>10

LEMMA MoreInjective ==
  ASSUME NEW l \in Letter, NEW u \in Seq(Letter), NEW m \in Letter, NEW v \in Seq(Letter),
         More(l, u) = More(m, v)
  PROVE  l = m /\ u = v
<1>1. PICK w : w = More(l, u)
  OBVIOUS
<1>2. /\ Len(u) \in Nat /\ Len(w) = Len(u) + 1 /\ w[1] = l
      /\ \A k \in 1..Len(u) : w[k + 1] = u[k]
  <2>1. IsMore(w, l, u)
    BY <1>1, MoreFacts
  <2> QED
    BY <2>1 DEF IsMore
<1>3. /\ Len(v) \in Nat /\ Len(w) = Len(v) + 1 /\ w[1] = m
      /\ \A k \in 1..Len(v) : w[k + 1] = v[k]
  <2>1. IsMore(w, m, v)
    BY <1>1, MoreFacts
  <2> QED
    BY <2>1 DEF IsMore
<1>4. Len(u) = Len(v)
  BY <1>2, <1>3
<1>5. \A k \in 1..Len(u) : u[k] = v[k]
  BY <1>2, <1>3, <1>4
<1> QED
  BY <1>2, <1>3, <1>4, <1>5, SeqEqual

LEMMA MoreNotEmpty ==
  ASSUME NEW l \in Letter, NEW u \in Seq(Letter)
  PROVE  More(l, u) # <<>>
<1>1. PICK w : w = More(l, u)
  OBVIOUS
<1>2. Len(w) = Len(u) + 1 /\ Len(u) \in Nat
  BY <1>1, MoreFacts DEF IsMore
<1> QED
  BY <1>1, <1>2

(***************************************************************************)
(* Reading letter by letter.                                               *)
(***************************************************************************)
LEMMA ReadNothing ==
  ASSUME NEW g, NEW f, NEW n, n # NULL, f[n] \in BOOLEAN
  PROVE  <<>> \in Read(g, f, n) <=> f[n]
<1>1. <<>> \in Seq(Letter) /\ Len(<<>>) = 0
  OBVIOUS
<1>2. Target(g, n, <<>>) = n
  BY <1>1, RunStep DEF Target
<1> QED
  BY <1>1, <1>2 DEF Read, Accepts

LEMMA RunMore ==
  ASSUME NEW g, NEW n, NEW l \in Letter, NEW u \in Seq(Letter)
  PROVE  Target(g, n, More(l, u)) = Target(g, GetChild(g, n, l), u)
<1>1. PICK w : w = More(l, u)
  OBVIOUS
<1>2. PICK m \in Nat : m = Len(u)
  BY LenProperties
<1>3. /\ Len(w) = m + 1 /\ w[1] = l /\ \A k \in 1..m : w[k + 1] = u[k]
  <2>1. IsMore(w, l, u)
    BY <1>1, MoreFacts
  <2> QED
    BY <2>1, <1>2 DEF IsMore
<1>4. PICK r : r = Run(g, n, w)
  OBVIOUS
<1>5. /\ r[0] = n /\ \A k \in 1..(m + 1) : r[k] = GetChild(g, r[k - 1], w[k])
  BY <1>3, <1>4, RunStep
<1>6. PICK h : h = [k \in 0..m |-> r[k + 1]]
  OBVIOUS
<1>7. h[0] = GetChild(g, n, l)
  <2>1. 0 \in 0..m /\ 0 + 1 = 1 /\ 1 \in 1..(m + 1) /\ 1 - 1 = 0
    OBVIOUS
  <2> QED
    BY <2>1, <1>3, <1>5, <1>6
<1>8. ASSUME NEW k \in 1..m PROVE h[k] = GetChild(g, h[k - 1], u[k])
  <2>1. /\ k \in 0..m /\ k - 1 \in 0..m /\ k + 1 \in 1..(m + 1)
        /\ (k - 1) + 1 = k /\ (k + 1) - 1 = k
    OBVIOUS
  <2>2. h[k] = r[k + 1] /\ h[k - 1] = r[k]
    BY <2>1, <1>6
  <2> QED
    BY <2>1, <2>2, <1>3, <1>5
<1>9. Follows(h, g, GetChild(g, n, l), u, m)
  BY <1>2, <1>7, <1>8 DEF Follows
<1>10. Run(g, GetChild(g, n, l), u)[m] = h[m]
  BY <1>2, <1>9, RunUnique
<1>11. h[m] = r[m + 1]
  BY <1>6
<1> QED
  BY <1>1, <1>2, <1>3, <1>4, <1>10, <1>11 DEF Target

LEMMA ReadMore ==
  ASSUME NEW g, NEW f, NEW n, n # NULL, NEW l \in Letter, NEW u \in Seq(Letter)
  PROVE  More(l, u) \in Read(g, f, n) <=> u \in Read(g, f, g[n][l])
<1>1. More(l, u) \in Seq(Letter)
  BY MoreFacts DEF IsMore
<1>2. Target(g, n, More(l, u)) = Target(g, g[n][l], u)
  BY RunMore DEF GetChild
<1> QED
  BY <1>1, <1>2 DEF Read, Accepts

LEMMA ReadNull ==
  ASSUME NEW g, NEW f
  PROVE  Read(g, f, NULL) = {}
<1> SUFFICES ASSUME NEW w \in Seq(Letter) PROVE Target(g, NULL, w) = NULL
  BY DEF Read, Accepts
<1>1. PICK m \in Nat : m = Len(w)
  BY LenProperties
<1>2. PICK h : h = [k \in 0..m |-> NULL]
  OBVIOUS
<1>3. Follows(h, g, NULL, w, m)
  BY <1>1, <1>2 DEF Follows, GetChild
<1>4. Run(g, NULL, w)[m] = h[m]
  BY <1>1, <1>3, RunUnique
<1> QED
  BY <1>1, <1>2, <1>4 DEF Target

(***************************************************************************)
(* Words are read alike from related nodes of two graphs, when these have  *)
(* the same flag and related children.                                     *)
(***************************************************************************)
Alike(R, g, f, g2, f2) ==
  \A x, y : <<x, y>> \in R =>
    \/ x = NULL /\ y = NULL
    \/ /\ x # NULL /\ y # NULL /\ f[x] \in BOOLEAN /\ f2[y] = f[x]
       /\ \A l \in Letter : <<g[x][l], g2[y][l]>> \in R

LEMMA ReadAlike ==
  ASSUME NEW R, NEW g, NEW f, NEW g2, NEW f2, Alike(R, g, f, g2, f2),
         NEW x, NEW y, <<x, y>> \in R
  PROVE  Read(g, f, x) = Read(g2, f2, y)
<1> DEFINE Differ(w, a, b) == <<a, b>> \in R /\ ~ (w \in Read(g, f, a) <=> w \in Read(g2, f2, b))
           Bad == {m \in Nat : \E w \in Seq(Letter) : Len(w) = m /\ \E a, b : Differ(w, a, b)}
<1>1. Bad # {} => FALSE
  <2> SUFFICES ASSUME Bad # {} PROVE FALSE
    OBVIOUS
  <2>1. PICK m \in Bad : \A k \in Bad : m <= k
    <3>1. Bad \subseteq Nat
      OBVIOUS
    <3> HIDE DEF Bad
    <3> QED
      BY <3>1, LeastNatural
  <2>2. PICK w \in Seq(Letter) : Len(w) = m /\ \E a, b : Differ(w, a, b)
    BY <2>1
  <2>3. PICK a, b : Differ(w, a, b)
    BY <2>2
  <2>4. a # NULL /\ b # NULL
    BY <2>3, ReadNull DEF Alike
  <2>5. f[a] \in BOOLEAN /\ f2[b] = f[a] /\ \A l \in Letter : <<g[a][l], g2[b][l]>> \in R
    BY <2>3, <2>4 DEF Alike
  <2>6. w # <<>>
    <3>1. <<>> \in Read(g, f, a) <=> f[a]
      BY <2>4, <2>5, ReadNothing
    <3>2. <<>> \in Read(g2, f2, b) <=> f2[b]
      BY <2>4, <2>5, ReadNothing
    <3> QED
      BY <3>1, <3>2, <2>3, <2>5
  <2>7. PICK l \in Letter, u \in Seq(Letter) : w = More(l, u)
    BY <2>6, MoreOfWord
  <2>8. Differ(u, g[a][l], g2[b][l])
    <3>1. w \in Read(g, f, a) <=> u \in Read(g, f, g[a][l])
      BY <2>4, <2>7, ReadMore
    <3>2. w \in Read(g2, f2, b) <=> u \in Read(g2, f2, g2[b][l])
      BY <2>4, <2>7, ReadMore
    <3> QED
      BY <3>1, <3>2, <2>3, <2>5
  <2>9. Len(u) \in Nat /\ Len(w) = Len(u) + 1
    BY <2>7, MoreFacts DEF IsMore
  <2>10. Len(u) \in Bad
    <3> HIDE DEF Differ
    <3> QED
      BY <2>8, <2>9
  <2> HIDE DEF Bad
  <2> QED
    BY <2>1, <2>2, <2>9, <2>10
<1>2. ASSUME NEW w \in Seq(Letter) PROVE w \in Read(g, f, x) <=> w \in Read(g2, f2, y)
  <2> SUFFICES ASSUME Differ(w, x, y) PROVE FALSE
    OBVIOUS
  <2>1. Len(w) \in Nat
    BY LenProperties
  <2>2. Len(w) \in Bad
    <3> HIDE DEF Differ
    <3> QED
      BY <2>1
  <2> QED
    BY <2>2, <1>1
<1>3. Read(g, f, x) \subseteq Seq(Letter) /\ Read(g2, f2, y) \subseteq Seq(Letter)
  BY DEF Read
<1> QED
  BY <1>2, <1>3

(***************************************************************************)
(* Two nodes that accept the same words have the same flag, and children   *)
(* that accept the same words; and the other way round.                    *)
(***************************************************************************)
SameParts(g, f, n, g2, f2, m) ==
  f2[m] = f[n] /\ \A l \in Letter : Read(g2, f2, g2[m][l]) = Read(g, f, g[n][l])

LEMMA ReadParts ==
  ASSUME NEW g, NEW f, NEW n, n # NULL, f[n] \in BOOLEAN,
         NEW g2, NEW f2, NEW m, m # NULL, f2[m] \in BOOLEAN,
         Read(g2, f2, m) = Read(g, f, n)
  PROVE  SameParts(g, f, n, g2, f2, m)
<1>1. f2[m] = f[n]
  <2>1. <<>> \in Read(g, f, n) <=> f[n]
    BY ReadNothing
  <2>2. <<>> \in Read(g2, f2, m) <=> f2[m]
    BY ReadNothing
  <2> QED
    BY <2>1, <2>2
<1>2. ASSUME NEW l \in Letter PROVE Read(g2, f2, g2[m][l]) = Read(g, f, g[n][l])
  <2>1. ASSUME NEW u \in Seq(Letter)
        PROVE  u \in Read(g2, f2, g2[m][l]) <=> u \in Read(g, f, g[n][l])
    BY ReadMore
  <2>2. /\ Read(g, f, g[n][l]) \subseteq Seq(Letter)
        /\ Read(g2, f2, g2[m][l]) \subseteq Seq(Letter)
    BY DEF Read
  <2> QED
    BY <2>1, <2>2
<1> QED
  BY <1>1, <1>2 DEF SameParts

(***************************************************************************)
(* A word more below one letter is a word more at the node; a flag that is *)
(* set is the word without letters.                                        *)
(***************************************************************************)
HasWordMore(g2, f2, m, g, f, n, c, v) ==
  /\ n # NULL /\ f[n] \in BOOLEAN /\ m # NULL /\ f2[m] = f[n]
  /\ c \in Letter /\ v \in Seq(Letter)
  /\ Read(g2, f2, g2[m][c]) = Read(g, f, g[n][c]) \cup {v}
  /\ \A l \in Letter \ {c} : Read(g2, f2, g2[m][l]) = Read(g, f, g[n][l])

LEMMA WordMore ==
  ASSUME NEW g, NEW f, NEW n, NEW g2, NEW f2, NEW m, NEW c, NEW v,
         HasWordMore(g2, f2, m, g, f, n, c, v)
  PROVE  Read(g2, f2, m) = Read(g, f, n) \cup {More(c, v)}
<1> USE DEF HasWordMore
<1>1. ASSUME NEW w \in Seq(Letter)
      PROVE  w \in Read(g2, f2, m) <=> (w \in Read(g, f, n) \/ w = More(c, v))
  <2>1. CASE w = <<>>
    <3>1. <<>> \in Read(g, f, n) <=> f[n]
      BY ReadNothing
    <3>2. <<>> \in Read(g2, f2, m) <=> f2[m]
      BY ReadNothing
    <3>3. More(c, v) # <<>>
      BY MoreNotEmpty
    <3> QED
      BY <2>1, <3>1, <3>2, <3>3
  <2>2. CASE w # <<>>
    <3>1. PICK l \in Letter, u \in Seq(Letter) : w = More(l, u)
      BY <2>2, MoreOfWord
    <3>2. w \in Read(g, f, n) <=> u \in Read(g, f, g[n][l])
      BY <3>1, ReadMore
    <3>3. w \in Read(g2, f2, m) <=> u \in Read(g2, f2, g2[m][l])
      BY <3>1, ReadMore
    <3>4. w = More(c, v) <=> l = c /\ u = v
      BY <3>1, MoreInjective
    <3>5. u \in Read(g2, f2, g2[m][l]) <=> (u \in Read(g, f, g[n][l]) \/ (l = c /\ u = v))
      <4>1. CASE l = c
        BY <4>1
      <4>2. CASE l # c
        BY <4>2
      <4> QED
        BY <4>1, <4>2
    <3> QED
      BY <3>2, <3>3, <3>4, <3>5
  <2> QED
    BY <2>1, <2>2
<1>2. Read(g, f, n) \subseteq Seq(Letter) /\ Read(g2, f2, m) \subseteq Seq(Letter)
  BY DEF Read
<1>3. More(c, v) \in Seq(Letter)
  BY MoreFacts DEF IsMore
<1> QED
  BY <1>1, <1>2, <1>3

HasFlagMore(g2, f2, m, g, f, n) ==
  /\ n # NULL /\ m # NULL /\ f2[m] = TRUE
  /\ \A l \in Letter : Read(g2, f2, g2[m][l]) = Read(g, f, g[n][l])

LEMMA FlagMore ==
  ASSUME NEW g, NEW f, NEW n, NEW g2, NEW f2, NEW m, HasFlagMore(g2, f2, m, g, f, n)
  PROVE  Read(g2, f2, m) = Read(g, f, n) \cup {<<>>}
<1> USE DEF HasFlagMore
<1>1. ASSUME NEW w \in Seq(Letter)
      PROVE  w \in Read(g2, f2, m) <=> (w \in Read(g, f, n) \/ w = <<>>)
  <2>1. CASE w = <<>>
    BY <2>1, ReadNothing
  <2>2. CASE w # <<>>
    <3>1. PICK l \in Letter, u \in Seq(Letter) : w = More(l, u)
      BY <2>2, MoreOfWord
    <3>2. w \in Read(g, f, n) <=> u \in Read(g, f, g[n][l])
      BY <3>1, ReadMore
    <3>3. w \in Read(g2, f2, m) <=> u \in Read(g2, f2, g2[m][l])
      BY <3>1, ReadMore
    <3> QED
      BY <2>2, <3>2, <3>3
  <2> QED
    BY <2>1, <2>2
<1>2. Read(g, f, n) \subseteq Seq(Letter) /\ Read(g2, f2, m) \subseteq Seq(Letter)
  BY DEF Read
<1>3. <<>> \in Seq(Letter)
  OBVIOUS
<1> QED
  BY <1>1, <1>2, <1>3

-----------------------------------------------------------------------------
(***************************************************************************)
(* The objects in use                                                      *)
(***************************************************************************)

(***************************************************************************)
(* One round of collecting what is behind some objects.                    *)
(***************************************************************************)
Wider(g, B) == B \cup ({g[n][l] : n \in B, l \in Letter} \ {NULL})

AreRounds(h, g, S, m) ==
  /\ h = [k \in 0..m |-> h[k]]
  /\ \A k \in 0..m : h[k] = IF k = 0 THEN S ELSE Wider(g, h[k - 1])

LEMMA RoundsExist ==
  ASSUME NEW g, NEW S, NEW m \in Nat
  PROVE  \E h : AreRounds(h, g, S, m)
<1> DEFINE Bad == {n \in Nat : ~ \E h : AreRounds(h, g, S, n)}
<1> SUFFICES ASSUME Bad # {} PROVE FALSE
  OBVIOUS
<1>1. PICK n \in Bad : \A y \in Bad : n <= y
  BY LeastNatural
<1>2. CASE n = 0
  <2>1. AreRounds([k \in 0..0 |-> S], g, S, 0)
    BY DEF AreRounds
  <2> QED
    BY <2>1, <1>2
<1>3. CASE n # 0
  <2>1. n - 1 \in Nat /\ n - 1 \notin Bad
    BY <1>1, <1>3
  <2>2. PICK h : AreRounds(h, g, S, n - 1)
    BY <2>1
  <2> DEFINE e == [k \in 0..n |-> IF k = n THEN Wider(g, h[n - 1]) ELSE h[k]]
  <2>3. ASSUME NEW k \in 0..n
        PROVE  e[k] = IF k = 0 THEN S ELSE Wider(g, e[k - 1])
    <3>1. CASE k = n
      BY <3>1, <1>3
    <3>2. CASE k # n
      <4>1. k \in 0..(n - 1) /\ k - 1 # n
        BY <3>2
      <4>2. k # 0 => e[k - 1] = h[k - 1]
        BY <4>1
      <4> QED
        BY <2>2, <4>1, <4>2, <3>2 DEF AreRounds
    <3> QED
      BY <3>1, <3>2
  <2>4. AreRounds(e, g, S, n)
    BY <2>3 DEF AreRounds
  <2> QED
    BY <2>4
<1> QED
  BY <1>2, <1>3

LEMMA BehindIs ==
  ASSUME NEW g, NEW S, NEW N \in Nat, N = Cardinality(Node)
  PROVE  \E h : AreRounds(h, g, S, N) /\ Behind(g, S) = h[N]
<1> DEFINE R(h) == h = [k \in 0..N |-> IF k = 0 THEN S ELSE Wider(g, h[k - 1])]
<1>1. \E h : R(h)
  <2>1. PICK h : AreRounds(h, g, S, N)
    BY RoundsExist
  <2>2. R(h)
    BY <2>1 DEF AreRounds
  <2> QED
    BY <2>2
<1>2. PICK c : c = CHOOSE h : R(h)
  OBVIOUS
<1>3. R(c)
  BY <1>1, <1>2
<1>4. Behind(g, S) = c[N]
  BY <1>2 DEF Behind, Wider
<1>5. AreRounds(c, g, S, N)
  BY <1>3 DEF AreRounds
<1> QED
  BY <1>4, <1>5

(***************************************************************************)
(* Nothing more than the least set with S that no edge leads out of.       *)
(***************************************************************************)
Closed(g, C) == \A n \in C, l \in Letter : g[n][l] \in C \cup {NULL}

LEMMA BehindLeast ==
  ASSUME NEW g, NEW S, NEW C, S \subseteq C, Closed(g, C)
  PROVE  Behind(g, S) \subseteq C
<1>1. PICK N \in Nat : N = Cardinality(Node)
  BY NodeAssumption, FS_CardinalityType
<1>2. PICK h : AreRounds(h, g, S, N) /\ Behind(g, S) = h[N]
  BY <1>1, BehindIs
<1> DEFINE Bad == {k \in 0..N : ~ (h[k] \subseteq C)}
<1>3. Bad = {}
  <2> SUFFICES ASSUME Bad # {} PROVE FALSE
    OBVIOUS
  <2>1. PICK k \in Bad : \A j \in Bad : k <= j
    <3>1. Bad \subseteq Nat
      OBVIOUS
    <3> HIDE DEF Bad
    <3> QED
      BY <3>1, LeastNatural
  <2>2. k # 0
    BY <2>1, <1>2 DEF AreRounds
  <2>3. k - 1 \in 0..N /\ k - 1 \notin Bad
    BY <2>1, <2>2
  <2>4. h[k] = Wider(g, h[k - 1]) /\ h[k - 1] \subseteq C
    BY <2>1, <2>2, <2>3, <1>2 DEF AreRounds
  <2>5. h[k] \subseteq C
    BY <2>4 DEF Wider, Closed
  <2> QED
    BY <2>1, <2>5
<1> QED
  BY <1>1, <1>2, <1>3

(***************************************************************************)
(* And no edge leads out of it: each round that does not come to an end    *)
(* has an object more, and there are not more than rounds.                 *)
(***************************************************************************)
LEMMA BehindClosed ==
  ASSUME NEW g, NEW S, S \subseteq Node, S # {},
         \A n \in Node, l \in Letter : g[n][l] \in Node \cup {NULL}
  PROVE  /\ S \subseteq Behind(g, S) /\ Behind(g, S) \subseteq Node
         /\ Closed(g, Behind(g, S))
<1>1. PICK N \in Nat : N = Cardinality(Node)
  BY NodeAssumption, FS_CardinalityType
<1>2. PICK h : AreRounds(h, g, S, N) /\ Behind(g, S) = h[N]
  BY <1>1, BehindIs
<1> DEFINE Good(k) == /\ S \subseteq h[k] /\ h[k] \subseteq Node
                      /\ Wider(g, h[k]) = h[k] \/ k + 1 <= Cardinality(h[k])
           Bad == {k \in 0..N : ~ Good(k)}
<1>3. ASSUME NEW T, T \subseteq Node
      PROVE  IsFiniteSet(T) /\ Cardinality(T) \in Nat /\ Cardinality(T) <= N
  <2>1. IsFiniteSet(Node)
    BY NodeAssumption
  <2>2. IsFiniteSet(T) /\ Cardinality(T) <= Cardinality(Node)
    BY <2>1, <1>3, FS_Subset
  <2> QED
    BY <2>2, <1>1, FS_CardinalityType
<1>4. Good(0)
  <2>1. h[0] = S
    <3>1. 0 \in 0..N
      OBVIOUS
    <3> QED
      BY <3>1, <1>2 DEF AreRounds
  <2>2. Cardinality(S) # 0
    BY <1>3, FS_EmptySet
  <2> QED
    BY <2>1, <2>2, <1>3
<1>5. Bad = {}
  <2> SUFFICES ASSUME Bad # {} PROVE FALSE
    OBVIOUS
  <2>1. PICK k \in Bad : \A j \in Bad : k <= j
    <3>1. Bad \subseteq Nat
      OBVIOUS
    <3> HIDE DEF Bad
    <3> QED
      BY <3>1, LeastNatural
  <2>2. k # 0
    BY <2>1, <1>4
  <2>3. PICK j \in 0..N : j + 1 = k /\ j \notin Bad
    <3>1. k - 1 \in 0..N /\ k - 1 \notin Bad /\ (k - 1) + 1 = k
      BY <2>1, <2>2
    <3> QED
      BY <3>1
  <2>4. h[k] = Wider(g, h[j]) /\ Good(j)
    <3>1. k - 1 = j
      BY <2>3
    <3> QED
      BY <3>1, <2>1, <2>2, <2>3, <1>2 DEF AreRounds
  <2>5. h[j] \subseteq h[k] /\ h[k] \subseteq Node /\ S \subseteq h[k]
    BY <2>4 DEF Wider
  <2>6. CASE Wider(g, h[j]) = h[j]
    BY <2>1, <2>4, <2>5, <2>6
  <2>7. CASE Wider(g, h[j]) # h[j]
    <3>1. j + 1 <= Cardinality(h[j]) /\ h[j] # h[k]
      BY <2>4, <2>7
    <3>2. Cardinality(h[j]) < Cardinality(h[k])
      <4>1. IsFiniteSet(h[k])
        BY <2>5, <1>3
      <4>2. Cardinality(h[j]) <= Cardinality(h[k])
        BY <2>5, <4>1, FS_Subset
      <4>3. Cardinality(h[j]) # Cardinality(h[k])
        BY <2>5, <3>1, <4>1, FS_Subset
      <4> QED
        BY <4>2, <4>3, <2>5, <2>4, <1>3
    <3>3. Cardinality(h[j]) \in Nat /\ Cardinality(h[k]) \in Nat
      BY <2>4, <2>5, <1>3
    <3>4. k + 1 <= Cardinality(h[k])
      BY <3>1, <3>2, <3>3, <2>3
    <3> QED
      BY <2>1, <2>5, <3>4
  <2> QED
    BY <2>6, <2>7
<1>6. Good(N)
  <2>1. N \in 0..N
    OBVIOUS
  <2> QED
    BY <2>1, <1>5
<1>7. Wider(g, h[N]) = h[N]
  <2>1. Cardinality(h[N]) \in Nat /\ Cardinality(h[N]) <= N
    BY <1>6, <1>3
  <2> QED
    BY <2>1, <1>6
<1>8. Closed(g, h[N])
  BY <1>7 DEF Wider, Closed
<1> QED
  BY <1>2, <1>6, <1>8

-----------------------------------------------------------------------------
(***************************************************************************)
(* The invariant                                                           *)
(***************************************************************************)

(***************************************************************************)
(* The graph g with the register reg and the nodes P[0] to P[d] that the   *)
(* first d letters of b lead to.  These are all different and not in the   *)
(* register, whose nodes have children there only; and so have they, but   *)
(* for the edge to the next of them, which is the last one.  No edge goes  *)
(* beyond b in the order of words.                                         *)
(***************************************************************************)
Shape(g, f, reg, b, P, d) ==
  /\ g \in [Node -> [Letter -> Node \cup {NULL}]] /\ f \in [Node -> BOOLEAN]
  /\ reg \subseteq Node
  /\ d \in 0..Len(b) /\ P[0] = q0
  /\ \A j \in 0..d : P[j] \in Node \ reg
  /\ \A j, k \in 0..d : P[j] = P[k] => j = k
  /\ \A r \in reg, l \in Letter : g[r][l] \in reg \cup {NULL}
  /\ \A j \in 0..d, l \in Letter :
       /\ g[P[j]][l] \in reg \cup {NULL} \/ (j < d /\ l = b[j + 1])
       /\ g[P[j]][l] # NULL => j < Len(b) /\ l <= b[j + 1]
       /\ j < d /\ l = b[j + 1] => g[P[j]][l] = P[j + 1]

(***************************************************************************)
(* No two nodes of the register accept the same words; what a node accepts *)
(* is something, and observed.                                             *)
(***************************************************************************)
Meaning(g, f, reg, P, d) ==
  /\ \A p, q \in reg : Read(g, f, p) = Read(g, f, q) => p = q
  /\ \A r \in reg : Read(g, f, r) # {} /\ Read(g, f, r) \subseteq Universe
  /\ \A j \in 0..d : /\ j # 0 => Read(g, f, P[j]) # {}
                     /\ Read(g, f, P[j]) \subseteq Universe

Built(g, f, reg, b, P, d) == Shape(g, f, reg, b, P, d) /\ Meaning(g, f, reg, P, d)

Held(reg, P, d) == reg \cup {P[j] : j \in 0..d}

LastPath == Run(children, q0, wp)

Depth == IF frozen THEN 0 ELSE Len(wp)

(***************************************************************************)
(* Between calls.                                                          *)
(***************************************************************************)
Holding ==
  /\ wp \in Seq(Letter) /\ frozen \in BOOLEAN
  /\ added \subseteq Word /\ IsFiniteSet(added) /\ (wp # <<>> => wp \in added)
  /\ Built(children, final, register, wp, LastPath, Depth)
  /\ Read(children, final, q0) = added
  /\ \A n \in Node \ Used : children[n] = NoEdges /\ final[n] = FALSE

LEMMA HeldClosed ==
  ASSUME NEW g, NEW f, NEW reg, NEW b \in Seq(Letter), NEW P, NEW d, Shape(g, f, reg, b, P, d)
  PROVE  /\ d \in Nat /\ Held(reg, P, d) \subseteq Node /\ q0 \in Held(reg, P, d)
         /\ NULL \notin Held(reg, P, d)
         /\ Closed(g, Held(reg, P, d))
<1>1. d \in Nat /\ 0 \in 0..d
  BY LenProperties DEF Shape
<1>2. Held(reg, P, d) \subseteq Node /\ q0 \in Held(reg, P, d)
  BY <1>1 DEF Shape, Held
<1>3. \A r \in reg, l \in Letter : g[r][l] \in Held(reg, P, d) \cup {NULL}
  BY DEF Shape, Held
<1>4. ASSUME NEW j \in 0..d, NEW l \in Letter PROVE g[P[j]][l] \in Held(reg, P, d) \cup {NULL}
  <2>1. CASE g[P[j]][l] \in reg \cup {NULL}
    BY <2>1 DEF Held
  <2>2. CASE j < d /\ l = b[j + 1]
    <3>1. j + 1 \in 0..d /\ g[P[j]][l] = P[j + 1]
      BY <2>2, <1>1 DEF Shape
    <3> QED
      BY <3>1 DEF Held
  <2> QED
    BY <2>1, <2>2 DEF Shape
<1>5. Closed(g, Held(reg, P, d))
  BY <1>3, <1>4 DEF Closed, Held
<1> QED
  BY <1>1, <1>2, <1>5, NodeAssumption

(***************************************************************************)
(* These nodes are the objects in use.                                     *)
(***************************************************************************)
LEMMA HeldIsUsed ==
  ASSUME NEW g, NEW f, NEW reg, NEW b \in Seq(Letter), NEW P, NEW d, Shape(g, f, reg, b, P, d)
  PROVE  Behind(g, {q0} \cup reg) = Held(reg, P, d)
<1>1. PICK H : H = Held(reg, P, d)
  OBVIOUS
<1>2. PICK B : B = Behind(g, {q0} \cup reg)
  OBVIOUS
<1>3. d \in Nat /\ Closed(g, H) /\ q0 \in H /\ reg \subseteq H
  <2>1. d \in Nat /\ Closed(g, Held(reg, P, d)) /\ q0 \in Held(reg, P, d)
    BY HeldClosed
  <2>2. reg \subseteq Held(reg, P, d)
    BY DEF Held
  <2> QED
    BY <2>1, <2>2, <1>1
<1>4. B \subseteq H
  BY <1>2, <1>3, BehindLeast
<1>5. {q0} \cup reg \subseteq B /\ Closed(g, B)
  <2>1. {q0} \cup reg \subseteq Node /\ {q0} \cup reg # {}
    BY NodeAssumption DEF Shape
  <2>2. \A n \in Node, l \in Letter : g[n][l] \in Node \cup {NULL}
    BY DEF Shape
  <2> QED
    BY <2>1, <2>2, <1>2, BehindClosed
<1> DEFINE Bad == {j \in 0..d : P[j] \notin B}
<1>6. Bad = {}
  <2> SUFFICES ASSUME Bad # {} PROVE FALSE
    OBVIOUS
  <2>1. PICK k \in Bad : \A j \in Bad : k <= j
    <3>1. Bad \subseteq Nat
      BY <1>3
    <3> HIDE DEF Bad
    <3> QED
      BY <3>1, LeastNatural
  <2>2. k # 0
    BY <2>1, <1>5 DEF Shape
  <2>3. PICK j \in 0..d : j + 1 = k /\ j < d /\ j \notin Bad
    <3>1. k - 1 \in 0..d /\ k - 1 \notin Bad /\ (k - 1) + 1 = k /\ k - 1 < d
      BY <2>1, <2>2, <1>3
    <3> QED
      BY <3>1
  <2>4. b[j + 1] \in Letter
    <3>1. j + 1 \in 1..Len(b)
      BY <2>3, LenProperties DEF Shape
    <3> QED
      BY <3>1, ElementOfSeq
  <2>5. g[P[j]][b[j + 1]] = P[k] /\ P[k] \in Node
    BY <2>1, <2>3, <2>4 DEF Shape
  <2>6. P[k] \in B \cup {NULL}
    BY <2>3, <2>4, <2>5, <1>5 DEF Closed
  <2> QED
    BY <2>1, <2>5, <2>6, NodeAssumption
<1>7. H \subseteq B
  BY <1>1, <1>5, <1>6 DEF Held
<1> QED
  BY <1>1, <1>2, <1>4, <1>7

(***************************************************************************)
(* The objects that are not in use do not matter.                          *)
(***************************************************************************)
EqualOn(H, g3, f3, g, f) ==
  /\ g3 \in [Node -> [Letter -> Node \cup {NULL}]] /\ f3 \in [Node -> BOOLEAN]
  /\ \A n \in H : g3[n] = g[n] /\ f3[n] = f[n]

ReadEqually(H, g3, f3, g, f) == \A n \in H : Read(g3, f3, n) = Read(g, f, n)

LEMMA OnlyHeldMatters ==
  ASSUME NEW g, NEW f, NEW reg, NEW b \in Seq(Letter), NEW P, NEW d, Built(g, f, reg, b, P, d),
         NEW g3, NEW f3, EqualOn(Held(reg, P, d), g3, f3, g, f)
  PROVE  Built(g3, f3, reg, b, P, d) /\ ReadEqually(Held(reg, P, d), g3, f3, g, f)
<1> USE DEF EqualOn
<1> DEFINE H == Held(reg, P, d)
<1>1. Shape(g, f, reg, b, P, d)
  BY DEF Built
<1>2. H \subseteq Node /\ NULL \notin H /\ Closed(g, H)
  BY <1>1, HeldClosed
<1>3. PICK R : R = {<<n, n>> : n \in H \cup {NULL}}
  OBVIOUS
<1>4. \A x, y : <<x, y>> \in R <=> x = y /\ x \in H \cup {NULL}
  BY <1>3
<1>5. Alike(R, g, f, g3, f3)
  <2> SUFFICES ASSUME NEW n \in H
               PROVE  /\ n # NULL /\ f[n] \in BOOLEAN /\ f3[n] = f[n]
                      /\ \A l \in Letter : <<g[n][l], g3[n][l]>> \in R
    BY <1>4 DEF Alike
  <2>1. n # NULL /\ f[n] \in BOOLEAN /\ f3[n] = f[n] /\ g3[n] = g[n]
    BY <1>1, <1>2 DEF Shape
  <2>2. \A l \in Letter : g[n][l] \in H \cup {NULL}
    BY <1>2 DEF Closed
  <2> HIDE DEF H
  <2> QED
    BY <2>1, <2>2, <1>4
<1>6. ASSUME NEW n \in H PROVE Read(g3, f3, n) = Read(g, f, n)
  <2>1. <<n, n>> \in R
    BY <1>4
  <2> QED
    BY <2>1, <1>5, ReadAlike
<1>7. reg \subseteq H /\ \A j \in 0..d : P[j] \in H
  BY DEF Held
<1>8. Shape(g3, f3, reg, b, P, d)
  <2> HIDE DEF H
  <2> QED
    BY <1>1, <1>7 DEF Shape, H
<1>9. Meaning(g3, f3, reg, P, d)
  <2> HIDE DEF H
  <2> QED
    BY <1>6, <1>7 DEF Meaning, Built
<1> QED
  BY <1>6, <1>8, <1>9 DEF Built, ReadEqually

-----------------------------------------------------------------------------
(***************************************************************************)
(* Replacing or registering the last node                                  *)
(***************************************************************************)

(***************************************************************************)
(* The deepest node of the path is merged with an equivalent one: that     *)
(* accepts the same words, and so does every node above.                   *)
(***************************************************************************)
IsMerged(g2, g, f, p, c, s, r) ==
  /\ g \in [Node -> [Letter -> Node \cup {NULL}]] /\ f \in [Node -> BOOLEAN]
  /\ p \in Node /\ c \in Letter /\ s \in Node /\ r \in Node /\ p # r /\ p # s
  /\ g[p][c] = s /\ f[s] = f[r] /\ g[s] = g[r]
  /\ g2 = [g EXCEPT ![p][c] = r]

LEMMA MergedReads ==
  ASSUME NEW g2, NEW g, NEW f, NEW p, NEW c, NEW s, NEW r, IsMerged(g2, g, f, p, c, s, r)
  PROVE  \A n \in Node : Read(g2, f, n) = Read(g, f, n)
<1> USE DEF IsMerged
<1>1. PICK R : R = {<<n, n>> : n \in Node \cup {NULL}} \cup {<<s, r>>}
  OBVIOUS
<1>2. \A x, y : <<x, y>> \in R <=> (x = y /\ x \in Node \cup {NULL}) \/ (x = s /\ y = r)
  BY <1>1
<1>3. \A n \in Node, l \in Letter : g2[n][l] = IF n = p /\ l = c THEN r ELSE g[n][l]
  OBVIOUS
<1>4. \A n \in Node, l \in Letter : g[n][l] \in Node \cup {NULL}
  OBVIOUS
<1>5. \A n \in Node, l \in Letter : <<g[n][l], g2[n][l]>> \in R
  BY <1>2, <1>3, <1>4
<1>6. \A l \in Letter : <<g[s][l], g2[r][l]>> \in R
  BY <1>2, <1>3, <1>4
<1>7. Alike(R, g, f, g2, f)
  <2> SUFFICES ASSUME NEW x, NEW y, <<x, y>> \in R
               PROVE  \/ x = NULL /\ y = NULL
                      \/ /\ x # NULL /\ y # NULL /\ f[x] \in BOOLEAN /\ f[y] = f[x]
                         /\ \A l \in Letter : <<g[x][l], g2[y][l]>> \in R
    BY DEF Alike
  <2>1. CASE x = NULL /\ y = NULL
    BY <2>1
  <2>2. CASE x = y /\ x \in Node
    BY <2>2, <1>5, NodeAssumption
  <2>3. CASE x = s /\ y = r
    BY <2>3, <1>6, NodeAssumption
  <2> QED
    BY <2>1, <2>2, <2>3, <1>2
<1>8. ASSUME NEW n \in Node PROVE Read(g2, f, n) = Read(g, f, n)
  <2>1. <<n, n>> \in R
    BY <1>2
  <2> QED
    BY <2>1, <1>7, ReadAlike
<1> QED
  BY <1>8

(***************************************************************************)
(* Nodes that accept the same words are equivalent when all their children *)
(* are in the register: these are equal when they accept the same words.   *)
(***************************************************************************)
LEMMA SameWordsEquivalent ==
  ASSUME NEW g \in [Node -> [Letter -> Node \cup {NULL}]], final \in [Node -> BOOLEAN],
         NEW reg, reg \subseteq Node,
         \A p, q \in reg : Read(g, final, p) = Read(g, final, q) => p = q,
         \A r \in reg : Read(g, final, r) # {},
         NEW s \in Node, NEW r \in Node, Read(g, final, s) = Read(g, final, r),
         \A l \in Letter : g[s][l] \in reg \cup {NULL} /\ g[r][l] \in reg \cup {NULL}
  PROVE  Equivalence(g, s, r)
<1>1. s # NULL /\ r # NULL /\ final[s] \in BOOLEAN /\ final[r] \in BOOLEAN
  BY NodeAssumption
<1>2. SameParts(g, final, r, g, final, s)
  BY <1>1, ReadParts
<1>3. ASSUME NEW l \in Letter PROVE g[s][l] = g[r][l]
  <2>1. Read(g, final, g[s][l]) = Read(g, final, g[r][l])
    BY <1>2 DEF SameParts
  <2>2. Read(g, final, NULL) = {}
    BY ReadNull
  <2> QED
    BY <2>1, <2>2
<1>4. g[s] = g[r]
  BY <1>3
<1> QED
  BY <1>2, <1>4 DEF Equivalence, SameParts

LEMMA ShapeMerged ==
  ASSUME NEW g, NEW f, NEW reg, NEW b \in Seq(Letter), NEW P, NEW d, Shape(g, f, reg, b, P, d),
         NEW e \in Nat, d = e + 1, NEW r \in reg, NEW g2, g2 = [g EXCEPT ![P[e]][b[d]] = r]
  PROVE  Shape(g2, f, reg, b, P, e)
<1> USE DEF Shape
<1>1. /\ e \in 0..d /\ d \in 0..d /\ e < d /\ e \in 0..Len(b) /\ 0..e \subseteq 0..d
      /\ Len(b) \in Nat /\ d \in 1..Len(b)
  BY LenProperties
<1>2. PICK c \in Letter : c = b[d]
  BY <1>1, ElementOfSeq
<1>3. /\ P[e] \in Node \ reg /\ P[d] \in Node \ reg /\ reg \subseteq Node
      /\ g \in [Node -> [Letter -> Node \cup {NULL}]]
  BY <1>1
<1>4. \A n \in Node, l \in Letter : g2[n][l] = IF n = P[e] /\ l = c THEN r ELSE g[n][l]
  BY <1>2, <1>3
<1>5. g2 \in [Node -> [Letter -> Node \cup {NULL}]]
  BY <1>2, <1>3
<1>6. \A x \in reg, l \in Letter : g2[x][l] \in reg \cup {NULL}
  BY <1>3, <1>4
<1>7. ASSUME NEW j \in 0..e, NEW l \in Letter
      PROVE  /\ g2[P[j]][l] \in reg \cup {NULL} \/ (j < e /\ l = b[j + 1])
             /\ g2[P[j]][l] # NULL => j < Len(b) /\ l <= b[j + 1]
             /\ j < e /\ l = b[j + 1] => g2[P[j]][l] = P[j + 1]
  <2>1. /\ j \in 0..d /\ P[j] \in Node
        /\ g[P[j]][l] \in reg \cup {NULL} \/ (j < d /\ l = b[j + 1])
        /\ g[P[j]][l] # NULL => j < Len(b) /\ l <= b[j + 1]
        /\ j < d /\ l = b[j + 1] => g[P[j]][l] = P[j + 1]
    BY <1>1
  <2>2. CASE j = e /\ l = c
    <3>1. g2[P[j]][l] = r /\ j + 1 = d /\ ~ (j < e)
      BY <2>1, <2>2, <1>1, <1>4
    <3>2. g[P[j]][l] # NULL
      BY <2>1, <2>2, <3>1, <1>1, <1>2, <1>3, NodeAssumption
    <3> QED
      BY <3>1, <3>2, <2>1
  <2>3. CASE ~ (j = e /\ l = c)
    <3>1. P[j] = P[e] => j = e
      BY <2>1, <1>1
    <3>2. g2[P[j]][l] = g[P[j]][l]
      BY <3>1, <2>1, <2>3, <1>4
    <3>3. j < d /\ l = b[j + 1] => j < e
      <4>1. j = e \/ j < e
        BY <1>1
      <4>2. CASE j = e
        BY <4>2, <2>3, <1>2
      <4> QED
        BY <4>1, <4>2
    <3>4. j < e => j < d
      BY <1>1
    <3> QED
      BY <3>2, <3>3, <3>4, <2>1
  <2> QED
    BY <2>2, <2>3
<1> QED
  BY <1>1, <1>5, <1>6, <1>7

LEMMA ShapeRegistered ==
  ASSUME NEW g, NEW f, NEW reg, NEW b \in Seq(Letter), NEW P, NEW d, Shape(g, f, reg, b, P, d),
         NEW e \in Nat, d = e + 1, NEW reg2, reg2 = reg \cup {P[d]}
  PROVE  Shape(g, f, reg2, b, P, e)
<1> USE DEF Shape
<1>1. /\ e \in 0..d /\ d \in 0..d /\ e < d /\ e \in 0..Len(b) /\ 0..e \subseteq 0..d
      /\ Len(b) \in Nat /\ ~ (d < d)
  BY LenProperties
<1>2. reg2 \subseteq Node /\ P[d] \in reg2 /\ reg \subseteq reg2
  BY <1>1
<1>3. ASSUME NEW j \in 0..e PROVE P[j] \in Node \ reg2
  BY <1>1
<1>4. \A x \in reg2, l \in Letter : g[x][l] \in reg2 \cup {NULL}
  BY <1>1
<1>5. ASSUME NEW j \in 0..e, NEW l \in Letter
      PROVE  /\ g[P[j]][l] \in reg2 \cup {NULL} \/ (j < e /\ l = b[j + 1])
             /\ g[P[j]][l] # NULL => j < Len(b) /\ l <= b[j + 1]
             /\ j < e /\ l = b[j + 1] => g[P[j]][l] = P[j + 1]
  <2>1. /\ j \in 0..d
        /\ g[P[j]][l] \in reg \cup {NULL} \/ (j < d /\ l = b[j + 1])
        /\ g[P[j]][l] # NULL => j < Len(b) /\ l <= b[j + 1]
        /\ j < d /\ l = b[j + 1] => g[P[j]][l] = P[j + 1]
    BY <1>1
  <2>2. CASE j = e
    <3>1. j + 1 = d /\ j < d /\ ~ (j < e)
      BY <2>2, <1>1
    <3> QED
      BY <3>1, <2>1, <1>2
  <2>3. CASE j < e
    <3>1. j < d
      BY <2>3, <1>1
    <3> QED
      BY <3>1, <2>1, <2>3, <1>2
  <2> QED
    BY <2>2, <2>3
<1> QED
  BY <1>1, <1>2, <1>3, <1>4, <1>5

(***************************************************************************)
(* One item of the stack of _replace_or_register: what it leaves of the    *)
(* graph g is fit for the next one, the path ends a node higher up, and    *)
(* all nodes accept what they did.                                         *)
(***************************************************************************)
Kept(m, g, b, P, d) ==
  /\ m = [children |-> m.children, register |-> m.register]
  /\ Built(m.children, final, m.register, b, P, d)
  /\ \A n \in Node : Read(m.children, final, n) = Read(g, final, n)

LEMMA ReplacedBuilt ==
  ASSUME NEW g, NEW reg, NEW b \in Seq(Letter), NEW P, NEW d, Built(g, final, reg, b, P, d),
         NEW e \in Nat, d = e + 1, NEW m, m = [children |-> g, register |-> reg],
         NEW m2, m2 = Replaced(m, P[e], b[d], P[d])
  PROVE  Kept(m2, g, b, P, e)
<1> USE DEF Kept
<1>1. Shape(g, final, reg, b, P, d) /\ Meaning(g, final, reg, P, d)
  BY DEF Built
<1>2. /\ e \in 0..d /\ d \in 0..d /\ e < d /\ d # 0 /\ 0..e \subseteq 0..d
      /\ Len(b) \in Nat /\ d \in 1..Len(b) /\ e # d
  BY <1>1, LenProperties DEF Shape
<1>3. PICK c \in Letter : c = b[d]
  BY <1>2, ElementOfSeq
<1>4. PICK p \in Node \ reg : p = P[e]
  BY <1>1, <1>2 DEF Shape
<1>5. PICK s \in Node \ reg : s = P[d]
  BY <1>1, <1>2 DEF Shape
<1>6. /\ g \in [Node -> [Letter -> Node \cup {NULL}]] /\ final \in [Node -> BOOLEAN]
      /\ reg \subseteq Node /\ p # s /\ g[p][c] = s
      /\ \A r \in reg, l \in Letter : g[r][l] \in reg \cup {NULL}
  BY <1>1, <1>2, <1>3, <1>4, <1>5 DEF Shape
<1>7. \A l \in Letter : g[s][l] \in reg \cup {NULL}
  <2>1. ~ (d < d)
    BY <1>2
  <2> QED
    BY <2>1, <1>1, <1>2, <1>5 DEF Shape
<1>8. PICK found : found = {r \in reg : Equivalence(g, s, r)}
  OBVIOUS
<1>9. CASE found # {}
  <2>1. PICK r : r = CHOOSE x \in found : TRUE
    OBVIOUS
  <2>2. r \in reg /\ final[s] = final[r] /\ g[s] = g[r]
    <3>1. r \in found
      BY <2>1, <1>9
    <3> QED
      BY <3>1, <1>8 DEF Equivalence
  <2>3. PICK g2 : g2 = [g EXCEPT ![p][c] = r]
    OBVIOUS
  <2>4. m2 = [children |-> g2, register |-> reg]
    <3>1. found = {x \in m.register : Equivalence(m.children, s, x)}
      BY <1>8
    <3>2. m2 = [m EXCEPT !.children[p][c] = r]
      BY <3>1, <1>3, <1>4, <1>5, <1>9, <2>1 DEF Replaced
    <3> QED
      BY <3>2, <2>3
  <2>5. Shape(g2, final, reg, b, P, e)
    BY <2>2, <2>3, <1>1, <1>3, <1>4, ShapeMerged
  <2>6. \A n \in Node : Read(g2, final, n) = Read(g, final, n)
    <3>1. p \in Node /\ s \in Node /\ r \in Node /\ p # r /\ p # s
      BY <2>2, <1>6
    <3>2. IsMerged(g2, g, final, p, c, s, r)
      BY <3>1, <2>2, <2>3, <1>6 DEF IsMerged
    <3> QED
      BY <3>2, MergedReads
  <2>7. \A j \in 0..e : P[j] \in Node
    BY <2>5 DEF Shape
  <2>8. Meaning(g2, final, reg, P, e)
    BY <2>6, <2>7, <1>1, <1>2, <1>6 DEF Meaning
  <2> QED
    BY <2>4, <2>5, <2>6, <2>8 DEF Built
<1>10. CASE found = {}
  <2>1. PICK reg2 : reg2 = reg \cup {s}
    OBVIOUS
  <2>2. m2 = [children |-> g, register |-> reg2]
    <3>1. {x \in m.register : Equivalence(m.children, s, x)} = {}
      BY <1>8, <1>10
    <3>2. m2 = [m EXCEPT !.register = Registered(m, s)]
      BY <3>1, <1>5 DEF Replaced
    <3> QED
      BY <3>2, <2>1 DEF Registered
  <2>3. Shape(g, final, reg2, b, P, e)
    BY <2>1, <1>1, <1>5, ShapeRegistered
  <2>4. ASSUME NEW r \in reg, Read(g, final, s) = Read(g, final, r) PROVE FALSE
    <3>1. r \in Node /\ \A l \in Letter : g[s][l] \in reg \cup {NULL} /\ g[r][l] \in reg \cup {NULL}
      BY <1>6, <1>7
    <3>2. /\ \A x, y \in reg : Read(g, final, x) = Read(g, final, y) => x = y
          /\ \A x \in reg : Read(g, final, x) # {}
      BY <1>1 DEF Meaning
    <3>3. Equivalence(g, s, r)
      BY <3>1, <3>2, <2>4, <1>6, SameWordsEquivalent
    <3> QED
      BY <3>3, <1>8, <1>10
  <2>5. Read(g, final, s) # {} /\ Read(g, final, s) \subseteq Universe
    BY <1>1, <1>2, <1>5 DEF Meaning
  <2>6. Meaning(g, final, reg2, P, e)
    BY <2>1, <2>4, <2>5, <1>1, <1>2 DEF Meaning
  <2> QED
    BY <2>2, <2>3, <2>6 DEF Built
<1> QED
  BY <1>9, <1>10

-----------------------------------------------------------------------------
(***************************************************************************)
(* _replace_or_register                                                    *)
(***************************************************************************)

(***************************************************************************)
(* The equations of its loop.                                              *)
(***************************************************************************)
Popped(m, path, suffix, k) ==
  Replaced(m, path[Len(suffix) - k], suffix[(Len(suffix) - k) + 1],
           path[(Len(suffix) - k) + 1])

ArePopped(h, path, suffix, m) ==
  /\ h = [k \in 0..m |-> h[k]]
  /\ \A k \in 0..m : h[k] = IF k = 0 THEN [children |-> children, register |-> register]
                            ELSE Popped(h[k - 1], path, suffix, k)

LEMMA PoppedExist ==
  ASSUME NEW path, NEW suffix, NEW m \in Nat
  PROVE  \E h : ArePopped(h, path, suffix, m)
<1> DEFINE Bad == {n \in Nat : ~ \E h : ArePopped(h, path, suffix, n)}
<1> SUFFICES ASSUME Bad # {} PROVE FALSE
  OBVIOUS
<1>1. PICK n \in Bad : \A y \in Bad : n <= y
  BY LeastNatural
<1>2. CASE n = 0
  <2>1. ArePopped([k \in 0..0 |-> [children |-> children, register |-> register]],
                  path, suffix, 0)
    BY DEF ArePopped
  <2> QED
    BY <2>1, <1>2
<1>3. CASE n # 0
  <2>1. n - 1 \in Nat /\ n - 1 \notin Bad
    BY <1>1, <1>3
  <2>2. PICK h : ArePopped(h, path, suffix, n - 1)
    BY <2>1
  <2> DEFINE e == [k \in 0..n |-> IF k = n THEN Popped(h[n - 1], path, suffix, n) ELSE h[k]]
  <2>3. ASSUME NEW k \in 0..n
        PROVE  e[k] = IF k = 0 THEN [children |-> children, register |-> register]
                      ELSE Popped(e[k - 1], path, suffix, k)
    <3>1. CASE k = n
      BY <3>1, <1>3
    <3>2. CASE k # n
      <4>1. k \in 0..(n - 1) /\ k - 1 # n
        BY <3>2
      <4>2. k # 0 => e[k - 1] = h[k - 1]
        BY <4>1
      <4> QED
        BY <2>2, <4>1, <4>2, <3>2 DEF ArePopped
    <3> QED
      BY <3>1, <3>2
  <2>4. ArePopped(e, path, suffix, n)
    BY <2>3 DEF ArePopped
  <2> QED
    BY <2>4
<1> QED
  BY <1>2, <1>3

LEMMA WorkedOffIs ==
  ASSUME NEW state, NEW suffix, Len(suffix) \in Nat
  PROVE  ArePopped(WorkedOff(state, suffix), Run(children, state, suffix), suffix, Len(suffix))
<1>1. PICK path : path = Run(children, state, suffix)
  OBVIOUS
<1> DEFINE R(h) == h = [k \in 0..Len(suffix) |->
                         IF k = 0 THEN [children |-> children, register |-> register]
                         ELSE Popped(h[k - 1], path, suffix, k)]
<1>2. \E h : R(h)
  <2>1. PICK h : ArePopped(h, path, suffix, Len(suffix))
    BY PoppedExist
  <2>2. R(h)
    BY <2>1 DEF ArePopped
  <2> QED
    BY <2>2
<1>3. PICK c : c = CHOOSE h : R(h)
  OBVIOUS
<1>4. R(c)
  BY <1>2, <1>3
<1>5. WorkedOff(state, suffix) = c
  BY <1>1, <1>3 DEF WorkedOff, Popped
<1>6. ArePopped(c, path, suffix, Len(suffix))
  BY <1>4 DEF ArePopped
<1> QED
  BY <1>1, <1>5, <1>6

(***************************************************************************)
(* The run from a node on the path is the rest of the path.                *)
(***************************************************************************)
IsRest(v, w, i, path, P) ==
  /\ v \in Seq(Letter) /\ Len(v) = Len(w) - i /\ Len(v) \in Nat
  /\ \A k \in 1..Len(v) : v[k] = w[i + k]
  /\ \A k \in 0..Len(v) : path[k] = P[i + k]

LEMMA RunFrom ==
  ASSUME NEW g, NEW root, NEW w \in Seq(Letter), NEW i \in 0..Len(w),
         NEW v, v = SubSeq(w, i + 1, Len(w))
  PROVE  IsRest(v, w, i, Run(g, Run(g, root, w)[i], v), Run(g, root, w))
<1> USE DEF IsRest
<1>1. PICK n \in Nat : n = Len(w)
  BY LenProperties
<1>2. PICK m \in Nat : m = n - i /\ i + m = n /\ n - (i + 1) + 1 = m /\ i \in Nat
  BY <1>1
<1>3. /\ v \in Seq(Letter) /\ Len(v) = m /\ \A k \in 1..m : v[k] = w[i + k]
  <2>1. \A k \in (i + 1)..n : w[k] \in Letter
    <3>1. \A k \in (i + 1)..n : k \in 1..Len(w)
      BY <1>1, <1>2
    <3> QED
      BY <3>1, ElementOfSeq
  <2>2. /\ v \in Seq(Letter)
        /\ Len(v) = IF i + 1 <= n THEN n - (i + 1) + 1 ELSE 0
        /\ \A k \in 1..(n - (i + 1) + 1) : v[k] = w[(i + 1) + k - 1]
    <3>1. i + 1 \in 1..(n + 1) /\ n \in 0..n
      BY <1>1, <1>2
    <3> QED
      BY <3>1, <2>1, <1>1, SubSeqProperties
  <2>3. i + 1 <= n \/ m = 0
    BY <1>2
  <2>4. \A k \in 1..m : (i + 1) + k - 1 = i + k
    BY <1>2
  <2> QED
    BY <2>2, <2>3, <2>4, <1>2
<1>4. PICK r : r = Run(g, root, w)
  OBVIOUS
<1>5. \A k \in 1..n : r[k] = GetChild(g, r[k - 1], w[k])
  BY <1>1, <1>4, RunStep
<1>6. PICK h : h = [k \in 0..m |-> r[i + k]]
  OBVIOUS
<1>7. ASSUME NEW k \in 1..m PROVE h[k] = GetChild(g, h[k - 1], v[k])
  <2>1. /\ k \in 0..m /\ k - 1 \in 0..m /\ i + k \in 1..n /\ (i + k) - 1 = i + (k - 1)
    BY <1>2
  <2>2. h[k] = r[i + k] /\ h[k - 1] = r[i + (k - 1)]
    BY <2>1, <1>6
  <2> QED
    BY <2>1, <2>2, <1>3, <1>5
<1>8. h[0] = r[i]
  <2>1. 0 \in 0..m /\ i + 0 = i
    BY <1>2
  <2> QED
    BY <2>1, <1>6
<1>9. Follows(h, g, r[i], v, m)
  BY <1>3, <1>7, <1>8 DEF Follows
<1>10. \A k \in 0..m : Run(g, r[i], v)[k] = h[k]
  BY <1>3, <1>9, RunUnique
<1> QED
  BY <1>1, <1>2, <1>3, <1>4, <1>6, <1>10

KeptTo(m, d) == Kept(m, children, wp, LastPath, d)

LEMMA KeptOn ==
  ASSUME NEW m0, NEW d, KeptTo(m0, d), NEW m, NEW e,
         Kept(m, m0.children, wp, LastPath, e)
  PROVE  KeptTo(m, e)
BY DEF KeptTo, Kept

LEMMA SuffixWorkedOff ==
  ASSUME wp \in Seq(Letter),
         Built(children, final, register, wp, LastPath, Len(wp)),
         NEW i \in 0..Len(wp), NEW m,
         m = ReplaceOrRegister(LastPath[i], SubSeq(wp, i + 1, Len(wp)))
  PROVE  KeptTo(m, i)
<1>1. PICK v : v = SubSeq(wp, i + 1, Len(wp))
  OBVIOUS
<1>2. /\ v \in Seq(Letter) /\ Len(v) = Len(wp) - i /\ Len(v) \in Nat
      /\ \A k \in 1..Len(v) : v[k] = wp[i + k]
      /\ \A k \in 0..Len(v) : Run(children, LastPath[i], v)[k] = LastPath[i + k]
  <2>1. IsRest(v, wp, i, Run(children, LastPath[i], v), LastPath)
    <3>1. IsRest(v, wp, i, Run(children, Run(children, q0, wp)[i], v), Run(children, q0, wp))
      BY <1>1, RunFrom
    <3> QED
      BY <3>1 DEF LastPath
  <2> QED
    BY <2>1 DEF IsRest
<1>3. PICK n \in Nat : n = Len(v) /\ i + n = Len(wp) /\ i \in Nat /\ Len(wp) \in Nat
  <2>1. Len(wp) \in Nat
    BY LenProperties
  <2>2. i \in Nat /\ i + Len(v) = Len(wp)
    BY <2>1, <1>2
  <2> QED
    BY <2>1, <2>2, <1>2
<1>4. PICK path : path = Run(children, LastPath[i], v)
  OBVIOUS
<1>5. PICK h : h = WorkedOff(LastPath[i], v)
  OBVIOUS
<1>6. ArePopped(h, path, v, n)
  BY <1>2, <1>3, <1>4, <1>5, WorkedOffIs
<1> DEFINE Bad == {k \in 0..n : ~ KeptTo(h[k], Len(wp) - k)}
<1>7. Bad = {}
  <2> SUFFICES ASSUME Bad # {} PROVE FALSE
    OBVIOUS
  <2>1. PICK k \in Bad : \A j \in Bad : k <= j
    <3>1. Bad \subseteq Nat
      OBVIOUS
    <3> HIDE DEF Bad
    <3> QED
      BY <3>1, LeastNatural
  <2>2. k # 0
    <3> SUFFICES ASSUME k = 0 PROVE FALSE
      OBVIOUS
    <3>1. h[k] = [children |-> children, register |-> register]
      BY <1>6 DEF ArePopped
    <3>2. Len(wp) - k = Len(wp)
      BY <1>3
    <3>3. KeptTo(h[k], Len(wp))
      BY <3>1 DEF KeptTo, Kept
    <3> QED
      BY <2>1, <3>2, <3>3
  <2>3. PICK e \in Nat : e = Len(wp) - k /\ e + 1 = Len(wp) - (k - 1) /\ e = i + (n - k)
                         /\ e + 1 = i + ((n - k) + 1)
    <3>1. k \in 0..n
      BY <2>1
    <3>2. Len(wp) - k \in Nat /\ (Len(wp) - k) + 1 = Len(wp) - (k - 1)
      BY <3>1, <1>3
    <3>3. Len(wp) - k = i + (n - k) /\ (Len(wp) - k) + 1 = i + ((n - k) + 1)
      BY <3>1, <1>3
    <3> QED
      BY <3>2, <3>3
  <2>4. k - 1 \in 0..n /\ k - 1 \notin Bad /\ n - k \in 0..n /\ (n - k) + 1 \in 1..n
        /\ 1..n \subseteq 0..n
    BY <2>1, <2>2
  <2>5. PICK m0 : m0 = h[k - 1]
    OBVIOUS
  <2>6. KeptTo(m0, e + 1)
    BY <2>3, <2>4, <2>5
  <2>7. h[k] = Popped(m0, path, v, k)
    BY <2>1, <2>2, <2>5, <1>6 DEF ArePopped
  <2>8. /\ path[n - k] = LastPath[e] /\ path[(n - k) + 1] = LastPath[e + 1]
        /\ v[(n - k) + 1] = wp[e + 1]
    <3>1. path[n - k] = LastPath[i + (n - k)]
      BY <2>4, <1>2, <1>3, <1>4
    <3>2. path[(n - k) + 1] = LastPath[i + ((n - k) + 1)]
      BY <2>4, <1>2, <1>3, <1>4
    <3>3. v[(n - k) + 1] = wp[i + ((n - k) + 1)]
      BY <2>4, <1>2, <1>3
    <3> QED
      BY <3>1, <3>2, <3>3, <2>3
  <2>9. h[k] = Replaced(m0, LastPath[e], wp[e + 1], LastPath[e + 1])
    BY <2>7, <2>8, <1>3 DEF Popped
  <2>10. KeptTo(h[k], e)
    <3>1. PICK d : d = e + 1
      OBVIOUS
    <3>2. PICK g : g = m0.children
      OBVIOUS
    <3>3. PICK reg : reg = m0.register
      OBVIOUS
    <3>4. m0 = [children |-> g, register |-> reg] /\ Built(g, final, reg, wp, LastPath, d)
      BY <3>1, <3>2, <3>3, <2>6 DEF KeptTo, Kept
    <3>5. h[k] = Replaced(m0, LastPath[e], wp[d], LastPath[d])
      BY <3>1, <2>9
    <3>6. Kept(h[k], g, wp, LastPath, e)
      BY <3>1, <3>4, <3>5, ReplacedBuilt
    <3> QED
      BY <3>2, <3>6, <2>6, KeptOn
  <2> QED
    BY <2>1, <2>3, <2>10
<1>8. KeptTo(h[n], Len(wp) - n)
  <2>1. n \in 0..n
    OBVIOUS
  <2> QED
    BY <2>1, <1>7
<1>9. Len(wp) - n = i /\ m = h[n]
  BY <1>1, <1>3, <1>5 DEF ReplaceOrRegister
<1> QED
  BY <1>8, <1>9

(***************************************************************************)
(* It touches the path and what it finds in the register only.             *)
(***************************************************************************)
Within(m, N) ==
  /\ m = [children |-> m.children, register |-> m.register]
  /\ m.children = [n \in Node |-> m.children[n]]
  /\ m.register \subseteq N
  /\ \A n \in Node \ N : m.children[n] = children[n]

LEMMA ReplacedWithin ==
  ASSUME NEW m, NEW N, Within(m, N), NEW p \in N, NEW c, NEW s \in N
  PROVE  Within(Replaced(m, p, c, s), N)
<1>1. PICK g : g = m.children
  OBVIOUS
<1>2. PICK reg : reg = m.register
  OBVIOUS
<1>3. /\ m = [children |-> g, register |-> reg] /\ g = [n \in Node |-> g[n]]
      /\ reg \subseteq N /\ \A n \in Node \ N : g[n] = children[n]
  BY <1>1, <1>2 DEF Within
<1>4. PICK m2 : m2 = Replaced(m, p, c, s)
  OBVIOUS
<1>5. PICK found : found = {r \in m.register : Equivalence(m.children, s, r)}
  OBVIOUS
<1>6. CASE found # {}
  <2>1. PICK r : r = CHOOSE x \in found : TRUE
    OBVIOUS
  <2>2. m2 = [m EXCEPT !.children[p][c] = r]
    BY <1>4, <1>5, <1>6, <2>1 DEF Replaced
  <2>3. PICK g2 : g2 = [g EXCEPT ![p][c] = r]
    OBVIOUS
  <2>4. m2 = [children |-> g2, register |-> reg]
    BY <2>2, <2>3, <1>3
  <2>5. g2 = [n \in Node |-> g2[n]] /\ \A n \in Node \ N : g2[n] = g[n]
    BY <2>3, <1>3
  <2>6. Within(m2, N)
    BY <2>4, <2>5, <1>3 DEF Within
  <2> QED
    BY <2>6, <1>4
<1>7. CASE found = {}
  <2>1. m2 = [m EXCEPT !.register = reg \cup {s}]
    BY <1>2, <1>4, <1>5, <1>7 DEF Replaced, Registered
  <2>2. m2 = [children |-> g, register |-> reg \cup {s}]
    BY <2>1, <1>3
  <2>3. Within(m2, N)
    BY <2>2, <1>3 DEF Within
  <2> QED
    BY <2>3, <1>4
<1> QED
  BY <1>6, <1>7

LEMMA WorkedOffWithin ==
  ASSUME NEW state, NEW suffix, Len(suffix) \in Nat, NEW N,
         children = [n \in Node |-> children[n]], register \subseteq N,
         \A k \in 0..Len(suffix) : Run(children, state, suffix)[k] \in N
  PROVE  Within(ReplaceOrRegister(state, suffix), N)
<1>1. PICK n \in Nat : n = Len(suffix)
  OBVIOUS
<1>2. PICK path : path = Run(children, state, suffix)
  OBVIOUS
<1>3. PICK h : h = WorkedOff(state, suffix)
  OBVIOUS
<1>4. ArePopped(h, path, suffix, n)
  BY <1>1, <1>2, <1>3, WorkedOffIs
<1> DEFINE Bad == {k \in 0..n : ~ Within(h[k], N)}
<1>5. Bad = {}
  <2> SUFFICES ASSUME Bad # {} PROVE FALSE
    OBVIOUS
  <2>1. PICK k \in Bad : \A j \in Bad : k <= j
    <3>1. Bad \subseteq Nat
      OBVIOUS
    <3> HIDE DEF Bad
    <3> QED
      BY <3>1, LeastNatural
  <2>2. k # 0
    <3> SUFFICES ASSUME k = 0 PROVE FALSE
      OBVIOUS
    <3>1. h[k] = [children |-> children, register |-> register]
      BY <1>4 DEF ArePopped
    <3>2. Within(h[k], N)
      BY <3>1 DEF Within
    <3> QED
      BY <2>1, <3>2
  <2>3. k - 1 \in 0..n /\ k - 1 \notin Bad /\ n - k \in 0..n /\ (n - k) + 1 \in 0..n
    BY <2>1, <2>2
  <2>4. h[k] = Popped(h[k - 1], path, suffix, k) /\ Within(h[k - 1], N)
    BY <2>1, <2>2, <2>3, <1>4 DEF ArePopped
  <2>5. path[n - k] \in N /\ path[(n - k) + 1] \in N
    BY <2>3, <1>1, <1>2
  <2>6. Within(h[k], N)
    BY <2>4, <2>5, <1>1, ReplacedWithin DEF Popped
  <2> QED
    BY <2>1, <2>6
<1>6. Within(h[n], N)
  <2>1. n \in 0..n
    OBVIOUS
  <2> QED
    BY <2>1, <1>5
<1> QED
  BY <1>6, <1>1, <1>3 DEF ReplaceOrRegister

(***************************************************************************)
(* When the path is worked off already, as it is after freeze, each node   *)
(* of it finds itself in the register, and nothing changes.                *)
(***************************************************************************)
LEMMA EquivalentReads ==
  ASSUME NEW g \in [Node -> [Letter -> Node \cup {NULL}]], final \in [Node -> BOOLEAN],
         NEW p \in Node, NEW q \in Node, Equivalence(g, p, q)
  PROVE  Read(g, final, p) = Read(g, final, q)
<1>1. PICK R : R = {<<n, n>> : n \in Node \cup {NULL}} \cup {<<p, q>>}
  OBVIOUS
<1>2. \A x, y : <<x, y>> \in R <=> (x = y /\ x \in Node \cup {NULL}) \/ (x = p /\ y = q)
  BY <1>1
<1>3. g[p] = g[q] /\ final[p] = final[q] /\ NULL \notin Node
  BY NodeAssumption DEF Equivalence
<1>4. \A n \in Node, l \in Letter : <<g[n][l], g[n][l]>> \in R
  BY <1>2
<1>5. Alike(R, g, final, g, final)
  <2> SUFFICES ASSUME NEW x, NEW y, <<x, y>> \in R
               PROVE  \/ x = NULL /\ y = NULL
                      \/ /\ x # NULL /\ y # NULL /\ final[x] \in BOOLEAN /\ final[y] = final[x]
                         /\ \A l \in Letter : <<g[x][l], g[y][l]>> \in R
    BY DEF Alike
  <2>1. CASE x = NULL /\ y = NULL
    BY <2>1
  <2>2. CASE x = y /\ x \in Node
    BY <2>2, <1>3, <1>4
  <2>3. CASE x = p /\ y = q
    BY <2>3, <1>3, <1>4
  <2> QED
    BY <2>1, <2>2, <2>3, <1>2
<1>6. <<p, q>> \in R
  BY <1>2
<1> QED
  BY <1>5, <1>6, ReadAlike

LEMMA PathRegistered ==
  ASSUME wp \in Seq(Letter), Shape(children, final, register, wp, LastPath, 0),
         wp # <<>> => wp \in Read(children, final, q0)
  PROVE  \A k \in 1..Len(wp) : LastPath[k] \in register
<1>1. PICK n \in Nat : n = Len(wp)
  BY LenProperties
<1>2. PICK r : r = LastPath
  OBVIOUS
<1>3. r[0] = q0 /\ \A k \in 1..n : r[k] = GetChild(children, r[k - 1], wp[k])
  BY <1>1, <1>2, RunStep DEF LastPath
<1>4. n # 0 => r[n] # NULL
  <2>1. n # 0 => wp # <<>>
    BY <1>1
  <2> QED
    BY <2>1, <1>1, <1>2 DEF Read, Accepts, Target, LastPath
<1>5. ASSUME NEW j \in 1..n, r[j] = NULL PROVE FALSE
  <2> DEFINE Bad == {k \in 1..n : j <= k /\ r[k] # NULL}
  <2>1. n \in Bad
    BY <1>4, <1>5
  <2>2. PICK k \in Bad : \A x \in Bad : k <= x
    <3>1. Bad \subseteq Nat
      OBVIOUS
    <3> HIDE DEF Bad
    <3> QED
      BY <3>1, <2>1, LeastNatural
  <2>3. k # j
    BY <2>2, <1>5
  <2>4. k - 1 \in 1..n /\ j <= k - 1 /\ k - 1 \notin Bad
    BY <2>2, <2>3
  <2>5. r[k] = NULL
    BY <2>2, <2>4, <1>3 DEF GetChild
  <2> QED
    BY <2>2, <2>5
<1> DEFINE Bad == {k \in 1..n : r[k] \notin register}
<1>6. Bad = {}
  <2> SUFFICES ASSUME Bad # {} PROVE FALSE
    OBVIOUS
  <2>1. PICK k \in Bad : \A j \in Bad : k <= j
    <3>1. Bad \subseteq Nat
      OBVIOUS
    <3> HIDE DEF Bad
    <3> QED
      BY <3>1, LeastNatural
  <2>2. wp[k] \in Letter /\ r[k] # NULL
    BY <2>1, <1>1, <1>5, ElementOfSeq
  <2>3. CASE k = 1
    <3>1. r[k] = GetChild(children, q0, wp[k])
      BY <2>1, <2>3, <1>3
    <3>2. r[k] = children[q0][wp[k]]
      BY <3>1, NodeAssumption DEF GetChild
    <3>3. children[q0][wp[k]] \in register \cup {NULL}
      <4>1. 0 \in 0..0 /\ ~ (0 < 0) /\ LastPath[0] = q0
        BY DEF Shape
      <4> QED
        BY <4>1, <2>2 DEF Shape
    <3> QED
      BY <3>2, <3>3, <2>1, <2>2
  <2>4. CASE k # 1
    <3>1. k - 1 \in 1..n /\ k - 1 \notin Bad
      BY <2>1, <2>4
    <3>2. r[k - 1] \in register /\ r[k] = GetChild(children, r[k - 1], wp[k])
      BY <3>1, <2>1, <1>3
    <3>3. r[k - 1] # NULL
      BY <3>1, <1>5
    <3> QED
      BY <3>2, <3>3, <2>1, <2>2 DEF Shape, GetChild
  <2> QED
    BY <2>3, <2>4
<1> QED
  BY <1>1, <1>2, <1>6

LEMMA FindsItself ==
  ASSUME Built(children, final, register, wp, LastPath, 0),
         NEW m, m = [children |-> children, register |-> register],
         NEW p \in Node, NEW c \in Letter, NEW s \in register, children[p][c] = s
  PROVE  Replaced(m, p, c, s) = m
<1>1. /\ children \in [Node -> [Letter -> Node \cup {NULL}]] /\ final \in [Node -> BOOLEAN]
      /\ register \subseteq Node
      /\ \A x, y \in register : Read(children, final, x) = Read(children, final, y) => x = y
  BY DEF Built, Shape, Meaning
<1>2. PICK found : found = {r \in register : Equivalence(children, s, r)}
  OBVIOUS
<1>3. s \in found
  BY <1>2 DEF Equivalence
<1>4. \A r \in found : r = s
  <2> SUFFICES ASSUME NEW r \in found PROVE r = s
    OBVIOUS
  <2>1. r \in register /\ Equivalence(children, s, r)
    BY <1>2
  <2>2. Read(children, final, s) = Read(children, final, r)
    BY <2>1, <1>1, EquivalentReads
  <2> QED
    BY <2>1, <2>2, <1>1
<1>5. (CHOOSE r \in found : TRUE) = s
  BY <1>3, <1>4
<1>6. Replaced(m, p, c, s) = [m EXCEPT !.children[p][c] = s]
  <2>1. found = {r \in m.register : Equivalence(m.children, s, r)}
    BY <1>2
  <2> QED
    BY <2>1, <1>3, <1>5 DEF Replaced
<1>7. [children EXCEPT ![p][c] = s] = children
  BY <1>1
<1> QED
  BY <1>6, <1>7

LEMMA Refrozen ==
  ASSUME wp \in Seq(Letter), Built(children, final, register, wp, LastPath, 0),
         wp # <<>> => wp \in Read(children, final, q0)
  PROVE  ReplaceOrRegister(q0, wp) = [children |-> children, register |-> register]
<1>1. PICK n \in Nat : n = Len(wp)
  BY LenProperties
<1>2. PICK h : h = WorkedOff(q0, wp)
  OBVIOUS
<1>3. ArePopped(h, LastPath, wp, n)
  BY <1>1, <1>2, WorkedOffIs DEF LastPath
<1>4. PICK m0 : m0 = [children |-> children, register |-> register]
  OBVIOUS
<1>5. /\ LastPath[0] = q0
      /\ \A k \in 1..n : LastPath[k] = GetChild(children, LastPath[k - 1], wp[k])
  BY <1>1, RunStep DEF LastPath
<1>6. \A k \in 1..n : LastPath[k] \in register
  BY <1>1, PathRegistered DEF Built
<1>7. register \subseteq Node /\ q0 \in Node /\ NULL \notin Node
  BY NodeAssumption DEF Built, Shape
<1> DEFINE Bad == {k \in 0..n : h[k] # m0}
<1>8. Bad = {}
  <2> SUFFICES ASSUME Bad # {} PROVE FALSE
    OBVIOUS
  <2>1. PICK k \in Bad : \A j \in Bad : k <= j
    <3>1. Bad \subseteq Nat
      OBVIOUS
    <3> HIDE DEF Bad
    <3> QED
      BY <3>1, LeastNatural
  <2>2. k # 0
    BY <2>1, <1>3, <1>4 DEF ArePopped
  <2>3. /\ k - 1 \in 0..n /\ k - 1 \notin Bad
        /\ n - k \in 0..n /\ (n - k) + 1 \in 1..n /\ ((n - k) + 1) - 1 = n - k
    BY <2>1, <2>2
  <2>4. PICK j \in 0..n : j = n - k /\ j + 1 \in 1..n /\ (j + 1) - 1 = j
    BY <2>3
  <2>5. h[k] = Popped(m0, LastPath, wp, k)
    BY <2>1, <2>2, <2>3, <1>3 DEF ArePopped
  <2>6. h[k] = Replaced(m0, LastPath[j], wp[j + 1], LastPath[j + 1])
    BY <2>4, <2>5, <1>1 DEF Popped
  <2>7. wp[j + 1] \in Letter /\ LastPath[j + 1] \in register
    BY <2>4, <1>1, <1>6, ElementOfSeq
  <2>8. LastPath[j] \in Node
    <3>1. j = 0 \/ j \in 1..n
      BY <2>4
    <3> QED
      BY <3>1, <1>5, <1>6, <1>7
  <2>9. children[LastPath[j]][wp[j + 1]] = LastPath[j + 1]
    BY <2>4, <2>8, <1>5, <1>7 DEF GetChild
  <2>10. h[k] = m0
    BY <2>6, <2>7, <2>8, <2>9, <1>4, FindsItself
  <2> QED
    BY <2>1, <2>10
<1>9. h[n] = m0
  <2>1. n \in 0..n
    OBVIOUS
  <2> QED
    BY <2>1, <1>8
<1> QED
  BY <1>9, <1>1, <1>2, <1>4 DEF ReplaceOrRegister

-----------------------------------------------------------------------------
(***************************************************************************)
(* The prefix that exists                                                  *)
(***************************************************************************)

(***************************************************************************)
(* w and the previous word part after i letters, where w is the greater:   *)
(* an edge of the path beyond that would be one that no word has yet.      *)
(***************************************************************************)
Parts(b, w, i) ==
  /\ i \in 0..Len(w) /\ i \in 0..Len(b)
  /\ \A k \in 1..i : w[k] = b[k]
  /\ i < Len(w) /\ i < Len(b) => b[i + 1] < w[i + 1]
  /\ i = Len(w) => Len(b) = i

(***************************************************************************)
(* The order decides at the first letter that differs.                     *)
(***************************************************************************)
LEMMA OrderDecides ==
  ASSUME NEW b \in Seq(Letter), NEW w \in Seq(Letter), LessEq(b, w),
         NEW k \in Nat, \A j \in 1..k : w[j] = b[j], k <= Len(b)
  PROVE  /\ k < Len(w) /\ k < Len(b) => b[k + 1] <= w[k + 1]
         /\ k = Len(w) => Len(b) = k
<1>1. Len(b) \in Nat /\ Len(w) \in Nat
  BY LenProperties
<1>2. \A j \in 1..Len(b) : b[j] \in Nat
  BY ElementOfSeq, LetterAssumption
<1>3. \A j \in 1..Len(w) : w[j] \in Nat
  BY ElementOfSeq, LetterAssumption
<1>4. CASE b = w
  BY <1>1, <1>2, <1>4
<1>5. CASE \E j \in 1..Len(b) : j <= Len(w) /\ b[j] < w[j] /\ AgreeBelow(b, w, j)
  <2>1. PICK j \in 1..Len(b) : j <= Len(w) /\ b[j] < w[j] /\ AgreeBelow(b, w, j)
    BY <1>5
  <2>2. j \in Nat /\ b[j] \in Nat /\ w[j] \in Nat /\ j \in 1..Len(w)
    BY <2>1, <1>1, <1>2, <1>3
  <2>3. k < j
    BY <2>1, <2>2
  <2>4. CASE j = k + 1
    BY <2>1, <2>2, <2>4, <1>1
  <2>5. CASE j # k + 1
    <3>1. k + 1 \in 1..(j - 1) /\ k + 1 \in 1..Len(b)
      BY <2>2, <2>3, <2>5, <2>1, <1>1
    <3>2. b[k + 1] = w[k + 1] /\ b[k + 1] \in Nat
      BY <3>1, <2>1, <1>2 DEF AgreeBelow
    <3> QED
      BY <3>2, <2>1, <2>2, <2>3, <1>1
  <2> QED
    BY <2>4, <2>5
<1>6. CASE Len(b) < Len(w) /\ AgreeBelow(b, w, Len(b) + 1)
  <2>1. ASSUME k < Len(b) PROVE b[k + 1] = w[k + 1] /\ b[k + 1] \in Nat
    <3>1. k + 1 \in 1..((Len(b) + 1) - 1) /\ k + 1 \in 1..Len(b)
      BY <2>1, <1>1
    <3> QED
      BY <3>1, <1>2, <1>6 DEF AgreeBelow
  <2> QED
    BY <2>1, <1>1, <1>6
<1> QED
  BY <1>4, <1>5, <1>6 DEF LessEq, Less

LEMMA PrefixIs ==
  ASSUME wp \in Seq(Letter), Shape(children, final, register, wp, LastPath, Len(wp)),
         NEW w \in Seq(Letter), LessEq(wp, w), NEW i, i = Existing(w)
  PROVE  /\ Parts(wp, w, i)
         /\ \A k \in 0..i : Run(children, q0, w)[k] = LastPath[k]
<1>1. PICK n \in Nat : n = Len(w)
  BY LenProperties
<1>2. PICK d \in Nat : d = Len(wp)
  BY LenProperties
<1>3. PICK r : r = Run(children, q0, w)
  OBVIOUS
<1>4. r[0] = q0 /\ \A k \in 1..n : r[k] = GetChild(children, r[k - 1], w[k])
  BY <1>1, <1>3, RunStep
<1>5. PICK P : P = LastPath
  OBVIOUS
<1>6. /\ P[0] = q0 /\ \A j \in 0..d : P[j] \in Node
      /\ \A j \in 0..d, l \in Letter :
           /\ children[P[j]][l] # NULL => j < d /\ l <= wp[j + 1]
           /\ j < d /\ l = wp[j + 1] => children[P[j]][l] = P[j + 1]
  BY <1>2, <1>5 DEF Shape
<1>7. \A k \in 1..n : w[k] \in Letter /\ w[k] \in Nat
  BY <1>1, ElementOfSeq, LetterAssumption
<1>8. \A k \in 1..d : wp[k] \in Letter /\ wp[k] \in Nat
  BY <1>2, ElementOfSeq, LetterAssumption
<1>9. PICK S : S = {k \in 0..n : r[k] # NULL}
  OBVIOUS
<1> DEFINE Along(k) == k <= d /\ \A j \in 1..k : w[j] = wp[j]
           OnPath(k) == Along(k) /\ r[k] = P[k]
           Bad == {k \in S : ~ OnPath(k)}
<1>10. Bad = {}
  <2> SUFFICES ASSUME Bad # {} PROVE FALSE
    OBVIOUS
  <2>1. PICK k \in Bad : \A j \in Bad : k <= j
    <3>1. Bad \subseteq Nat
      BY <1>9
    <3> HIDE DEF Bad
    <3> QED
      BY <3>1, LeastNatural
  <2>2. k \in 0..n /\ r[k] # NULL
    BY <2>1, <1>9
  <2>3. k # 0
    BY <2>1, <1>4, <1>6
  <2>4. PICK j \in 0..n : j + 1 = k /\ k - 1 = j /\ k \in 1..n
    <3>1. k - 1 \in 0..n /\ (k - 1) + 1 = k /\ k \in 1..n
      BY <2>2, <2>3
    <3> QED
      BY <3>1
  <2>5. r[k] = GetChild(children, r[j], w[k]) /\ r[j] # NULL
    <3>1. r[k] = GetChild(children, r[j], w[k])
      BY <2>4, <1>4
    <3> QED
      BY <3>1, <2>2 DEF GetChild
  <2>6. OnPath(j)
    <3>1. j \in S /\ j < k
      BY <2>4, <2>5, <1>9
    <3>2. j \notin Bad
      BY <3>1, <2>1, <2>4
    <3> QED
      BY <3>1, <3>2
  <2>7. j \in 0..d /\ j \in Nat
    BY <2>6, <2>4, <1>2
  <2>8. children[P[j]][w[k]] # NULL /\ r[k] = children[P[j]][w[k]]
    BY <2>2, <2>5, <2>6 DEF GetChild
  <2>9. j < d /\ w[k] <= wp[k]
    BY <2>4, <2>7, <2>8, <1>6, <1>7
  <2>10. wp[k] <= w[k]
    <3>1. \A x \in 1..j : w[x] = wp[x]
      BY <2>6
    <3>2. j < Len(w) /\ j < Len(wp) /\ j <= Len(wp)
      BY <2>4, <2>7, <2>9, <1>1, <1>2
    <3> QED
      BY <3>1, <3>2, <2>4, <2>7, OrderDecides
  <2>11. w[k] = wp[k]
    <3>1. k \in 1..d
      BY <2>4, <2>7, <2>9
    <3> QED
      BY <3>1, <2>4, <2>9, <2>10, <1>7, <1>8
  <2>12. r[k] = P[k]
    BY <2>4, <2>7, <2>8, <2>9, <2>11, <1>6, <1>7
  <2>13. Along(k)
    <3>1. k <= d
      BY <2>4, <2>7, <2>9
    <3>2. ASSUME NEW x \in 1..k PROVE w[x] = wp[x]
      <4>1. x = k \/ x \in 1..j
        BY <2>4, <2>7
      <4> QED
        BY <4>1, <2>6, <2>11
    <3> QED
      BY <3>1, <3>2
  <2> QED
    BY <2>1, <2>12, <2>13
<1>11. i \in S /\ \A k \in S : k <= i
  <2>1. S \subseteq Nat /\ S # {} /\ IsFiniteSet(S)
    <3>1. 0 \in S
      <4>1. q0 # NULL
        BY NodeAssumption
      <4> QED
        BY <4>1, <1>4, <1>9
    <3>2. S \subseteq 0..n
      BY <1>9
    <3>3. PICK I : I = 0..n
      OBVIOUS
    <3>4. IsFiniteSet(I)
      BY <3>3, FS_Interval
    <3>5. IsFiniteSet(S)
      BY <3>2, <3>3, <3>4, FS_Subset
    <3> QED
      BY <3>1, <3>2, <3>5
  <2>2. \E x \in S : \A y \in S : x >= y
    <3>1. PICK x \in S : \A y \in S : y <= x
      BY <2>1, GreatestNatural
    <3> QED
      BY <3>1, <2>1
  <2>3. i = Max(S)
    BY <1>1, <1>3, <1>9 DEF Existing
  <2>4. i = CHOOSE x \in S : \A y \in S : x >= y
    BY <2>3 DEF Max
  <2>5. i \in S /\ \A y \in S : i >= y
    BY <2>2, <2>4
  <2> QED
    BY <2>1, <2>5
<1>12. i \in 0..n /\ r[i] # NULL /\ OnPath(i)
  BY <1>9, <1>10, <1>11
<1>13. i \in 0..d /\ i \in Nat
  BY <1>12, <1>2
<1>14. /\ i < Len(w) /\ i < Len(wp) => wp[i + 1] <= w[i + 1]
       /\ i = Len(w) => Len(wp) = i
  <2>1. \A j \in 1..i : w[j] = wp[j]
    BY <1>12
  <2>2. i <= Len(wp)
    BY <1>13, <1>2
  <2> QED
    BY <2>1, <2>2, <1>13, OrderDecides
<1>15. ASSUME i < Len(w), i < Len(wp) PROVE wp[i + 1] < w[i + 1]
  <2>1. i + 1 \in 1..n /\ i + 1 \in 1..d /\ i < n /\ i < d /\ (i + 1) - 1 = i /\ i + 1 \in 0..d
    BY <1>15, <1>13, <1>1, <1>2
  <2>2. ASSUME wp[i + 1] = w[i + 1] PROVE FALSE
    <3>1. r[i + 1] = GetChild(children, P[i], w[i + 1])
      BY <2>1, <1>4, <1>12
    <3>2. r[i + 1] = P[i + 1]
      <4>1. P[i] \in Node
        BY <1>6, <1>13
      <4>2. children[P[i]][w[i + 1]] = P[i + 1]
        BY <2>1, <2>2, <1>6, <1>7, <1>13
      <4> QED
        BY <3>1, <4>1, <4>2, NodeAssumption DEF GetChild
    <3>3. r[i + 1] # NULL
      BY <3>2, <2>1, <1>6, NodeAssumption
    <3>4. i + 1 \in S
      BY <3>3, <2>1, <1>9
    <3> QED
      BY <3>4, <1>11, <1>13
  <2> QED
    BY <2>1, <2>2, <1>14, <1>7, <1>8, <1>15
<1>16. Parts(wp, w, i)
  BY <1>1, <1>2, <1>12, <1>13, <1>14, <1>15 DEF Parts
<1>17. ASSUME NEW k \in 0..i PROVE r[k] = P[k]
  <2>1. Follows(P, children, q0, w, i)
    <3>1. ASSUME NEW x \in 1..i PROVE P[x] = GetChild(children, P[x - 1], w[x])
      <4>1. x - 1 \in 0..d /\ x - 1 < d /\ (x - 1) + 1 = x /\ x \in 1..n
        BY <1>12, <1>13
      <4>2. w[x] = wp[x] /\ w[x] \in Letter
        BY <4>1, <1>7, <1>12
      <4>3. children[P[x - 1]][w[x]] = P[x] /\ P[x - 1] \in Node
        BY <4>1, <4>2, <1>6
      <4> QED
        BY <4>3, NodeAssumption DEF GetChild
    <3> QED
      BY <3>1, <1>1, <1>6, <1>12 DEF Follows
  <2> QED
    BY <2>1, <1>1, <1>3, RunUnique
<1> QED
  BY <1>3, <1>5, <1>16, <1>17

-----------------------------------------------------------------------------
(***************************************************************************)
(* Adding the rest of a word                                               *)
(***************************************************************************)

(***************************************************************************)
(* The loop that adds the suffix: after k letters the edges over the       *)
(* letters from the (i + 1)-st to the k-th lead along P, and all others    *)
(* are as before.                                                          *)
(***************************************************************************)
Extended(m, P, w, k) == [m EXCEPT ![P[k - 1]][w[k]] = P[k]]

AreExtensions(h, g, P, w, i, m) ==
  /\ h = [k \in i..m |-> h[k]]
  /\ \A k \in i..m : h[k] = IF k = i THEN g ELSE Extended(h[k - 1], P, w, k)

LEMMA ExtensionsExist ==
  ASSUME NEW g, NEW P, NEW w, NEW i \in Nat, NEW m \in Nat
  PROVE  \E h : AreExtensions(h, g, P, w, i, i + m)
<1> DEFINE Bad == {n \in Nat : ~ \E h : AreExtensions(h, g, P, w, i, i + n)}
<1> SUFFICES ASSUME Bad # {} PROVE FALSE
  OBVIOUS
<1>1. PICK n \in Bad : \A y \in Bad : n <= y
  BY LeastNatural
<1>2. CASE n = 0
  <2>1. AreExtensions([k \in i..(i + 0) |-> g], g, P, w, i, i + 0)
    BY DEF AreExtensions
  <2> QED
    BY <2>1, <1>2
<1>3. CASE n # 0
  <2>1. n - 1 \in Nat /\ n - 1 \notin Bad
    BY <1>1, <1>3
  <2>2. PICK h : AreExtensions(h, g, P, w, i, i + (n - 1))
    BY <2>1
  <2>3. PICK x : x = Extended(h[i + (n - 1)], P, w, i + n)
    OBVIOUS
  <2> DEFINE e == [k \in i..(i + n) |-> IF k = i + n THEN x ELSE h[k]]
  <2>4. ASSUME NEW k \in i..(i + n)
        PROVE  e[k] = IF k = i THEN g ELSE Extended(e[k - 1], P, w, k)
    <3>1. CASE k = i + n
      <4>1. k - 1 = i + (n - 1) /\ k # i /\ k - 1 # i + n /\ k - 1 \in i..(i + n)
        BY <3>1, <1>3
      <4>2. e[k - 1] = h[k - 1] /\ e[k] = x
        BY <4>1, <3>1
      <4> QED
        BY <4>1, <4>2, <3>1, <2>3
    <3>2. CASE k # i + n
      <4>1. k \in i..(i + (n - 1)) /\ k - 1 # i + n /\ (k # i => k - 1 \in i..(i + n))
        BY <3>2
      <4>2. (k # i => e[k - 1] = h[k - 1]) /\ e[k] = h[k]
        BY <4>1, <3>2
      <4>3. h[k] = IF k = i THEN g ELSE Extended(h[k - 1], P, w, k)
        BY <2>2, <4>1 DEF AreExtensions
      <4> HIDE DEF e
      <4> QED
        BY <4>2, <4>3
    <3> QED
      BY <3>1, <3>2
  <2>5. AreExtensions(e, g, P, w, i, i + n)
    <3>1. e = [k \in i..(i + n) |-> e[k]]
      OBVIOUS
    <3> HIDE DEF e
    <3> QED
      BY <3>1, <2>4 DEF AreExtensions
  <2> QED
    BY <2>5
<1> QED
  BY <1>2, <1>3

LEMMA WithSuffixIs ==
  ASSUME NEW g, NEW P, NEW w \in Seq(Letter), NEW i \in 0..Len(w)
  PROVE  \E h : AreExtensions(h, g, P, w, i, Len(w)) /\ WithSuffix(g, P, w, i) = h[Len(w)]
<1>1. PICK n \in Nat : n = Len(w)
  BY LenProperties
<1> DEFINE R(h) == h = [k \in i..n |->
                         IF k = i THEN g ELSE Extended(h[k - 1], P, w, k)]
<1>2. \E h : R(h)
  <2>1. n - i \in Nat /\ i + (n - i) = n /\ i \in Nat
    BY <1>1
  <2>2. PICK h : AreExtensions(h, g, P, w, i, i + (n - i))
    BY <2>1, ExtensionsExist
  <2>3. AreExtensions(h, g, P, w, i, n)
    BY <2>1, <2>2
  <2>4. R(h)
    BY <2>3 DEF AreExtensions
  <2> QED
    BY <2>4
<1>3. PICK c : c = CHOOSE h : R(h)
  OBVIOUS
<1>4. R(c)
  BY <1>2, <1>3
<1>5. WithSuffix(g, P, w, i) = c[n]
  BY <1>1, <1>3 DEF WithSuffix, Extended
<1>6. AreExtensions(c, g, P, w, i, n)
  BY <1>4 DEF AreExtensions
<1> QED
  BY <1>1, <1>5, <1>6

IsExtended(g2, g, P, w, i, k) ==
  /\ g2 \in [Node -> [Letter -> Node \cup {NULL}]]
  /\ \A j \in Nat : i <= j /\ j < k => g2[P[j]][w[j + 1]] = P[j + 1]
  /\ \A n \in Node, l \in Letter :
       (\A j \in Nat : i <= j /\ j < k => ~ (n = P[j] /\ l = w[j + 1])) => g2[n][l] = g[n][l]

LEMMA ExtendedOnce ==
  ASSUME NEW g1, NEW g, NEW P, NEW w, NEW i \in Nat, NEW j \in Nat, i <= j,
         IsExtended(g1, g, P, w, i, j),
         \A x, y \in i..(j + 1) : P[x] = P[y] => x = y,
         P[j] \in Node, P[j + 1] \in Node, w[j + 1] \in Letter,
         NEW g2, g2 = [g1 EXCEPT ![P[j]][w[j + 1]] = P[j + 1]]
  PROVE  IsExtended(g2, g, P, w, i, j + 1)
<1> USE DEF IsExtended
<1>1. g2 \in [Node -> [Letter -> Node \cup {NULL}]]
  OBVIOUS
<1>2. \A n \in Node, l \in Letter :
        g2[n][l] = IF n = P[j] /\ l = w[j + 1] THEN P[j + 1] ELSE g1[n][l]
  OBVIOUS
<1>3. ASSUME NEW k \in Nat, i <= k, k < j + 1 PROVE g2[P[k]][w[k + 1]] = P[k + 1]
  <2>1. CASE k = j
    BY <2>1, <1>2
  <2>2. CASE k # j
    <3>1. k < j /\ k \in i..(j + 1) /\ j \in i..(j + 1)
      BY <2>2, <1>3
    <3>2. P[k] # P[j] /\ g1[P[k]][w[k + 1]] = P[k + 1]
      BY <3>1, <2>2, <1>3
    <3>3. g2[P[k]] = g1[P[k]]
      BY <3>2
    <3> QED
      BY <3>2, <3>3
  <2> QED
    BY <2>1, <2>2
<1>4. ASSUME NEW n \in Node, NEW l \in Letter,
             \A k \in Nat : i <= k /\ k < j + 1 => ~ (n = P[k] /\ l = w[k + 1])
      PROVE  g2[n][l] = g[n][l]
  <2>1. ~ (n = P[j] /\ l = w[j + 1])
    BY <1>4
  <2>2. \A k \in Nat : i <= k /\ k < j => ~ (n = P[k] /\ l = w[k + 1])
    BY <1>4
  <2> QED
    BY <2>1, <2>2, <1>2
<1> QED
  BY <1>1, <1>3, <1>4

LEMMA SuffixAdded ==
  ASSUME NEW g \in [Node -> [Letter -> Node \cup {NULL}]], NEW P, NEW w \in Seq(Letter),
         NEW i \in 0..Len(w),
         \A j \in i..Len(w) : P[j] \in Node,
         \A x, y \in i..Len(w) : P[x] = P[y] => x = y
  PROVE  IsExtended(WithSuffix(g, P, w, i), g, P, w, i, Len(w))
<1>1. PICK n \in Nat : n = Len(w)
  BY LenProperties
<1>2. PICK h : AreExtensions(h, g, P, w, i, n) /\ WithSuffix(g, P, w, i) = h[n]
  BY <1>1, WithSuffixIs
<1>3. i \in Nat /\ i <= n /\ i \in i..n /\ n \in i..n
  BY <1>1
<1> DEFINE Bad == {k \in i..n : ~ IsExtended(h[k], g, P, w, i, k)}
<1>4. Bad = {}
  <2> SUFFICES ASSUME Bad # {} PROVE FALSE
    OBVIOUS
  <2>1. PICK k \in Bad : \A j \in Bad : k <= j
    <3>1. Bad \subseteq Nat
      BY <1>3
    <3> HIDE DEF Bad
    <3> QED
      BY <3>1, LeastNatural
  <2>2. k # i
    <3>1. h[i] = g
      BY <1>2, <1>3 DEF AreExtensions
    <3>2. IsExtended(g, g, P, w, i, i)
      BY <1>3 DEF IsExtended
    <3> QED
      BY <3>1, <3>2, <2>1
  <2>3. PICK j \in i..n : j + 1 = k /\ k - 1 = j /\ j \in Nat /\ k \in 1..n
    <3>1. k - 1 \in i..n /\ (k - 1) + 1 = k /\ k - 1 \in Nat /\ k \in 1..n
      BY <2>1, <2>2, <1>3
    <3> QED
      BY <3>1
  <2>4. j \notin Bad
    BY <2>1, <2>3
  <2>5. IsExtended(h[j], g, P, w, i, j)
    BY <2>3, <2>4
  <2>6. h[k] = [h[j] EXCEPT ![P[j]][w[k]] = P[k]]
    BY <2>1, <2>2, <2>3, <1>2 DEF AreExtensions, Extended
  <2>7. w[k] \in Letter /\ P[j] \in Node /\ P[k] \in Node
    BY <2>3, <1>1, ElementOfSeq
  <2>8. \A x, y \in i..(j + 1) : P[x] = P[y] => x = y
    <3>1. i..(j + 1) \subseteq i..Len(w)
      BY <2>3, <1>1
    <3> QED
      BY <3>1
  <2>9. IsExtended(h[k], g, P, w, i, j + 1)
    <3>1. PICK g1 : g1 = h[j]
      OBVIOUS
    <3>2. PICK g2 : g2 = h[k]
      OBVIOUS
    <3>3. g2 = [g1 EXCEPT ![P[j]][w[j + 1]] = P[j + 1]] /\ IsExtended(g1, g, P, w, i, j)
      BY <3>1, <3>2, <2>3, <2>5, <2>6
    <3>4. i <= j /\ P[j + 1] \in Node /\ w[j + 1] \in Letter
      BY <2>3, <2>7, <1>3
    <3>5. IsExtended(g2, g, P, w, i, j + 1)
      BY <3>3, <3>4, <2>3, <2>7, <2>8, <1>3, ExtendedOnce
    <3> QED
      BY <3>2, <3>5
  <2> QED
    BY <2>1, <2>3, <2>9
<1> QED
  BY <1>1, <1>2, <1>3, <1>4

(***************************************************************************)
(* The path P2 of the word w: P as far as that goes, then objects that     *)
(* were not in use and are blank.                                          *)
(***************************************************************************)
Continues(P2, g, f, reg, P, i, w) ==
  /\ \A j \in 0..i : P2[j] = P[j]
  /\ \A j \in (i + 1)..Len(w) : /\ P2[j] \in Node \ Held(reg, P, i)
                                /\ g[P2[j]] = NoEdges /\ f[P2[j]] = FALSE
  /\ \A j, k \in (i + 1)..Len(w) : P2[j] = P2[k] => j = k

LEMMA ContinuedPath ==
  ASSUME NEW b \in Seq(Letter), NEW w \in Seq(Letter), NEW g, NEW f, NEW reg, NEW P, NEW i,
         Shape(g, f, reg, b, P, i), Parts(b, w, i),
         NEW P2, Continues(P2, g, f, reg, P, i, w)
  PROVE  /\ \A j \in 0..Len(w) : P2[j] \in Node \ reg
         /\ \A j, k \in 0..Len(w) : P2[j] = P2[k] => j = k
<1> USE DEF Continues
<1>1. PICK n \in Nat : n = Len(w)
  BY LenProperties
<1>2. i \in 0..n /\ i \in Nat
  BY <1>1 DEF Parts
<1>3. \A j \in 0..n : j \in 0..i \/ j \in (i + 1)..n
  BY <1>2
<1>4. reg \subseteq Held(reg, P, i) /\ \A j \in 0..i : P[j] \in Held(reg, P, i)
  BY DEF Held
<1>5. \A j \in 0..i : P[j] \in Node \ reg
  BY DEF Shape
<1>6. ASSUME NEW j \in 0..n PROVE P2[j] \in Node \ reg
  <2>1. CASE j \in 0..i
    BY <2>1, <1>5
  <2>2. CASE j \in (i + 1)..n
    BY <2>2, <1>1, <1>4
  <2> QED
    BY <2>1, <2>2, <1>3
<1>7. ASSUME NEW j \in 0..n, NEW k \in 0..n, P2[j] = P2[k] PROVE j = k
  <2>1. CASE j \in 0..i /\ k \in 0..i
    <3>1. P[j] = P[k]
      BY <2>1, <1>7
    <3> QED
      BY <2>1, <3>1 DEF Shape
  <2>2. CASE j \in (i + 1)..n /\ k \in (i + 1)..n
    BY <2>2, <1>1, <1>7
  <2>3. CASE j \in 0..i /\ k \in (i + 1)..n
    BY <2>3, <1>1, <1>4, <1>7
  <2>4. CASE j \in (i + 1)..n /\ k \in 0..i
    BY <2>4, <1>1, <1>4, <1>7
  <2> QED
    BY <2>1, <2>2, <2>3, <2>4, <1>3
<1> QED
  BY <1>1, <1>6, <1>7

(***************************************************************************)
(* The edges of the nodes on that path and in the register.                *)
(***************************************************************************)
EdgesGrown(g2, g, reg, w, P2) ==
  /\ \A r \in reg, l \in Letter : g2[r][l] = g[r][l]
  /\ \A j \in 0..Len(w), l \in Letter :
       \/ j < Len(w) /\ l = w[j + 1] /\ g2[P2[j]][l] = P2[j + 1]
       \/ /\ ~ (j < Len(w) /\ l = w[j + 1])
          /\ g2[P2[j]][l] = g[P2[j]][l] /\ g[P2[j]][l] \in reg \cup {NULL}
          /\ g[P2[j]][l] # NULL => j < Len(w) /\ l <= w[j + 1]

LEMMA GrownEdges ==
  ASSUME NEW b \in Seq(Letter), NEW w \in Seq(Letter), NEW g, NEW f, NEW reg, NEW P, NEW i,
         Shape(g, f, reg, b, P, i), Parts(b, w, i),
         NEW P2, Continues(P2, g, f, reg, P, i, w),
         NEW g2, IsExtended(g2, g, P2, w, i, Len(w))
  PROVE  EdgesGrown(g2, g, reg, w, P2)
<1>1. PICK n \in Nat : n = Len(w)
  BY LenProperties
<1>2. PICK m \in Nat : m = Len(b)
  BY LenProperties
<1>3. /\ i \in 0..n /\ i \in 0..m /\ i \in Nat /\ \A k \in 1..i : w[k] = b[k]
      /\ (i < n /\ i < m => b[i + 1] < w[i + 1]) /\ (i = n => m = i)
  BY <1>1, <1>2 DEF Parts
<1>4. /\ \A j \in 0..n : P2[j] \in Node \ reg
      /\ \A j, k \in 0..n : P2[j] = P2[k] => j = k
  BY <1>1, ContinuedPath
<1>5. /\ \A j \in Nat : i <= j /\ j < n => g2[P2[j]][w[j + 1]] = P2[j + 1]
      /\ \A x \in Node, l \in Letter :
           (\A j \in Nat : i <= j /\ j < n => ~ (x = P2[j] /\ l = w[j + 1])) => g2[x][l] = g[x][l]
  BY <1>1 DEF IsExtended
<1>6. /\ reg \subseteq Node
      /\ \A j \in 0..i, l \in Letter :
           /\ g[P[j]][l] \in reg \cup {NULL} \/ (j < i /\ l = b[j + 1])
           /\ g[P[j]][l] # NULL => j < m /\ l <= b[j + 1]
           /\ j < i /\ l = b[j + 1] => g[P[j]][l] = P[j + 1]
  BY <1>2 DEF Shape
<1>7. ASSUME NEW r \in reg, NEW l \in Letter PROVE g2[r][l] = g[r][l]
  <2>1. ASSUME NEW j \in Nat, i <= j, j < n PROVE r # P2[j]
    <3>1. j \in 0..n
      BY <2>1
    <3> QED
      BY <3>1, <1>4
  <2> QED
    BY <2>1, <1>5, <1>6
<1>8. ASSUME NEW j \in 0..n, NEW l \in Letter, ~ (j < n /\ l = w[j + 1])
      PROVE  /\ g2[P2[j]][l] = g[P2[j]][l] /\ g[P2[j]][l] \in reg \cup {NULL}
             /\ g[P2[j]][l] # NULL => j < n /\ l <= w[j + 1]
  <2>1. g2[P2[j]][l] = g[P2[j]][l]
    <3>1. ASSUME NEW k \in Nat, i <= k, k < n PROVE ~ (P2[j] = P2[k] /\ l = w[k + 1])
      <4>1. k \in 0..n
        BY <3>1
      <4>2. P2[j] = P2[k] => j = k
        BY <4>1, <1>4
      <4> QED
        BY <4>2, <3>1, <1>8
    <3>2. P2[j] \in Node
      BY <1>4
    <3> QED
      BY <3>1, <3>2, <1>5
  <2>2. CASE j \in (i + 1)..n
    <3>1. g[P2[j]] = NoEdges
      BY <2>2, <1>1 DEF Continues
    <3>2. g[P2[j]][l] = NULL
      BY <3>1 DEF NoEdges
    <3> QED
      BY <2>1, <3>2
  <2>3. CASE j = i
    <3>1. j \in 0..i /\ P2[j] = P[j]
      BY <2>3, <1>3 DEF Continues
    <3>2. g[P[j]][l] \in reg \cup {NULL}
      BY <2>3, <3>1, <1>3, <1>6
    <3>3. g[P[j]][l] # NULL => j < m /\ l <= b[j + 1]
      BY <3>1, <1>6
    <3>4. ASSUME j < m, l <= b[j + 1] PROVE j < n /\ l <= w[j + 1]
      <4>1. j < n /\ b[j + 1] < w[j + 1]
        BY <2>3, <3>4, <1>3
      <4>2. j + 1 \in 1..n /\ j + 1 \in 1..m
        BY <4>1, <3>4
      <4>3. w[j + 1] \in Nat /\ b[j + 1] \in Nat /\ l \in Nat
        BY <4>2, <1>1, <1>2, ElementOfSeq, LetterAssumption
      <4> QED
        BY <4>1, <4>3, <3>4
    <3> QED
      BY <2>1, <3>1, <3>2, <3>3, <3>4
  <2>4. CASE j \in 0..i /\ j < i
    <3>1. P2[j] = P[j] /\ j < n /\ j + 1 \in 1..i
      BY <2>4, <1>3 DEF Continues
    <3>2. b[j + 1] = w[j + 1]
      BY <3>1, <1>3
    <3>3. g[P[j]][l] \in reg \cup {NULL} /\ (g[P[j]][l] # NULL => l <= w[j + 1])
      BY <2>4, <3>1, <3>2, <1>6, <1>8
    <3> QED
      BY <2>1, <3>1, <3>3
  <2>5. j \in (i + 1)..n \/ j = i \/ (j \in 0..i /\ j < i)
    BY <1>3
  <2> QED
    BY <2>2, <2>3, <2>4, <2>5
<1>9. ASSUME NEW j \in 0..n, NEW l \in Letter, j < n, l = w[j + 1]
      PROVE  g2[P2[j]][l] = P2[j + 1]
  <2>1. CASE i <= j
    BY <2>1, <1>5, <1>9
  <2>2. CASE ~ (i <= j)
    <3>1. j < i /\ j \in 0..i /\ j + 1 \in 0..i /\ j + 1 \in 1..i
      BY <2>2, <1>3
    <3>2. P2[j] = P[j] /\ P2[j + 1] = P[j + 1] /\ b[j + 1] = w[j + 1]
      BY <3>1, <1>3 DEF Continues
    <3>3. g[P2[j]][l] = P2[j + 1]
      BY <3>1, <3>2, <1>6, <1>9
    <3>4. g2[P2[j]][l] = g[P2[j]][l]
      <4>1. ASSUME NEW k \in Nat, i <= k, k < n PROVE P2[j] # P2[k]
        <5>1. k \in 0..n /\ k # j
          BY <4>1, <2>2
        <5> QED
          BY <5>1, <1>4
      <4>2. P2[j] \in Node
        BY <1>4
      <4> QED
        BY <4>1, <4>2, <1>5
    <3> QED
      BY <3>3, <3>4
  <2> QED
    BY <2>1, <2>2
<1> QED
  BY <1>1, <1>7, <1>8, <1>9 DEF EdgesGrown

LEMMA GrownShape ==
  ASSUME NEW b \in Seq(Letter), NEW w \in Seq(Letter), NEW g, NEW f, NEW reg, NEW P, NEW i,
         Shape(g, f, reg, b, P, i), Parts(b, w, i),
         NEW P2, Continues(P2, g, f, reg, P, i, w),
         NEW g2, IsExtended(g2, g, P2, w, i, Len(w)),
         NEW f2, f2 = [f EXCEPT ![P2[Len(w)]] = TRUE]
  PROVE  Shape(g2, f2, reg, w, P2, Len(w))
<1>1. PICK n \in Nat : n = Len(w)
  BY LenProperties
<1>2. /\ \A j \in 0..n : P2[j] \in Node \ reg
      /\ \A j, k \in 0..n : P2[j] = P2[k] => j = k
  BY <1>1, ContinuedPath
<1>3. EdgesGrown(g2, g, reg, w, P2)
  BY GrownEdges
<1>4. g2 \in [Node -> [Letter -> Node \cup {NULL}]] /\ f2 \in [Node -> BOOLEAN] /\ reg \subseteq Node
  BY <1>1, <1>2 DEF IsExtended, Shape
<1>5. P2[0] = q0
  <2>1. 0 \in 0..i /\ P[0] = q0
    BY DEF Shape, Parts
  <2> QED
    BY <2>1 DEF Continues
<1>6. \A r \in reg, l \in Letter : g2[r][l] \in reg \cup {NULL}
  BY <1>3 DEF EdgesGrown, Shape
<1>7. ASSUME NEW j \in 0..n, NEW l \in Letter
      PROVE  /\ g2[P2[j]][l] \in reg \cup {NULL} \/ (j < n /\ l = w[j + 1])
             /\ g2[P2[j]][l] # NULL => j < n /\ l <= w[j + 1]
             /\ j < n /\ l = w[j + 1] => g2[P2[j]][l] = P2[j + 1]
  <2>1. CASE j < n /\ l = w[j + 1] /\ g2[P2[j]][l] = P2[j + 1]
    <3>1. l \in Nat
      BY LetterAssumption
    <3> QED
      BY <2>1, <3>1
  <2>2. CASE /\ ~ (j < n /\ l = w[j + 1])
             /\ g2[P2[j]][l] = g[P2[j]][l] /\ g[P2[j]][l] \in reg \cup {NULL}
             /\ g[P2[j]][l] # NULL => j < n /\ l <= w[j + 1]
    BY <2>2
  <2> QED
    BY <2>1, <2>2, <1>1, <1>3 DEF EdgesGrown
<1>8. n \in 0..n
  OBVIOUS
<1> QED
  BY <1>1, <1>2, <1>4, <1>5, <1>6, <1>7, <1>8 DEF Shape

(***************************************************************************)
(* The rest of a word.                                                     *)
(***************************************************************************)
Rest(w, j) == SubSeq(w, j + 1, Len(w))

IsRestOf(v, w, j) ==
  v \in Seq(Letter) /\ Len(v) = Len(w) - j /\ \A k \in 1..(Len(w) - j) : v[k] = w[j + k]

LEMMA RestIs ==
  ASSUME NEW w \in Seq(Letter), NEW j \in 0..Len(w)
  PROVE  IsRestOf(Rest(w, j), w, j)
<1>1. PICK v : v = SubSeq(w, j + 1, Len(w))
  OBVIOUS
<1>2. Len(w) \in Nat
  BY LenProperties
<1>3. IsRest(v, w, j, Run(<<>>, Run(<<>>, 0, w)[j], v), Run(<<>>, 0, w))
  BY <1>1, RunFrom
<1>4. IsRestOf(v, w, j)
  <2>1. /\ v \in Seq(Letter) /\ Len(v) = Len(w) - j /\ \A k \in 1..Len(v) : v[k] = w[j + k]
    BY <1>3 DEF IsRest
  <2> QED
    BY <2>1 DEF IsRestOf
<1> QED
  BY <1>1, <1>4 DEF Rest

IsLetterByLetter(v, w, j) ==
  /\ v \in Seq(Letter)
  /\ j = Len(w) => v = <<>>
  /\ j = 0 => v = w
  /\ j < Len(w) => v = More(w[j + 1], Rest(w, j + 1))

LEMMA RestOfRest ==
  ASSUME NEW w \in Seq(Letter), NEW j \in 0..Len(w)
  PROVE  IsLetterByLetter(Rest(w, j), w, j)
<1>1. PICK n \in Nat : n = Len(w)
  BY LenProperties
<1>2. PICK v : v = Rest(w, j)
  OBVIOUS
<1>3. v \in Seq(Letter) /\ Len(v) = n - j /\ \A k \in 1..(n - j) : v[k] = w[j + k]
  <2>1. IsRestOf(v, w, j)
    BY <1>2, RestIs
  <2> QED
    BY <2>1, <1>1 DEF IsRestOf
<1>4. ASSUME j = n PROVE v = <<>>
  <2>1. Len(v) = 0
    BY <1>3, <1>4
  <2> QED
    BY <2>1, <1>3, EmptySeq
<1>5. ASSUME j = 0 PROVE v = w
  <2>1. Len(v) = Len(w) /\ \A k \in 1..Len(v) : v[k] = w[k]
    <3>1. n - j = n /\ \A k \in 1..n : j + k = k
      BY <1>5
    <3> QED
      BY <3>1, <1>1, <1>3
  <2> QED
    BY <2>1, <1>3, SeqEqual
<1>6. ASSUME j < n PROVE v = More(w[j + 1], Rest(w, j + 1))
  <2>1. PICK i \in 0..n : i = j + 1
    BY <1>6, <1>1
  <2>2. PICK u : u = Rest(w, i)
    OBVIOUS
  <2>3. u \in Seq(Letter) /\ Len(u) = n - i /\ \A k \in 1..(n - i) : u[k] = w[i + k]
    <3>1. IsRestOf(u, w, i)
      BY <2>1, <2>2, <1>1, RestIs
    <3> QED
      BY <3>1, <1>1 DEF IsRestOf
  <2>4. PICK c \in Letter : c = w[i]
    <3>1. i \in 1..n
      BY <2>1, <1>1
    <3> QED
      BY <3>1, <1>1, ElementOfSeq
  <2>5. PICK x : x = More(c, u)
    OBVIOUS
  <2>6. /\ x \in Seq(Letter) /\ Len(x) = (n - i) + 1 /\ x[1] = c
        /\ \A k \in 1..(n - i) : x[k + 1] = u[k]
    <3>1. IsMore(x, c, u)
      BY <2>3, <2>5, MoreFacts
    <3> QED
      BY <3>1, <2>3 DEF IsMore
  <2>7. Len(x) = Len(v)
    BY <2>1, <2>6, <1>1, <1>3
  <2>8. ASSUME NEW k \in 1..Len(v) PROVE x[k] = v[k]
    <3>1. CASE k = 1
      BY <3>1, <2>1, <2>4, <2>6, <1>1, <1>3
    <3>2. CASE k # 1
      <4>1. PICK y \in 1..(n - i) : y + 1 = k /\ i + y = j + k
        <5>1. k - 1 \in 1..(n - i) /\ (k - 1) + 1 = k /\ i + (k - 1) = j + k
          BY <3>2, <2>1, <1>1, <1>3
        <5> QED
          BY <5>1
      <4>2. x[k] = w[i + y]
        BY <4>1, <2>3, <2>6
      <4>3. v[k] = w[j + k]
        BY <1>3
      <4> QED
        BY <4>1, <4>2, <4>3
    <3> QED
      BY <3>1, <3>2
  <2>9. x = v
    BY <2>6, <2>7, <2>8, <1>3, SeqEqual
  <2> QED
    BY <2>1, <2>2, <2>4, <2>5, <2>9
<1> QED
  BY <1>1, <1>2, <1>3, <1>4, <1>5, <1>6 DEF IsLetterByLetter

(***************************************************************************)
(* What the nodes accept then: those of the register what they did, those  *)
(* on the path of w also the rest of w.                                    *)
(***************************************************************************)
LEMMA BlankReads ==
  ASSUME NEW g, NEW f, NEW n, n # NULL, g[n] = NoEdges, f[n] = FALSE
  PROVE  Read(g, f, n) = {}
<1> SUFFICES ASSUME NEW w \in Read(g, f, n) PROVE FALSE
  OBVIOUS
<1>1. w \in Seq(Letter)
  BY DEF Read
<1>2. w # <<>>
  BY ReadNothing
<1>3. PICK l \in Letter, u \in Seq(Letter) : w = More(l, u)
  BY <1>1, <1>2, MoreOfWord
<1>4. u \in Read(g, f, g[n][l])
  BY <1>3, ReadMore
<1>5. g[n][l] = NULL
  BY DEF NoEdges
<1> QED
  BY <1>4, <1>5, ReadNull

SameOn(reg, g2, f2, g, f) ==
  /\ f \in [Node -> BOOLEAN] /\ reg \subseteq Node
  /\ \A r \in reg, l \in Letter : g[r][l] \in reg \cup {NULL}
  /\ \A r \in reg : f2[r] = f[r]
  /\ \A r \in reg, l \in Letter : g2[r][l] = g[r][l]

LEMMA RegisterReads ==
  ASSUME NEW g, NEW f, NEW reg, NEW g2, NEW f2, SameOn(reg, g2, f2, g, f)
  PROVE  \A r \in reg \cup {NULL} : Read(g2, f2, r) = Read(g, f, r)
<1> USE DEF SameOn
<1>1. PICK R : R = {<<n, n>> : n \in reg \cup {NULL}}
  OBVIOUS
<1>2. \A x, y : <<x, y>> \in R <=> x = y /\ x \in reg \cup {NULL}
  BY <1>1
<1>3. Alike(R, g, f, g2, f2)
  <2> SUFFICES ASSUME NEW n \in reg
               PROVE  /\ n # NULL /\ f[n] \in BOOLEAN /\ f2[n] = f[n]
                      /\ \A l \in Letter : <<g[n][l], g2[n][l]>> \in R
    BY <1>2 DEF Alike
  <2>1. n # NULL /\ f[n] \in BOOLEAN /\ f2[n] = f[n]
    BY NodeAssumption
  <2>2. \A l \in Letter : <<g[n][l], g2[n][l]>> \in R
    BY <1>2
  <2> QED
    BY <2>1, <2>2
<1>4. ASSUME NEW r \in reg \cup {NULL} PROVE Read(g2, f2, r) = Read(g, f, r)
  <2>1. <<r, r>> \in R
    BY <1>2
  <2> QED
    BY <2>1, <1>3, ReadAlike
<1> QED
  BY <1>4

Gains(g2, f2, g, f, P, w, j) ==
  Read(g2, f2, P[j]) = Read(g, f, P[j]) \cup {Rest(w, j)}

ReadsGrown(g2, f2, g, f, reg, P, w) ==
  /\ \A r \in reg : Read(g2, f2, r) = Read(g, f, r)
  /\ \A j \in 0..Len(w) : Gains(g2, f2, g, f, P, w, j)

LEMMA GrownReads ==
  ASSUME NEW b \in Seq(Letter), NEW w \in Seq(Letter), NEW g, NEW f, NEW reg, NEW P, NEW i,
         Shape(g, f, reg, b, P, i), Parts(b, w, i),
         NEW P2, Continues(P2, g, f, reg, P, i, w),
         NEW g2, IsExtended(g2, g, P2, w, i, Len(w)),
         NEW f2, f2 = [f EXCEPT ![P2[Len(w)]] = TRUE]
  PROVE  ReadsGrown(g2, f2, g, f, reg, P2, w)
<1>1. PICK n \in Nat : n = Len(w)
  BY LenProperties
<1>2. /\ \A j \in 0..n : P2[j] \in Node \ reg
      /\ \A j, k \in 0..n : P2[j] = P2[k] => j = k
  BY <1>1, ContinuedPath
<1>3. /\ g \in [Node -> [Letter -> Node \cup {NULL}]] /\ f \in [Node -> BOOLEAN]
      /\ reg \in SUBSET Node /\ n \in 0..n /\ NULL \notin Node
      /\ \A r \in reg, l \in Letter : g[r][l] \in reg \cup {NULL}
  BY NodeAssumption DEF Shape
<1>4. /\ \A r \in reg, l \in Letter : g2[r][l] = g[r][l]
      /\ \A j \in 0..n, l \in Letter :
           \/ j < n /\ l = w[j + 1] /\ g2[P2[j]][l] = P2[j + 1]
           \/ /\ ~ (j < n /\ l = w[j + 1])
              /\ g2[P2[j]][l] = g[P2[j]][l] /\ g[P2[j]][l] \in reg \cup {NULL}
  <2>1. EdgesGrown(g2, g, reg, w, P2)
    BY GrownEdges
  <2> QED
    BY <2>1, <1>1 DEF EdgesGrown
<1>5. /\ f2[P2[n]] = TRUE /\ f2 \in [Node -> BOOLEAN]
      /\ \A x \in Node : x # P2[n] => f2[x] = f[x]
  BY <1>1, <1>2, <1>3
<1>6. \A r \in reg \cup {NULL} : Read(g2, f2, r) = Read(g, f, r)
  <2>1. ASSUME NEW r \in reg PROVE f2[r] = f[r]
    <3>1. r \in Node /\ P2[n] \notin reg
      BY <1>2, <1>3
    <3> QED
      BY <3>1, <1>5
  <2>2. \A r \in reg, l \in Letter : g2[r][l] = g[r][l]
    BY <1>4
  <2>3. SameOn(reg, g2, f2, g, f)
    BY <2>1, <2>2, <1>3 DEF SameOn
  <2> QED
    BY <2>3, RegisterReads
<1>7. ASSUME NEW j \in 0..n, j < n
      PROVE  Read(g, f, g[P2[j]][w[j + 1]]) = Read(g, f, P2[j + 1])
  <2>1. i \in 0..n /\ i \in Nat /\ j + 1 \in 0..n /\ j + 1 \in 1..n /\ w[j + 1] \in Letter
    BY <1>1, <1>7, ElementOfSeq DEF Parts
  <2>2. CASE j < i
    <3>1. j \in 0..i /\ j + 1 \in 0..i /\ j + 1 \in 1..i
      BY <2>1, <2>2
    <3>2. P2[j] = P[j] /\ P2[j + 1] = P[j + 1] /\ w[j + 1] = b[j + 1]
      BY <3>1 DEF Continues, Parts
    <3>3. g[P[j]][w[j + 1]] = P[j + 1]
      BY <2>1, <2>2, <3>1, <3>2 DEF Shape
    <3> QED
      BY <3>2, <3>3
  <2>3. CASE ~ (j < i)
    <3>1. j + 1 \in (i + 1)..Len(w)
      BY <2>1, <2>3, <1>1, <1>7
    <3>2. g[P2[j + 1]] = NoEdges /\ f[P2[j + 1]] = FALSE /\ P2[j + 1] # NULL
      BY <3>1, <2>1, <1>2, <1>3 DEF Continues
    <3>3. Read(g, f, P2[j + 1]) = {}
      BY <3>2, BlankReads
    <3>4. g[P2[j]][w[j + 1]] = NULL
      <4>1. CASE j = i
        <5>1. P2[j] = P[i] /\ i \in 0..i
          BY <4>1, <2>1 DEF Continues
        <5>2. g[P[i]][w[i + 1]] # NULL => i < Len(b) /\ w[i + 1] <= b[i + 1]
          BY <5>1, <4>1, <2>1 DEF Shape
        <5>3. ASSUME i < Len(b), w[i + 1] <= b[i + 1] PROVE FALSE
          <6>1. b[i + 1] < w[i + 1]
            BY <5>3, <4>1, <1>1, <1>7 DEF Parts
          <6>2. w[i + 1] \in Nat
            BY <4>1, <2>1, LetterAssumption
          <6>3. b[i + 1] \in Nat
            <7>1. i + 1 \in 1..Len(b)
              BY <5>3, <2>1, LenProperties
            <7> QED
              BY <7>1, ElementOfSeq, LetterAssumption
          <6> QED
            BY <5>3, <6>1, <6>2, <6>3
        <5> QED
          BY <4>1, <5>1, <5>2, <5>3
      <4>2. CASE j # i
        <5>1. j \in (i + 1)..Len(w)
          BY <4>2, <2>1, <2>3, <1>1, <1>7
        <5>2. g[P2[j]] = NoEdges
          BY <5>1 DEF Continues
        <5> QED
          BY <5>2, <2>1 DEF NoEdges
      <4> QED
        BY <4>1, <4>2
    <3> QED
      BY <3>3, <3>4, ReadNull
  <2> QED
    BY <2>2, <2>3
<1> DEFINE Bad == {k \in 0..n : ~ Gains(g2, f2, g, f, P2, w, n - k)}
<1>8. Bad = {}
  <2> SUFFICES ASSUME Bad # {} PROVE FALSE
    OBVIOUS
  <2>1. PICK k \in Bad : \A x \in Bad : k <= x
    <3>1. Bad \subseteq Nat
      OBVIOUS
    <3> HIDE DEF Bad
    <3> QED
      BY <3>1, LeastNatural
  <2>2. PICK j \in 0..n : j = n - k
    <3>1. n - k \in 0..n
      BY <2>1
    <3> QED
      BY <3>1
  <2>3. PICK x \in Node : x = P2[j]
    BY <1>2
  <2>4. x # NULL /\ f[x] \in BOOLEAN
    BY <1>3
  <2>5. CASE k = 0
    <3>1. j = n
      BY <2>2, <2>5
    <3>2. ASSUME NEW l \in Letter PROVE Read(g2, f2, g2[x][l]) = Read(g, f, g[x][l])
      <4>1. g2[x][l] = g[x][l] /\ g[x][l] \in reg \cup {NULL}
        BY <3>1, <2>3, <1>3, <1>4
      <4> QED
        BY <4>1, <1>6
    <3>3. f2[x] = TRUE
      BY <3>1, <2>3, <1>5
    <3>4. \A l \in Letter : Read(g2, f2, g2[x][l]) = Read(g, f, g[x][l])
      BY <3>2
    <3>5. Read(g2, f2, x) = Read(g, f, x) \cup {<<>>}
      <4>1. HasFlagMore(g2, f2, x, g, f, x)
        BY <3>3, <3>4, <2>4 DEF HasFlagMore
      <4> QED
        BY <4>1, FlagMore
    <3>6. Rest(w, j) = <<>>
      <4>1. IsLetterByLetter(Rest(w, j), w, j)
        BY <1>1, RestOfRest
      <4> QED
        BY <4>1, <3>1, <1>1 DEF IsLetterByLetter
    <3>7. Gains(g2, f2, g, f, P2, w, j)
      BY <3>5, <3>6, <2>3 DEF Gains
    <3> QED
      BY <3>7, <2>1, <2>2
  <2>6. CASE k # 0
    <3>1. /\ k - 1 \in 0..n /\ n - (k - 1) = j + 1 /\ j + 1 \in 0..n
          /\ j + 1 \in 1..n /\ j < n /\ j # n /\ ~ (k <= k - 1)
      <4>1. k \in 0..n
        BY <2>1
      <4> QED
        BY <4>1, <2>2, <2>6
    <3>2. Gains(g2, f2, g, f, P2, w, j + 1)
      <4>1. k - 1 \notin Bad
        BY <3>1, <2>1
      <4>2. Gains(g2, f2, g, f, P2, w, n - (k - 1))
        BY <4>1, <3>1
      <4> QED
        BY <4>2, <3>1
    <3>3. PICK c \in Letter : c = w[j + 1]
      BY <3>1, <1>1, ElementOfSeq
    <3>4. IsLetterByLetter(Rest(w, j), w, j) /\ IsLetterByLetter(Rest(w, j + 1), w, j + 1)
      BY <3>1, <1>1, RestOfRest
    <3>5. PICK v \in Seq(Letter) : v = Rest(w, j + 1)
      BY <3>4 DEF IsLetterByLetter
    <3>6. Read(g2, f2, g2[x][c]) = Read(g, f, g[x][c]) \cup {v}
      <4>1. g2[x][c] = P2[j + 1]
        BY <3>1, <3>3, <2>3, <1>4
      <4>2. Read(g, f, g[x][c]) = Read(g, f, P2[j + 1])
        BY <3>1, <3>3, <2>3, <1>7
      <4>3. Read(g2, f2, P2[j + 1]) = Read(g, f, P2[j + 1]) \cup {v}
        BY <3>2, <3>5 DEF Gains
      <4> QED
        BY <4>1, <4>2, <4>3
    <3>7. ASSUME NEW l \in Letter \ {c} PROVE Read(g2, f2, g2[x][l]) = Read(g, f, g[x][l])
      <4>1. g2[x][l] = g[x][l] /\ g[x][l] \in reg \cup {NULL}
        BY <3>3, <2>3, <1>4
      <4> QED
        BY <4>1, <1>6
    <3>8. f2[x] = f[x]
      <4>1. x # P2[n]
        BY <3>1, <2>3, <1>2, <1>3
      <4> QED
        BY <4>1, <1>5
    <3>9. \A l \in Letter \ {c} : Read(g2, f2, g2[x][l]) = Read(g, f, g[x][l])
      BY <3>7
    <3>10. Read(g2, f2, x) = Read(g, f, x) \cup {More(c, v)}
      <4>1. HasWordMore(g2, f2, x, g, f, x, c, v)
        BY <3>6, <3>8, <3>9, <2>4 DEF HasWordMore
      <4> QED
        BY <4>1, WordMore
    <3>11. Rest(w, j) = More(c, v)
      BY <3>1, <3>3, <3>4, <3>5, <1>1 DEF IsLetterByLetter
    <3>12. Gains(g2, f2, g, f, P2, w, j)
      BY <3>10, <3>11, <2>3 DEF Gains
    <3> QED
      BY <3>12, <2>1, <2>2
  <2> QED
    BY <2>5, <2>6
<1>9. ASSUME NEW j \in 0..n PROVE Gains(g2, f2, g, f, P2, w, j)
  <2>1. n - j \in 0..n /\ n - (n - j) = j
    OBVIOUS
  <2>2. Gains(g2, f2, g, f, P2, w, n - (n - j))
    BY <2>1, <1>8
  <2> QED
    BY <2>1, <2>2
<1> QED
  BY <1>1, <1>6, <1>9 DEF ReadsGrown

IsMarked(f2, f, n) == f2 = [f EXCEPT ![n] = TRUE]

Grown(g2, f2, g, f, reg, w, P) ==
  Built(g2, f2, reg, w, P, Len(w)) /\ Read(g2, f2, q0) = Read(g, f, q0) \cup {w}

LEMMA GrownBuilt ==
  ASSUME NEW b \in Seq(Letter), NEW w \in Word, NEW g, NEW f, NEW reg, NEW P, NEW i,
         Built(g, f, reg, b, P, i), Parts(b, w, i),
         NEW P2, Continues(P2, g, f, reg, P, i, w),
         NEW g2, IsExtended(g2, g, P2, w, i, Len(w)),
         NEW f2, IsMarked(f2, f, P2[Len(w)])
  PROVE  Grown(g2, f2, g, f, reg, w, P2)
<1> USE DEF IsMarked
<1>1. w \in Seq(Letter)
  BY WordAssumption
<1>2. PICK n \in Nat : n = Len(w)
  BY <1>1, LenProperties
<1>3. Shape(g, f, reg, b, P, i) /\ Meaning(g, f, reg, P, i)
  BY DEF Built
<1>4. Shape(g2, f2, reg, w, P2, n)
  BY <1>1, <1>2, <1>3, GrownShape
<1>5. /\ \A r \in reg : Read(g2, f2, r) = Read(g, f, r)
      /\ \A j \in 0..n : Gains(g2, f2, g, f, P2, w, j)
  <2>1. ReadsGrown(g2, f2, g, f, reg, P2, w)
    BY <1>1, <1>3, GrownReads
  <2> QED
    BY <2>1, <1>2 DEF ReadsGrown
<1>6. i \in 0..n /\ i \in Nat
  BY <1>2 DEF Parts
<1>7. ASSUME NEW j \in 0..n PROVE Read(g2, f2, P2[j]) # {} /\ Read(g2, f2, P2[j]) \subseteq Universe
  <2>1. Read(g2, f2, P2[j]) = Read(g, f, P2[j]) \cup {Rest(w, j)}
    BY <1>5 DEF Gains
  <2>2. Rest(w, j) \in Universe
    BY <1>2, SuffixAssumption DEF Rest
  <2>3. Read(g, f, P2[j]) \subseteq Universe
    <3>1. CASE j \in 0..i
      <4>1. P2[j] = P[j]
        BY <3>1 DEF Continues
      <4> QED
        BY <4>1, <3>1, <1>3 DEF Meaning
    <3>2. CASE j \in (i + 1)..n
      <4>1. P2[j] \in Node /\ g[P2[j]] = NoEdges /\ f[P2[j]] = FALSE
        BY <3>2, <1>2 DEF Continues
      <4>2. P2[j] # NULL
        BY <4>1, NodeAssumption
      <4>3. Read(g, f, P2[j]) = {}
        BY <4>1, <4>2, BlankReads
      <4> QED
        BY <4>3
    <3>3. j \in 0..i \/ j \in (i + 1)..n
      BY <1>6
    <3> QED
      BY <3>1, <3>2, <3>3
  <2> QED
    BY <2>1, <2>2, <2>3
<1>8. Meaning(g2, f2, reg, P2, n)
  BY <1>3, <1>5, <1>7 DEF Meaning
<1>9. Read(g2, f2, q0) = Read(g, f, q0) \cup {w}
  <2>1. P2[0] = q0 /\ 0 \in 0..n
    BY <1>4 DEF Shape
  <2>2. Gains(g2, f2, g, f, P2, w, 0)
    BY <2>1, <1>5
  <2>3. Rest(w, 0) = w
    <3>1. IsLetterByLetter(Rest(w, 0), w, 0)
      BY <2>1, <1>1, <1>2, RestOfRest
    <3> QED
      BY <3>1 DEF IsLetterByLetter
  <2> QED
    BY <2>1, <2>2, <2>3 DEF Gains
<1> QED
  BY <1>2, <1>4, <1>8, <1>9 DEF Built, Grown

-----------------------------------------------------------------------------
(***************************************************************************)
(* The steps                                                               *)
(***************************************************************************)

(***************************************************************************)
(* The path is the run of the word.                                        *)
(***************************************************************************)
AgreeTo(Q, P, d) == \A k \in 0..d : Q[k] = P[k]

LEMMA PathIsRun ==
  ASSUME NEW g, NEW f, NEW reg, NEW b \in Seq(Letter), NEW P, NEW d, Built(g, f, reg, b, P, d)
  PROVE  AgreeTo(Run(g, q0, b), P, d)
<1>1. Shape(g, f, reg, b, P, d)
  BY DEF Built
<1>2. d \in 0..Len(b) /\ P[0] = q0 /\ Len(b) \in Nat
  BY <1>1, LenProperties DEF Shape
<1>3. ASSUME NEW k \in 1..d PROVE P[k] = GetChild(g, P[k - 1], b[k])
  <2>1. k - 1 \in 0..d /\ k - 1 < d /\ (k - 1) + 1 = k /\ k \in 1..Len(b)
    BY <1>2
  <2>2. b[k] \in Letter
    BY <2>1, ElementOfSeq
  <2>3. g[P[k - 1]][b[k]] = P[k] /\ P[k - 1] \in Node
    BY <2>1, <2>2, <1>1 DEF Shape
  <2> QED
    BY <2>3, NodeAssumption DEF GetChild
<1>4. Follows(P, g, q0, b, d)
  BY <1>2, <1>3 DEF Follows
<1>5. \A k \in 0..d : Run(g, q0, b)[k] = P[k]
  BY <1>2, <1>4, RunUnique
<1> QED
  BY <1>5 DEF AgreeTo

LEMMA SamePath ==
  ASSUME NEW g, NEW f, NEW reg, NEW b \in Seq(Letter), NEW P, NEW d, Built(g, f, reg, b, P, d),
         NEW Q, AgreeTo(Q, P, d)
  PROVE  Built(g, f, reg, b, Q, d)
<1> USE DEF AgreeTo
<1>1. d \in 0..Len(b) /\ Len(b) \in Nat
  BY LenProperties DEF Built, Shape
<1>2. /\ Shape(g, f, reg, b, P, d) /\ Meaning(g, f, reg, P, d)
      /\ 0 \in 0..d /\ \A j \in 0..d : j < d => j + 1 \in 0..d
  BY <1>1 DEF Built
<1>3. \A j \in 0..d : Q[j] \in Node \ reg
  BY <1>2 DEF Shape
<1>4. \A j, k \in 0..d : Q[j] = Q[k] => j = k
  BY <1>2 DEF Shape
<1>5. ASSUME NEW j \in 0..d, NEW l \in Letter
      PROVE  /\ g[Q[j]][l] \in reg \cup {NULL} \/ (j < d /\ l = b[j + 1])
             /\ g[Q[j]][l] # NULL => j < Len(b) /\ l <= b[j + 1]
             /\ j < d /\ l = b[j + 1] => g[Q[j]][l] = Q[j + 1]
  BY <1>2 DEF Shape
<1>6. Shape(g, f, reg, b, Q, d)
  BY <1>2, <1>3, <1>4, <1>5 DEF Shape
<1>7. Meaning(g, f, reg, Q, d)
  BY <1>2 DEF Meaning
<1> QED
  BY <1>6, <1>7 DEF Built

(***************************************************************************)
(* A graph that a call has built, without the objects nothing refers to.   *)
(***************************************************************************)
IsSettled(g, f, b, d) ==
  /\ Built(children', final', register', b, Run(children', q0, b), d)
  /\ Read(children', final', q0) = Read(g, f, q0)
  /\ \A n \in Node \ Used' : children'[n] = NoEdges /\ final'[n] = FALSE

LEMMA Settles ==
  ASSUME NEW g, NEW f, NEW reg, NEW b \in Seq(Letter), NEW P, NEW d,
         Built(g, f, reg, b, P, d), Becomes(g, f, reg)
  PROVE  IsSettled(g, f, b, d)
<1>1. Shape(g, f, reg, b, P, d)
  BY DEF Built
<1>2. PICK H : H = Held(reg, P, d)
  OBVIOUS
<1>3. H = Behind(g, {q0} \cup reg)
  BY <1>1, <1>2, HeldIsUsed
<1>4. H \subseteq Node /\ q0 \in H
  BY <1>1, <1>2, HeldClosed
<1>5. PICK g3 : g3 = children'
  OBVIOUS
<1>6. PICK f3 : f3 = final'
  OBVIOUS
<1>7. /\ g3 = [n \in Node |-> IF n \in H THEN g[n] ELSE NoEdges]
      /\ f3 = [n \in Node |-> f[n] /\ n \in H]
      /\ register' = reg
  BY <1>3, <1>5, <1>6 DEF Becomes
<1>8. g \in [Node -> [Letter -> Node \cup {NULL}]] /\ f \in [Node -> BOOLEAN]
  BY <1>1 DEF Shape
<1>9. g3 \in [Node -> [Letter -> Node \cup {NULL}]] /\ f3 \in [Node -> BOOLEAN]
  <2>1. NoEdges \in [Letter -> Node \cup {NULL}]
    BY DEF NoEdges
  <2> QED
    BY <2>1, <1>7, <1>8
<1>10. \A n \in H : g3[n] = g[n] /\ f3[n] = f[n]
  BY <1>4, <1>7, <1>8
<1>11. Built(g3, f3, reg, b, P, d) /\ \A n \in H : Read(g3, f3, n) = Read(g, f, n)
  <2>1. EqualOn(H, g3, f3, g, f)
    BY <1>9, <1>10 DEF EqualOn
  <2>2. Built(g3, f3, reg, b, P, d) /\ ReadEqually(H, g3, f3, g, f)
    BY <2>1, <1>2, OnlyHeldMatters
  <2> QED
    BY <2>2 DEF ReadEqually
<1>12. PICK Q : Q = Run(g3, q0, b)
  OBVIOUS
<1>13. Built(g3, f3, reg, b, Q, d)
  <2>1. AgreeTo(Q, P, d)
    BY <1>11, <1>12, PathIsRun
  <2> QED
    BY <2>1, <1>11, SamePath
<1>14. Behind(g3, {q0} \cup reg) = H
  BY <1>2, <1>11, HeldIsUsed DEF Built
<1>15. Used' = H
  BY <1>5, <1>7, <1>14 DEF Used
<1>16. \A n \in Node \ H : g3[n] = NoEdges /\ f3[n] = FALSE
  BY <1>7
<1> QED
  BY <1>4, <1>5, <1>6, <1>7, <1>11, <1>12, <1>13, <1>15, <1>16 DEF IsSettled

LEMMA HoldingStep ==
  ASSUME NEW g, NEW f, NEW b, NEW d, IsSettled(g, f, b, d), wp' = b, d = Depth',
         wp' \in Seq(Letter), frozen' \in BOOLEAN, added' \subseteq Word, IsFiniteSet(added'),
         wp' # <<>> => wp' \in added',
         Read(g, f, q0) = added'
  PROVE  Holding'
<1>1. Built(children', final', register', wp', LastPath', Depth')
  BY DEF IsSettled, LastPath
<1>2. Read(children', final', q0) = added'
  BY DEF IsSettled
<1>3. \A n \in Node \ Used' : children'[n] = NoEdges /\ final'[n] = FALSE
  BY DEF IsSettled
<1> QED
  BY <1>1, <1>2, <1>3 DEF Holding

LEMMA PathIsUsed ==
  ASSUME Holding, ~ frozen
  PROVE  /\ Built(children, final, register, wp, LastPath, Len(wp))
         /\ Used = Held(register, LastPath, Len(wp))
<1>1. Built(children, final, register, wp, LastPath, Len(wp))
  BY DEF Holding, Depth
<1>2. wp \in Seq(Letter)
  BY DEF Holding
<1>3. Shape(children, final, register, wp, LastPath, Len(wp))
  BY <1>1 DEF Built
<1> QED
  BY <1>1, <1>2, <1>3, HeldIsUsed DEF Used

(***************************************************************************)
(* What is left of the previous word's path.                               *)
(***************************************************************************)
LEMMA SuffixRegistered ==
  ASSUME Holding, ~ frozen, NEW i \in 0..Len(wp), NEW m,
         m = ReplaceOrRegister(LastPath[i], SubSeq(wp, i + 1, Len(wp)))
  PROVE  KeptTo(m, i) /\ Within(m, Used)
<1>1. PICK v : v = SubSeq(wp, i + 1, Len(wp))
  OBVIOUS
<1>2. wp \in Seq(Letter)
  BY DEF Holding
<1>3. /\ Built(children, final, register, wp, LastPath, Len(wp))
      /\ Used = Held(register, LastPath, Len(wp))
  BY PathIsUsed
<1>4. KeptTo(m, i)
  BY <1>2, <1>3, SuffixWorkedOff
<1>5. /\ Len(v) \in Nat /\ Len(v) = Len(wp) - i
      /\ \A k \in 0..Len(v) : Run(children, LastPath[i], v)[k] = LastPath[i + k]
  <2>1. IsRest(v, wp, i, Run(children, LastPath[i], v), LastPath)
    <3>1. IsRest(v, wp, i, Run(children, Run(children, q0, wp)[i], v), Run(children, q0, wp))
      BY <1>1, <1>2, RunFrom
    <3> QED
      BY <3>1 DEF LastPath
  <2> QED
    BY <2>1 DEF IsRest
<1>6. \A k \in 0..Len(v) : Run(children, LastPath[i], v)[k] \in Used
  <2>1. ASSUME NEW k \in 0..Len(v) PROVE LastPath[i + k] \in Used
    <3>1. i + k \in 0..Len(wp)
      BY <1>2, <1>5, LenProperties
    <3> QED
      BY <3>1, <1>3 DEF Held
  <2> QED
    BY <2>1, <1>5
<1>7. children = [n \in Node |-> children[n]] /\ register \subseteq Used
  BY <1>3 DEF Built, Shape, Held
<1>8. Within(ReplaceOrRegister(LastPath[i], v), Used)
  BY <1>5, <1>6, <1>7, WorkedOffWithin
<1> QED
  BY <1>1, <1>4, <1>8

(***************************************************************************)
(* The path on which add_word_unchecked puts the rest of w.                *)
(***************************************************************************)
NewPath(new, w, i) == [k \in 0..Len(w) |-> IF k <= i THEN LastPath[k] ELSE new[k - i]]

LEMMA NewPathContinues ==
  ASSUME Holding, ~ frozen, NEW w \in Word,
         NEW i, Parts(wp, w, i), NEW m, KeptTo(m, i), Within(m, Used),
         NEW new \in Objects(Len(w) - i, Used)
  PROVE  Continues(NewPath(new, w, i), m.children, final, m.register, LastPath, i, w)
<1>1. PICK n \in Nat : n = Len(w)
  BY WordAssumption, LenProperties
<1>2. i \in 0..n /\ i \in 0..Len(wp) /\ i \in Nat /\ n - i \in 0..n
  BY <1>1 DEF Parts
<1>3. Used = Held(register, LastPath, Len(wp)) /\ Len(wp) \in Nat
  <2>1. wp \in Seq(Letter)
    BY DEF Holding
  <2> QED
    BY <2>1, PathIsUsed, LenProperties
<1>4. Used \subseteq Node
  <2>1. Shape(children, final, register, wp, LastPath, Len(wp)) /\ wp \in Seq(Letter)
    BY PathIsUsed DEF Built, Holding
  <2> QED
    BY <2>1, <1>3, HeldClosed
<1>5. /\ new \in [1..(n - i) -> Node \ Used]
      /\ \A j, k \in 1..(n - i) : j # k => new[j] # new[k]
  <2>1. PICK k \in 0..Len(w) : k = n - i
    BY <1>1, <1>2
  <2>2. PICK u \in SUBSET Node : u = Used
    BY <1>4
  <2>3. new \in Objects(k, u)
    BY <2>1, <2>2, <1>1
  <2>4. new \in [1..k -> Node \ u] /\ \A x, y \in 1..k : x # y => new[x] # new[y]
    BY <2>3, ObjectsAssumption
  <2> QED
    BY <2>1, <2>2, <2>4
<1>6. Held(m.register, LastPath, i) \subseteq Used
  <2>1. m.register \subseteq Used
    BY DEF Within
  <2>2. \A j \in 0..i : j \in 0..Len(wp)
    BY <1>2, <1>3
  <2>3. \A j \in 0..i : LastPath[j] \in Used
    BY <2>2, <1>3 DEF Held
  <2> QED
    BY <2>1, <2>3 DEF Held
<1>7. PICK P2 : P2 = NewPath(new, w, i)
  OBVIOUS
<1>8. \A j \in 0..i : P2[j] = LastPath[j]
  <2>1. \A j \in 0..i : j \in 0..Len(w) /\ j <= i
    BY <1>1, <1>2
  <2> QED
    BY <2>1, <1>7 DEF NewPath
<1>9. ASSUME NEW j \in (i + 1)..n
      PROVE  j - i \in 1..(n - i) /\ P2[j] = new[j - i]
  <2>1. j \in 0..Len(w) /\ ~ (j <= i) /\ j - i \in 1..(n - i)
    BY <1>1, <1>2
  <2> QED
    BY <2>1, <1>7 DEF NewPath
<1>10. ASSUME NEW j \in (i + 1)..n
       PROVE  /\ P2[j] \in Node \ Held(m.register, LastPath, i)
              /\ m.children[P2[j]] = NoEdges /\ final[P2[j]] = FALSE
  <2>1. P2[j] \in Node \ Used
    BY <1>5, <1>9
  <2>2. m.children[P2[j]] = children[P2[j]]
    BY <2>1 DEF Within
  <2> QED
    BY <2>1, <2>2, <1>6 DEF Holding
<1>11. ASSUME NEW j \in (i + 1)..n, NEW k \in (i + 1)..n, P2[j] = P2[k] PROVE j = k
  <2>1. j - i = k - i
    BY <1>5, <1>9, <1>11
  <2> QED
    BY <2>1, <1>2
<1> QED
  BY <1>1, <1>7, <1>8, <1>10, <1>11 DEF Continues

LEMMA AddingHolds ==
  ASSUME Holding, NEW w \in Word, AddWordUnchecked(w)
  PROVE  Holding'
<1>1. w \in Seq(Letter)
  BY WordAssumption
<1>2. PICK n \in Nat : n = Len(w)
  BY <1>1, LenProperties
<1>3. /\ LessEq(wp, w) /\ ~ frozen /\ wp' = w /\ added' = added \cup {w} /\ frozen' = frozen
  BY DEF AddWordUnchecked
<1>4. PICK i : i = Existing(w)
  OBVIOUS
<1>5. wp \in Seq(Letter) /\ Built(children, final, register, wp, LastPath, Len(wp))
  BY <1>3, PathIsUsed DEF Holding
<1>6. Parts(wp, w, i) /\ \A k \in 0..i : Run(children, q0, w)[k] = LastPath[k]
  BY <1>1, <1>3, <1>4, <1>5, PrefixIs DEF Built
<1>7. i \in 0..n /\ i \in 0..Len(wp) /\ i \in Nat /\ i \in 0..i
  BY <1>2, <1>6 DEF Parts
<1>8. PICK s : s = Run(children, q0, w)[i] /\ s = LastPath[i]
  BY <1>6, <1>7
<1>9. PICK m : m = ReplaceOrRegister(s, SubSeq(wp, i + 1, Len(wp)))
  OBVIOUS
<1>10. KeptTo(m, i) /\ Within(m, Used)
  BY <1>3, <1>7, <1>8, <1>9, SuffixRegistered
<1>p. PICK new \in Objects(Len(w) - i, Used) :
        LET path == [k \in i..Len(w) |-> IF k = i THEN s ELSE new[k - i]]
        IN  Becomes(WithSuffix(m.children, path, w, i),
                    [final EXCEPT ![path[Len(w)]] = TRUE], m.register)
  BY <1>4, <1>8, <1>9 DEF AddWordUnchecked
<1>11. PICK path :
         /\ path = [k \in i..Len(w) |-> IF k = i THEN s ELSE new[k - i]]
         /\ Becomes(WithSuffix(m.children, path, w, i),
                    [final EXCEPT ![path[Len(w)]] = TRUE], m.register)
  BY <1>p
<1>12. PICK P2 : P2 = NewPath(new, w, i)
  OBVIOUS
<1>13. Continues(P2, m.children, final, m.register, LastPath, i, w)
  BY <1>3, <1>6, <1>10, <1>12, NewPathContinues
<1>14. ASSUME NEW k \in i..n PROVE path[k] = P2[k]
  <2>1. k \in i..Len(w) /\ k \in 0..Len(w) /\ (k <= i <=> k = i)
    BY <1>2, <1>7
  <2> QED
    BY <2>1, <1>8, <1>11, <1>12 DEF NewPath
<1>15. PICK g : g = m.children
  OBVIOUS
<1>16. PICK reg : reg = m.register
  OBVIOUS
<1>17. Built(g, final, reg, wp, LastPath, i) /\ Read(g, final, q0) = added
  <2>1. \A x \in Node : Read(g, final, x) = Read(children, final, x)
    BY <1>10, <1>15 DEF KeptTo, Kept
  <2> QED
    BY <2>1, <1>10, <1>15, <1>16, NodeAssumption DEF KeptTo, Kept, Holding
<1>18. /\ \A j \in 0..n : P2[j] \in Node
       /\ \A j, k \in 0..n : P2[j] = P2[k] => j = k
  <2>1. Shape(g, final, reg, wp, LastPath, i) /\ Continues(P2, g, final, reg, LastPath, i, w)
    BY <1>13, <1>15, <1>16, <1>17 DEF Built
  <2> QED
    BY <2>1, <1>1, <1>2, <1>5, <1>6, ContinuedPath
<1>19. PICK g2 : g2 = WithSuffix(g, path, w, i)
  OBVIOUS
<1>20. IsExtended(g2, g, P2, w, i, n)
  <2>1. \A k \in i..n : k \in 0..n
    BY <1>7
  <2>2. /\ \A j \in i..n : path[j] \in Node
        /\ \A x, y \in i..n : path[x] = path[y] => x = y
    BY <2>1, <1>14, <1>18
  <2>3. g \in [Node -> [Letter -> Node \cup {NULL}]]
    BY <1>17 DEF Built, Shape
  <2>4. IsExtended(g2, g, path, w, i, n)
    BY <2>2, <2>3, <1>1, <1>2, <1>7, <1>19, SuffixAdded
  <2>5. \A j \in Nat : i <= j /\ j < n => path[j] = P2[j] /\ path[j + 1] = P2[j + 1]
    <3>1. \A j \in Nat : i <= j /\ j < n => j \in i..n /\ j + 1 \in i..n
      BY <1>7
    <3> QED
      BY <3>1, <1>14
  <2> QED
    BY <2>4, <2>5 DEF IsExtended
<1>21. PICK f2 : f2 = [final EXCEPT ![P2[n]] = TRUE]
  OBVIOUS
<1>22. Becomes(g2, f2, reg)
  <2>1. path[Len(w)] = P2[n]
    <3>1. n \in i..n
      BY <1>7
    <3> QED
      BY <3>1, <1>2, <1>14
  <2> QED
    BY <2>1, <1>11, <1>15, <1>16, <1>19, <1>21
<1>23. Built(g2, f2, reg, w, P2, Len(w)) /\ Read(g2, f2, q0) = added \cup {w}
  <2>1. Continues(P2, g, final, reg, LastPath, i, w) /\ IsExtended(g2, g, P2, w, i, Len(w))
    BY <1>2, <1>13, <1>15, <1>16, <1>20
  <2>2. IsMarked(f2, final, P2[Len(w)])
    BY <1>2, <1>21 DEF IsMarked
  <2>3. Grown(g2, f2, g, final, reg, w, P2)
    BY <2>1, <2>2, <1>5, <1>6, <1>17, GrownBuilt
  <2> QED
    BY <2>3, <1>17 DEF Grown
<1>24. IsSettled(g2, f2, w, Len(w))
  BY <1>1, <1>22, <1>23, Settles
<1>25. Depth' = Len(w)
  BY <1>3 DEF Depth
<1>26. added' \subseteq Word /\ IsFiniteSet(added') /\ frozen' \in BOOLEAN
  <2>1. added \subseteq Word /\ IsFiniteSet(added)
    BY DEF Holding
  <2>2. IsFiniteSet(added \cup {w})
    BY <2>1, FS_AddElement
  <2> QED
    BY <2>1, <2>2, <1>3 DEF Holding
<1> QED
  BY <1>1, <1>3, <1>23, <1>24, <1>25, <1>26, HoldingStep

LEMMA FreezingHolds ==
  ASSUME Holding, Freeze
  PROVE  Holding'
<1>1. /\ wp \in Seq(Letter) /\ added \subseteq Word /\ IsFiniteSet(added)
      /\ wp # <<>> => wp \in added
      /\ Read(children, final, q0) = added
      /\ Built(children, final, register, wp, LastPath, Depth)
  BY DEF Holding
<1>2. PICK m : m = ReplaceOrRegister(q0, wp)
  OBVIOUS
<1>3. PICK g : g = m.children
  OBVIOUS
<1>4. PICK reg : reg = m.register
  OBVIOUS
<1>5. Becomes(g, final, reg) /\ frozen' = TRUE /\ wp' = wp /\ added' = added
  BY <1>2, <1>3, <1>4 DEF Freeze
<1>6. Built(g, final, reg, wp, LastPath, 0) /\ Read(g, final, q0) = added
  <2>1. CASE frozen
    <3>1. Built(children, final, register, wp, LastPath, 0)
      BY <2>1, <1>1 DEF Depth
    <3>2. m = [children |-> children, register |-> register]
      BY <3>1, <1>1, <1>2, Refrozen
    <3> QED
      BY <3>1, <3>2, <1>1, <1>3, <1>4
  <2>2. CASE ~ frozen
    <3>1. 0 \in 0..Len(wp) /\ LastPath[0] = q0
      BY <1>1, LenProperties DEF Built, Shape
    <3>2. SubSeq(wp, 0 + 1, Len(wp)) = wp
      <4>1. IsLetterByLetter(Rest(wp, 0), wp, 0)
        BY <3>1, <1>1, RestOfRest
      <4> QED
        BY <4>1 DEF IsLetterByLetter, Rest
    <3>3. KeptTo(m, 0)
      <4>1. m = ReplaceOrRegister(LastPath[0], SubSeq(wp, 0 + 1, Len(wp)))
        BY <3>1, <3>2, <1>2
      <4> QED
        BY <4>1, <3>1, <2>2, SuffixRegistered
    <3>4. \A x \in Node : Read(g, final, x) = Read(children, final, x)
      BY <3>3, <1>3 DEF KeptTo, Kept
    <3> QED
      BY <3>3, <3>4, <1>1, <1>3, <1>4, NodeAssumption DEF KeptTo, Kept
  <2> QED
    BY <2>1, <2>2
<1>7. IsSettled(g, final, wp, 0)
  BY <1>1, <1>5, <1>6, Settles
<1>8. Depth' = 0
  BY <1>5 DEF Depth
<1> QED
  BY <1>1, <1>5, <1>6, <1>7, <1>8, HoldingStep

LEMMA InitHolds ==
  ASSUME Init
  PROVE  Holding
<1>1. /\ children = [n \in Node |-> NoEdges] /\ final = [n \in Node |-> FALSE]
      /\ register = {} /\ wp = <<>> /\ frozen = FALSE /\ added = {}
  BY DEF Init
<1>2. wp \in Seq(Letter) /\ Len(wp) = 0
  BY <1>1, EmptySeq
<1>3. LastPath[0] = q0
  BY <1>2, RunStep DEF LastPath
<1>4. \A n \in Node, l \in Letter : children[n][l] = NULL
  BY <1>1 DEF NoEdges
<1>5. Shape(children, final, register, wp, LastPath, 0)
  <2>1. \A j \in 0..0 : j = 0
    OBVIOUS
  <2>2. /\ children \in [Node -> [Letter -> Node \cup {NULL}]]
        /\ final \in [Node -> BOOLEAN] /\ register \subseteq Node
    BY <1>1 DEF NoEdges
  <2>3. LastPath[0] \in Node \ register
    BY <1>1, <1>3, NodeAssumption
  <2>4. \A l \in Letter : children[LastPath[0]][l] = NULL
    BY <1>3, <1>4, NodeAssumption
  <2> QED
    BY <2>1, <2>2, <2>3, <2>4, <1>1, <1>2, <1>3 DEF Shape
<1>6. Read(children, final, q0) = {}
  <2>1. q0 # NULL /\ children[q0] = NoEdges /\ final[q0] = FALSE
    BY <1>1, NodeAssumption
  <2> QED
    BY <2>1, BlankReads
<1>7. Meaning(children, final, register, LastPath, 0)
  <2>1. \A j \in 0..0 : j = 0
    OBVIOUS
  <2> QED
    BY <2>1, <1>1, <1>3, <1>6 DEF Meaning
<1>8. Built(children, final, register, wp, LastPath, Depth)
  BY <1>1, <1>2, <1>5, <1>7 DEF Built, Depth
<1>9. IsFiniteSet(added)
  BY <1>1, FS_EmptySet
<1> QED
  BY <1>1, <1>2, <1>6, <1>8, <1>9 DEF Holding

LEMMA UnchangedHolds ==
  ASSUME Holding, UNCHANGED <<graph, wp, frozen, added>>
  PROVE  Holding'
<1>1. /\ children' = children /\ final' = final /\ register' = register
      /\ wp' = wp /\ frozen' = frozen /\ added' = added
  BY DEF graph
<1>2. Used' = Used /\ LastPath' = LastPath /\ Depth' = Depth
  BY <1>1 DEF Used, LastPath, Depth
<1> QED
  BY <1>1, <1>2 DEF Holding

LEMMA NextHolds ==
  ASSUME Holding, [Next]_vars
  PROVE  Holding'
<1>1. ASSUME NEW w \in Word, AddWord(w) PROVE Holding'
  BY <1>1, AddingHolds DEF AddWord
<1>2. ASSUME NEW w \in Word, AddWordUnchecked(w) PROVE Holding'
  BY <1>2, AddingHolds
<1>3. ASSUME NEW w \in Word, RejectWord(w) PROVE Holding'
  <2>1. UNCHANGED <<graph, wp, frozen, added>>
    BY <1>3 DEF RejectWord
  <2> QED
    BY <2>1, UnchangedHolds
<1>4. ASSUME NEW a, Answer(a) PROVE Holding'
  <2>1. UNCHANGED <<graph, wp, frozen, added>>
    BY <1>4 DEF Answer
  <2> QED
    BY <2>1, UnchangedHolds
<1>5. ASSUME NEW w \in Word, Word2Index(w) PROVE Holding'
  BY <1>4, <1>5 DEF Word2Index
<1>6. ASSUME NEW index \in 1..Cardinality(added), Index2Word(index) PROVE Holding'
  BY <1>4, <1>6 DEF Index2Word
<1>7. ASSUME Freeze PROVE Holding'
  BY <1>7, FreezingHolds
<1>8. ASSUME UNCHANGED vars PROVE Holding'
  <2>1. UNCHANGED <<graph, wp, frozen, added>>
    BY <1>8 DEF vars
  <2> QED
    BY <2>1, UnchangedHolds
<1>9. CASE Next
  BY <1>1, <1>2, <1>3, <1>5, <1>6, <1>7, <1>9 DEF Next
<1> QED
  BY <1>8, <1>9

(***************************************************************************)
(* Between the calls the graph is a register that is closed and minimal,   *)
(* and the path of the previous word.                                      *)
(***************************************************************************)
THEOREM AlwaysHolding == Spec => []Holding
<1>1. Init => Holding
  BY InitHolds
<1>2. Holding /\ [Next]_vars => Holding'
  BY NextHolds
<1> QED
  BY <1>1, <1>2, PTL DEF Spec

-----------------------------------------------------------------------------
(***************************************************************************)
(* What clients see                                                        *)
(***************************************************************************)

LEMMA HoldingObserved ==
  ASSUME Holding
  PROVE  /\ Shape(children, final, register, wp, LastPath, Depth)
         /\ Meaning(children, final, register, LastPath, Depth)
         /\ Used = Held(register, LastPath, Depth)
         /\ added \subseteq Seq(Letter) /\ added \subseteq Universe
<1>1. wp \in Seq(Letter) /\ Shape(children, final, register, wp, LastPath, Depth)
  BY DEF Holding, Built
<1>2. Meaning(children, final, register, LastPath, Depth)
  BY DEF Holding, Built
<1>3. Used = Held(register, LastPath, Depth)
  BY <1>1, HeldIsUsed DEF Used
<1>4. added \subseteq Seq(Letter) /\ added \subseteq Universe
  BY WordAssumption DEF Holding
<1> QED
  BY <1>1, <1>2, <1>3, <1>4

LEMMA Observed ==
  ASSUME NEW n, Read(children, final, n) \subseteq Universe
  PROVE  RightLanguage(n) = Read(children, final, n)
<1>1. Universe \subseteq Seq(Letter)
  BY WordAssumption
<1> QED
  BY <1>1 DEF RightLanguage, Read

LEMMA HoldingHoldsAdded ==
  ASSUME Holding
  PROVE  HoldsAdded
<1>1. /\ Shape(children, final, register, wp, LastPath, Depth)
      /\ Meaning(children, final, register, LastPath, Depth)
      /\ Used = Held(register, LastPath, Depth) /\ added \subseteq Universe
  BY HoldingObserved
<1>2. RightLanguage(q0) = added
  <2>1. Read(children, final, q0) = added
    BY DEF Holding
  <2> QED
    BY <2>1, <1>1, Observed
<1>3. ASSUME NEW n \in Used, n # q0 PROVE RightLanguage(n) # {}
  <2>1. Read(children, final, n) # {} /\ Read(children, final, n) \subseteq Universe
    <3>1. CASE n \in register
      BY <3>1, <1>1 DEF Meaning
    <3>2. CASE n \notin register
      <4>1. PICK j \in 0..Depth : n = LastPath[j]
        BY <3>2, <1>1 DEF Held
      <4>2. j # 0
        BY <4>1, <1>1, <1>3 DEF Shape
      <4> QED
        BY <4>1, <4>2, <1>1 DEF Meaning
    <3> QED
      BY <3>1, <3>2
  <2> QED
    BY <2>1, Observed
<1> QED
  BY <1>2, <1>3 DEF HoldsAdded

(***************************************************************************)
(* Below the root of a frozen graph every word is shorter than the longest *)
(* that was added.                                                         *)
(***************************************************************************)
Shorter(n, m) == \A u \in Read(children, final, n) : Len(u) < m

LEMMA ShorterBelow ==
  ASSUME Holding, frozen, NEW m \in Nat, \A u \in added : Len(u) <= m,
         NEW n \in Behind(children, {q0}), n # q0
  PROVE  n \in register /\ Shorter(n, m)
<1>1. Shape(children, final, register, wp, LastPath, 0) /\ q0 \in Node /\ NULL \notin Node
  BY HoldingObserved, NodeAssumption DEF Depth
<1>2. \A l \in Letter : children[q0][l] \in register \cup {NULL}
  <2>1. 0 \in 0..0 /\ ~ (0 < 0) /\ LastPath[0] = q0
    BY <1>1 DEF Shape
  <2> QED
    BY <2>1, <1>1 DEF Shape
<1>3. Read(children, final, q0) = added
  BY DEF Holding
<1>4. PICK C : C = {q0} \cup {r \in register : Shorter(r, m)}
  OBVIOUS
<1>5. ASSUME NEW p \in Node, NEW k \in Nat, \A u \in Read(children, final, p) : Len(u) <= k,
             NEW l \in Letter, NEW u \in Read(children, final, children[p][l])
      PROVE  Len(u) < k
  <2>1. u \in Seq(Letter) /\ p # NULL
    BY <1>1 DEF Read
  <2>2. More(l, u) \in Read(children, final, p)
    BY <2>1, ReadMore
  <2>3. PICK w : w = More(l, u)
    OBVIOUS
  <2>4. Len(u) \in Nat /\ Len(w) = Len(u) + 1
    BY <2>1, <2>3, MoreFacts DEF IsMore
  <2>5. Len(w) <= k
    BY <2>2, <2>3, <1>5
  <2> QED
    BY <2>4, <2>5
<1>6. Closed(children, C)
  <2> SUFFICES ASSUME NEW p \in C, NEW l \in Letter, children[p][l] # NULL
               PROVE  children[p][l] \in register /\ Shorter(children[p][l], m)
    BY <1>4 DEF Closed
  <2>1. p \in Node /\ children[p][l] \in register
    BY <1>1, <1>2, <1>4 DEF Shape
  <2>2. \A u \in Read(children, final, p) : Len(u) <= m
    <3>1. \A u \in Read(children, final, p) : Len(u) \in Nat
      BY LenProperties DEF Read
    <3> QED
      BY <3>1, <1>3, <1>4 DEF Shorter
  <2>3. Shorter(children[p][l], m)
    BY <2>1, <2>2, <1>5 DEF Shorter
  <2> QED
    BY <2>1, <2>3
<1>7. Behind(children, {q0}) \subseteq C
  BY <1>4, <1>6, BehindLeast
<1> QED
  BY <1>4, <1>7

LEMMA RootIsNotBelow ==
  ASSUME Holding, frozen, NEW n \in Behind(children, {q0}), n # q0
  PROVE  n \in register /\ Read(children, final, n) # Read(children, final, q0)
<1>1. Read(children, final, q0) = added /\ IsFiniteSet(added) /\ added \subseteq Seq(Letter)
  BY HoldingObserved DEF Holding
<1>2. CASE added = {}
  <2>1. \A u \in added : Len(u) <= 0
    BY <1>2
  <2>2. n \in register
    BY <2>1, ShorterBelow
  <2>3. Read(children, final, n) # {}
    BY <2>2, HoldingObserved DEF Meaning
  <2> QED
    BY <2>2, <2>3, <1>1, <1>2
<1>3. CASE added # {}
  <2>1. PICK A : A = [u \in added |-> Len(u)]
    OBVIOUS
  <2>2. PICK S : S = {A[u] : u \in added}
    OBVIOUS
  <2>3. S \subseteq Nat /\ S # {} /\ IsFiniteSet(S)
    <3>1. IsFiniteSet(S)
      BY <2>2, <1>1, FiniteImage
    <3>2. \A u \in added : A[u] \in Nat
      BY <2>1, <1>1, LenProperties
    <3> QED
      BY <3>1, <3>2, <2>2, <1>3
  <2>4. PICK m \in S : \A x \in S : x <= m
    BY <2>3, GreatestNatural
  <2>5. m \in Nat /\ \A u \in added : Len(u) <= m
    BY <2>1, <2>2, <2>3, <2>4
  <2>6. PICK v \in added : Len(v) = m
    BY <2>1, <2>2
  <2>7. n \in register /\ Shorter(n, m)
    BY <2>5, ShorterBelow
  <2>8. v \notin Read(children, final, n)
    BY <2>5, <2>6, <2>7 DEF Shorter
  <2> QED
    BY <2>6, <2>7, <2>8, <1>1
<1> QED
  BY <1>2, <1>3

LEMMA HoldingMinimal ==
  ASSUME Holding
  PROVE  MinimalWhenFrozen
<1>1. PICK merged : merged = IF frozen THEN Behind(children, {q0}) ELSE register
  OBVIOUS
<1>2. /\ \A p, q \in register : Read(children, final, p) = Read(children, final, q) => p = q
      /\ \A r \in register : Read(children, final, r) \subseteq Universe
  BY HoldingObserved DEF Meaning
<1>3. Read(children, final, q0) \subseteq Universe
  BY HoldingObserved DEF Holding
<1>4. \A n \in merged : n \in register \/ (frozen /\ n = q0)
  BY <1>1, RootIsNotBelow
<1>5. \A n \in merged : RightLanguage(n) = Read(children, final, n)
  BY <1>2, <1>3, <1>4, Observed
<1>6. ASSUME NEW p \in merged, NEW q \in merged, p # q
      PROVE  RightLanguage(p) # RightLanguage(q)
  <2>1. CASE frozen /\ p = q0
    <3>1. Read(children, final, q) # Read(children, final, q0)
      BY <2>1, <1>1, <1>6, RootIsNotBelow
    <3> QED
      BY <3>1, <2>1, <1>5
  <2>2. CASE frozen /\ q = q0
    <3>1. Read(children, final, p) # Read(children, final, q0)
      BY <2>2, <1>1, <1>6, RootIsNotBelow
    <3> QED
      BY <3>1, <2>2, <1>5
  <2>3. CASE p \in register /\ q \in register
    BY <2>3, <1>2, <1>5, <1>6
  <2> QED
    BY <2>1, <2>2, <2>3, <1>4
<1> QED
  BY <1>1, <1>6 DEF MinimalWhenFrozen

(***************************************************************************)
(* The graph accepts the words that were added and no others, and no path  *)
(* of it is a dead end, through all the merging that add_word_unchecked    *)
(* and freeze do.                                                          *)
(***************************************************************************)
THEOREM AlwaysHoldsAdded == Spec => []HoldsAdded
<1>1. Holding => HoldsAdded
  BY HoldingHoldsAdded
<1> QED
  BY <1>1, AlwaysHolding, PTL

(***************************************************************************)
(* It is minimal after freeze, and what is in the register is before.      *)
(***************************************************************************)
THEOREM AlwaysMinimalWhenFrozen == Spec => []MinimalWhenFrozen
<1>1. Holding => MinimalWhenFrozen
  BY HoldingMinimal
<1> QED
  BY <1>1, AlwaysHolding, PTL

-----------------------------------------------------------------------------
(***************************************************************************)
(* The order, letter by letter                                             *)
(***************************************************************************)

HasMoreAt(s, l, u) ==
  s \in Seq(Nat) /\ At(s, 1) = l + 1 /\ \A k \in Nat \ {0} : At(s, k + 1) = At(u, k)

LEMMA AtMore ==
  ASSUME NEW l \in Letter, NEW u \in Seq(Letter)
  PROVE  HasMoreAt(More(l, u), l, u)
<1>1. PICK s : s = More(l, u)
  OBVIOUS
<1>2. PICK n \in Nat : n = Len(u)
  BY LenProperties
<1>3. /\ s \in Seq(Letter) /\ Len(s) = n + 1 /\ s[1] = l
      /\ \A k \in 1..n : s[k + 1] = u[k]
  <2>1. IsMore(s, l, u)
    BY <1>1, MoreFacts
  <2> QED
    BY <2>1, <1>2 DEF IsMore
<1>4. s \in Seq(Nat)
  BY <1>3, LetterAssumption, SeqMonotonic
<1>5. At(s, 1) = l + 1
  BY <1>3 DEF At
<1>6. ASSUME NEW k \in Nat \ {0} PROVE At(s, k + 1) = At(u, k)
  <2>1. CASE k <= n
    <3>1. k \in 1..n /\ k + 1 <= n + 1
      BY <2>1
    <3> QED
      BY <3>1, <1>2, <1>3 DEF At
  <2>2. CASE ~ (k <= n)
    <3>1. ~ (k + 1 <= n + 1)
      BY <2>2
    <3> QED
      BY <2>2, <3>1, <1>2, <1>3 DEF At
  <2> QED
    BY <2>1, <2>2
<1> QED
  BY <1>1, <1>4, <1>5, <1>6 DEF HasMoreAt

LEMMA LessMore ==
  ASSUME NEW l \in Letter, NEW u \in Seq(Letter), NEW m \in Letter, NEW v \in Seq(Letter)
  PROVE  Less(More(l, u), More(m, v)) <=> l < m \/ (l = m /\ Less(u, v))
<1>1. PICK s : s = More(l, u)
  OBVIOUS
<1>2. PICK t : t = More(m, v)
  OBVIOUS
<1>3. /\ s \in Seq(Nat) /\ At(s, 1) = l + 1 /\ \A k \in Nat \ {0} : At(s, k + 1) = At(u, k)
      /\ t \in Seq(Nat) /\ At(t, 1) = m + 1 /\ \A k \in Nat \ {0} : At(t, k + 1) = At(v, k)
  <2>1. HasMoreAt(s, l, u) /\ HasMoreAt(t, m, v)
    BY <1>1, <1>2, AtMore
  <2> QED
    BY <2>1 DEF HasMoreAt
<1>4. u \in Seq(Nat) /\ v \in Seq(Nat) /\ l \in Nat /\ m \in Nat
  BY LetterAssumption, SeqMonotonic
<1>5. ASSUME Less(s, t) PROVE l < m \/ (l = m /\ Less(u, v))
  <2>1. PICK k \in Nat \ {0} : At(s, k) < At(t, k) /\ SameBelow(s, t, k)
    BY <1>3, <1>5, LessAt
  <2>2. CASE k = 1
    BY <2>1, <2>2, <1>3, <1>4
  <2>3. CASE k # 1
    <3>1. PICK j \in Nat \ {0} : j + 1 = k
      <4>1. k - 1 \in Nat \ {0} /\ (k - 1) + 1 = k
        BY <2>3
      <4> QED
        BY <4>1
    <3>2. l = m
      <4>1. 1 \in 1..(k - 1)
        BY <2>3
      <4>2. At(s, 1) = At(t, 1)
        BY <4>1, <2>1 DEF SameBelow
      <4> QED
        BY <4>2, <1>3, <1>4
    <3>3. At(u, j) < At(v, j)
      BY <3>1, <2>1, <1>3
    <3>4. ASSUME NEW i \in 1..(j - 1) PROVE At(u, i) = At(v, i)
      <4>1. i \in Nat \ {0} /\ i + 1 \in 1..(k - 1)
        BY <3>1
      <4>2. At(s, i + 1) = At(t, i + 1)
        BY <4>1, <2>1 DEF SameBelow
      <4> QED
        BY <4>1, <4>2, <1>3
    <3>5. SameBelow(u, v, j)
      BY <3>4 DEF SameBelow
    <3> QED
      BY <3>2, <3>3, <3>5, <1>4, LessAt
  <2> QED
    BY <2>2, <2>3
<1>6. ASSUME l < m PROVE Less(s, t)
  <2>1. At(s, 1) < At(t, 1)
    BY <1>3, <1>4, <1>6
  <2>2. SameBelow(s, t, 1)
    BY DEF SameBelow
  <2> QED
    BY <2>1, <2>2, <1>3, LessAt
<1>7. ASSUME l = m, Less(u, v) PROVE Less(s, t)
  <2>1. PICK j \in Nat \ {0} : At(u, j) < At(v, j) /\ SameBelow(u, v, j)
    BY <1>4, <1>7, LessAt
  <2>2. PICK k \in Nat \ {0} : k = j + 1
    OBVIOUS
  <2>3. At(s, k) < At(t, k)
    BY <2>1, <2>2, <1>3
  <2>4. ASSUME NEW i \in 1..(k - 1) PROVE At(s, i) = At(t, i)
    <3>1. CASE i = 1
      BY <3>1, <1>3, <1>7
    <3>2. CASE i # 1
      <4>1. PICK x \in 1..(j - 1) : x + 1 = i /\ x \in Nat \ {0}
        <5>1. i - 1 \in 1..(j - 1) /\ (i - 1) + 1 = i /\ i - 1 \in Nat \ {0}
          BY <3>2, <2>2
        <5> QED
          BY <5>1
      <4>2. At(u, x) = At(v, x)
        BY <2>1 DEF SameBelow
      <4> QED
        BY <4>1, <4>2, <1>3
    <3> QED
      BY <3>1, <3>2
  <2>5. SameBelow(s, t, k)
    BY <2>4 DEF SameBelow
  <2> QED
    BY <2>3, <2>5, <1>3, LessAt
<1> QED
  BY <1>1, <1>2, <1>5, <1>6, <1>7

LEMMA LessNothing ==
  ASSUME NEW t \in Seq(Letter)
  PROVE  LessEq(t, <<>>) <=> t = <<>>
<1>1. PICK e \in Seq(Nat) : e = <<>> /\ Len(e) = 0
  BY EmptySeq
<1>2. t \in Seq(Nat)
  BY LetterAssumption, SeqMonotonic
<1>3. ~ Less(t, e)
  <2> SUFFICES ASSUME Less(t, e) PROVE FALSE
    OBVIOUS
  <2>1. PICK k \in Nat \ {0} : At(t, k) < At(e, k)
    BY <1>2, LessAt
  <2>2. At(t, k) \in Nat /\ At(e, k) = 0
    <3>1. Len(e) < k
      BY <1>1
    <3> QED
      BY <3>1, <1>2, AtType
  <2> QED
    BY <2>1, <2>2
<1> QED
  BY <1>1, <1>3 DEF LessEq

LEMMA NothingIsLess ==
  ASSUME NEW l \in Letter, NEW u \in Seq(Letter)
  PROVE  LessEq(<<>>, More(l, u))
<1>1. PICK e \in Seq(Nat) : e = <<>> /\ Len(e) = 0
  BY EmptySeq
<1>2. PICK s : s = More(l, u)
  OBVIOUS
<1>3. s \in Seq(Nat) /\ At(s, 1) = l + 1 /\ l \in Nat
  <2>1. HasMoreAt(s, l, u)
    BY <1>2, AtMore
  <2> QED
    BY <2>1, LetterAssumption DEF HasMoreAt
<1>4. At(e, 1) = 0
  BY <1>1 DEF At
<1>5. SameBelow(e, s, 1)
  BY DEF SameBelow
<1>6. At(e, 1) < At(s, 1)
  BY <1>3, <1>4
<1>7. Less(e, s)
  BY <1>3, <1>5, <1>6, LessAt
<1> QED
  BY <1>1, <1>2, <1>7 DEF LessEq

LEMMA LessEqMore ==
  ASSUME NEW l \in Letter, NEW u \in Seq(Letter), NEW m \in Letter, NEW v \in Seq(Letter)
  PROVE  LessEq(More(l, u), More(m, v)) <=> l < m \/ (l = m /\ LessEq(u, v))
<1>1. More(l, u) = More(m, v) <=> l = m /\ u = v
  BY MoreInjective
<1> QED
  BY <1>1, LessMore DEF LessEq

-----------------------------------------------------------------------------
(***************************************************************************)
(* The nodes that are numbered                                             *)
(***************************************************************************)

Here(n) == Read(children, final, n)

Reached == Behind(children, {q0})

LEMMA UsedReads ==
  ASSUME Holding, NEW n \in Used, n # q0
  PROVE  Here(n) # {}
<1>1. /\ Shape(children, final, register, wp, LastPath, Depth)
      /\ Meaning(children, final, register, LastPath, Depth)
      /\ Used = Held(register, LastPath, Depth)
  BY HoldingObserved
<1>2. CASE n \in register
  BY <1>1, <1>2 DEF Meaning, Here
<1>3. CASE n \notin register
  <2>1. PICK j \in 0..Depth : n = LastPath[j]
    BY <1>1, <1>3 DEF Held
  <2>2. j # 0
    BY <2>1, <1>1 DEF Shape
  <2> QED
    BY <2>1, <2>2, <1>1 DEF Meaning, Here
<1> QED
  BY <1>2, <1>3

LEMMA ReachedIs ==
  ASSUME Holding
  PROVE  /\ q0 \in Reached /\ Reached \subseteq Node /\ NULL \notin Reached
         /\ Reached \subseteq Used /\ Closed(children, Reached)
         /\ children \in [Node -> [Letter -> Node \cup {NULL}]] /\ final \in [Node -> BOOLEAN]
<1>1. /\ wp \in Seq(Letter) /\ Shape(children, final, register, wp, LastPath, Depth)
      /\ Used = Held(register, LastPath, Depth)
  BY HoldingObserved DEF Holding
<1>2. /\ children \in [Node -> [Letter -> Node \cup {NULL}]] /\ final \in [Node -> BOOLEAN]
  BY <1>1 DEF Shape
<1>3. q0 \in Used /\ Closed(children, Used)
  BY <1>1, HeldClosed
<1>4. Reached \subseteq Used
  BY <1>3, BehindLeast DEF Reached
<1>5. {q0} \subseteq Reached /\ Reached \subseteq Node /\ Closed(children, Reached)
  <2>1. {q0} \subseteq Node /\ {q0} # {}
    BY NodeAssumption
  <2>2. \A n \in Node, l \in Letter : children[n][l] \in Node \cup {NULL}
    BY <1>2
  <2> QED
    BY <2>1, <2>2, BehindClosed DEF Reached
<1> QED
  BY <1>2, <1>4, <1>5, NodeAssumption

(***************************************************************************)
(* No edge leads to the root, and every edge leads on to a word.           *)
(***************************************************************************)
LEMMA EdgeLeadsOn ==
  ASSUME Holding, NEW n \in Reached, NEW l \in Letter, children[n][l] # NULL
  PROVE  children[n][l] \in Reached /\ Here(children[n][l]) # {}
<1>1. PICK c : c = children[n][l]
  OBVIOUS
<1>2. c \in Reached /\ c \in Used /\ n \in Used
  BY <1>1, ReachedIs DEF Closed
<1>3. c # q0
  <2>1. /\ Shape(children, final, register, wp, LastPath, Depth)
        /\ Used = Held(register, LastPath, Depth) /\ wp \in Seq(Letter)
    BY HoldingObserved DEF Holding
  <2>2. q0 \notin register /\ q0 = LastPath[0] /\ 0 \in 0..Depth
    <3>1. 0 \in 0..Depth
      BY <2>1, LenProperties DEF Shape
    <3> QED
      BY <3>1, <2>1 DEF Shape
  <2>3. CASE n \in register
    BY <2>1, <2>2, <2>3, <1>1 DEF Shape
  <2>4. CASE n \notin register
    <3>1. PICK j \in 0..Depth : n = LastPath[j]
      BY <2>1, <2>4, <1>2 DEF Held
    <3>2. CASE c \in register
      BY <3>2, <2>2
    <3>3. CASE j < Depth /\ c = LastPath[j + 1]
      <4>1. Depth \in Nat
        BY <2>1, HeldClosed
      <4>2. j + 1 \in 0..Depth /\ j + 1 # 0
        BY <3>3, <4>1
      <4> QED
        BY <4>2, <3>3, <2>1, <2>2 DEF Shape
    <3> QED
      BY <3>1, <3>2, <3>3, <2>1, <1>1 DEF Shape
  <2> QED
    BY <2>3, <2>4
<1>4. Here(c) # {}
  BY <1>2, <1>3, UsedReads
<1> QED
  BY <1>1, <1>2, <1>4

LEMMA OnwardIs ==
  ASSUME Holding, NEW n \in Reached, NEW l \in Letter, NEW u \in Here(children[n][l])
  PROVE  /\ u \in Seq(Letter) /\ children[n][l] # NULL /\ More(l, u) \in Here(n)
         /\ Len(u) \in Nat /\ Len(More(l, u)) = Len(u) + 1
<1>1. u \in Seq(Letter) /\ children[n][l] # NULL
  BY ReadNull DEF Here, Read
<1>2. n # NULL
  BY ReachedIs
<1>3. IsMore(More(l, u), l, u)
  BY <1>1, MoreFacts
<1> QED
  BY <1>1, <1>2, <1>3, ReadMore DEF Here, IsMore

(***************************************************************************)
(* They accept finitely many words each.                                   *)
(***************************************************************************)
LEMMA HereFinite ==
  ASSUME Holding, NEW n \in Reached
  PROVE  IsFiniteSet(Here(n))
<1>1. PICK C : C = {m \in Reached : IsFiniteSet(Here(m))}
  OBVIOUS
<1>2. q0 \in C
  <2>1. Here(q0) = added /\ IsFiniteSet(added)
    BY DEF Here, Holding
  <2> QED
    BY <2>1, <1>1, ReachedIs
<1>3. Closed(children, C)
  <2> SUFFICES ASSUME NEW m \in C, NEW l \in Letter, children[m][l] # NULL
               PROVE  children[m][l] \in C
    BY DEF Closed
  <2>1. PICK c : c = children[m][l]
    OBVIOUS
  <2>2. m \in Reached /\ IsFiniteSet(Here(m)) /\ c \in Reached
    BY <2>1, <1>1, ReachedIs DEF Closed
  <2>3. PICK f : f = [u \in Here(c) |-> More(l, u)]
    OBVIOUS
  <2>4. f \in [Here(c) -> Here(m)]
    BY <2>1, <2>2, <2>3, OnwardIs
  <2>5. ASSUME NEW u \in Here(c), NEW v \in Here(c), f[u] = f[v] PROVE u = v
    <3>1. u \in Seq(Letter) /\ v \in Seq(Letter)
      BY DEF Here, Read
    <3> QED
      BY <3>1, <2>3, <2>5, MoreInjective
  <2>6. f \in Injection(Here(c), Here(m))
    BY <2>4, <2>5 DEF Injection, IsInjective
  <2>7. IsFiniteSet(Here(c))
    BY <2>2, <2>6, FS_Injection
  <2> QED
    BY <2>1, <2>2, <2>7, <1>1
<1>4. {q0} \subseteq C
  BY <1>2
<1>5. Reached \subseteq C
  BY <1>3, <1>4, BehindLeast DEF Reached
<1> QED
  BY <1>1, <1>5

(***************************************************************************)
(* The longest of them is longer than those behind any edge: there is no   *)
(* cycle.                                                                  *)
(***************************************************************************)
IsLongest(n, x) ==
  /\ x \in Nat
  /\ \A u \in Here(n) : Len(u) <= x
  /\ Here(n) # {} => \E u \in Here(n) : Len(u) = x

Descends(height) ==
  /\ height \in [Reached -> Nat]
  /\ \A n \in Reached, l \in Letter :
       children[n][l] # NULL => height[children[n][l]] < height[n]

LEMMA LongestExists ==
  ASSUME Holding, NEW n \in Reached
  PROVE  \E x : IsLongest(n, x)
<1>1. PICK W : W = Here(n)
  OBVIOUS
<1>2. IsFiniteSet(W) /\ W \subseteq Seq(Letter)
  BY <1>1, HereFinite DEF Here, Read
<1>3. CASE W = {}
  BY <1>1, <1>3 DEF IsLongest
<1>4. CASE W # {}
  <2>1. PICK A : A = [u \in W |-> Len(u)]
    OBVIOUS
  <2>2. PICK S : S = {A[u] : u \in W}
    OBVIOUS
  <2>3. S \subseteq Nat /\ S # {} /\ IsFiniteSet(S)
    <3>1. IsFiniteSet(S)
      BY <2>2, <1>2, FiniteImage
    <3>2. \A u \in W : A[u] \in Nat
      BY <2>1, <1>2, LenProperties
    <3> QED
      BY <3>1, <3>2, <2>2, <1>4
  <2>4. PICK m \in S : \A x \in S : x <= m
    BY <2>3, GreatestNatural
  <2>5. m \in Nat /\ \A u \in W : Len(u) <= m
    BY <2>1, <2>2, <2>3, <2>4
  <2>6. \E v \in W : Len(v) = m
    BY <2>1, <2>2
  <2> QED
    BY <2>5, <2>6, <1>1 DEF IsLongest
<1> QED
  BY <1>3, <1>4

LEMMA HeightExists ==
  ASSUME Holding
  PROVE  \E height : Descends(height)
<1> DEFINE height == [n \in Reached |-> CHOOSE x : IsLongest(n, x)]
<1>1. height = [n \in Reached |-> height[n]]
  OBVIOUS
<1>2. \A n \in Reached : IsLongest(n, height[n])
  BY LongestExists
<1> HIDE DEF height
<1>3. height \in [Reached -> Nat]
  <2>1. \A n \in Reached : height[n] \in Nat
    BY <1>2 DEF IsLongest
  <2> QED
    BY <2>1, <1>1
<1>4. ASSUME NEW n \in Reached, NEW l \in Letter, children[n][l] # NULL
      PROVE  height[children[n][l]] < height[n]
  <2>1. PICK c : c = children[n][l]
    OBVIOUS
  <2>2. c \in Reached /\ Here(c) # {}
    BY <2>1, <1>4, EdgeLeadsOn
  <2>3. PICK u \in Here(c) : Len(u) = height[c]
    BY <2>2, <1>2 DEF IsLongest
  <2>4. More(l, u) \in Here(n) /\ Len(More(l, u)) = Len(u) + 1
    BY <2>1, OnwardIs
  <2>5. Len(u) + 1 <= height[n]
    BY <2>4, <1>2 DEF IsLongest
  <2>6. height[c] \in Nat /\ height[n] \in Nat
    BY <2>2, <1>3
  <2> QED
    BY <2>1, <2>3, <2>5, <2>6
<1> QED
  BY <1>3, <1>4 DEF Descends

-----------------------------------------------------------------------------
(***************************************************************************)
(* The numbers                                                             *)
(***************************************************************************)

(***************************************************************************)
(* The words of a node whose first letter is in L.                         *)
(***************************************************************************)
Onto(n, L) == {t \in Here(n) : \E l \in L, u \in Seq(Letter) : t = More(l, u)}

LEMMA OntoIs ==
  ASSUME Holding, NEW n \in Reached, NEW L, L \subseteq Letter,
         NEW l \in Letter, NEW u \in Seq(Letter)
  PROVE  More(l, u) \in Onto(n, L) <=> l \in L /\ u \in Here(children[n][l])
<1>1. More(l, u) \in Here(n) <=> u \in Here(children[n][l])
  <2>1. n # NULL
    BY ReachedIs
  <2> QED
    BY <2>1, ReadMore DEF Here
<1>2. ASSUME NEW m \in L, NEW v \in Seq(Letter), More(l, u) = More(m, v) PROVE l \in L
  BY <1>2, MoreInjective
<1> QED
  BY <1>1, <1>2 DEF Onto

LEMMA OntoFinite ==
  ASSUME Holding, NEW n \in Reached, NEW L
  PROVE  IsFiniteSet(Onto(n, L)) /\ Cardinality(Onto(n, L)) \in Nat
<1>1. IsFiniteSet(Here(n))
  BY HereFinite
<1>2. IsFiniteSet(Onto(n, L))
  BY <1>1, FS_Subset DEF Onto
<1> QED
  BY <1>2, FS_CardinalityType

LEMMA AsManyOnward ==
  ASSUME Holding, NEW n \in Reached, NEW l \in Edges(n)
  PROVE  /\ l \in Letter /\ children[n][l] \in Reached
         /\ Cardinality(Onto(n, {l})) = Cardinality(Here(children[n][l]))
<1>1. l \in Letter /\ children[n][l] # NULL
  BY DEF Edges
<1>2. PICK c : c = children[n][l]
  OBVIOUS
<1>3. c \in Reached /\ IsFiniteSet(Here(c))
  BY <1>1, <1>2, EdgeLeadsOn, HereFinite
<1>4. PICK f : f = [u \in Here(c) |-> More(l, u)]
  OBVIOUS
<1>5. ASSUME NEW u \in Here(c) PROVE u \in Seq(Letter) /\ f[u] \in Onto(n, {l})
  <2>1. u \in Seq(Letter)
    BY DEF Here, Read
  <2> QED
    BY <2>1, <1>1, <1>2, <1>4, OntoIs
<1>6. ASSUME NEW t \in Onto(n, {l}) PROVE \E u \in Here(c) : f[u] = t
  <2>1. PICK u \in Seq(Letter) : t = More(l, u)
    BY DEF Onto
  <2>2. u \in Here(c)
    BY <2>1, <1>1, <1>2, OntoIs
  <2> QED
    BY <2>1, <2>2, <1>4
<1>7. ASSUME NEW u \in Here(c), NEW v \in Here(c), f[u] = f[v] PROVE u = v
  BY <1>1, <1>4, <1>5, <1>7, MoreInjective
<1>8. f \in [Here(c) -> Onto(n, {l})]
  BY <1>4, <1>5
<1>9. f \in Bijection(Here(c), Onto(n, {l}))
  BY <1>6, <1>7, <1>8 DEF Bijection, Injection, Surjection, IsInjective
<1>10. ExistsBijection(Here(c), Onto(n, {l}))
  BY <1>9 DEF ExistsBijection
<1>11. Cardinality(Onto(n, {l})) = Cardinality(Here(c))
  BY <1>3, <1>10, FS_Bijection
<1> QED
  BY <1>1, <1>2, <1>3, <1>11

LEMMA EdgesFinite ==
  ASSUME Holding, NEW n \in Reached
  PROVE  IsFiniteSet(Edges(n)) /\ Edges(n) \subseteq Letter
<1>1. PICK A : A = [t \in Here(n) |-> t[1]]
  OBVIOUS
<1>2. PICK S : S = {A[t] : t \in Here(n)}
  OBVIOUS
<1>3. IsFiniteSet(S)
  BY <1>2, HereFinite, FiniteImage
<1>4. ASSUME NEW l \in Edges(n) PROVE l \in S
  <2>1. l \in Letter /\ children[n][l] # NULL
    BY DEF Edges
  <2>2. PICK u \in Here(children[n][l]) : TRUE
    BY <2>1, EdgeLeadsOn
  <2>3. PICK t \in Here(n) : t = More(l, u)
    BY <2>1, OnwardIs
  <2>4. t[1] = l
    <3>1. u \in Seq(Letter)
      BY <2>1, OnwardIs
    <3>2. IsMore(t, l, u)
      BY <3>1, <2>1, <2>3, MoreFacts
    <3> QED
      BY <3>2 DEF IsMore
  <2> QED
    BY <2>4, <1>1, <1>2
<1>5. IsFiniteSet(Edges(n))
  <2>1. Edges(n) \in SUBSET S
    BY <1>4
  <2> QED
    BY <2>1, <1>3, FS_Subset
<1> QED
  BY <1>5 DEF Edges

(***************************************************************************)
(* num has the number of words behind each node.                           *)
(***************************************************************************)
NumbersRight(num) == \A n \in Reached : num[n] = Cardinality(Here(n))

LEMMA SumIsOnto ==
  ASSUME Holding, NEW num, NumbersRight(num), NEW n \in Reached, NEW L, L \subseteq Edges(n)
  PROVE  Sum(num, n, L) = Cardinality(Onto(n, L))
<1>1. PICK f : f = [l \in L |-> num[children[n][l]]]
  OBVIOUS
<1>2. PICK A : A = [l \in L |-> Onto(n, {l})]
  OBVIOUS
<1>3. PICK U : U = Onto(n, L)
  OBVIOUS
<1>4. L \subseteq Letter /\ IsFiniteSet(L)
  BY EdgesFinite, FS_Subset
<1>5. ASSUME NEW l \in L PROVE IsFiniteSet(A[l]) /\ Cardinality(A[l]) = f[l]
  <2>1. l \in Edges(n)
    OBVIOUS
  <2>2. /\ children[n][l] \in Reached
        /\ Cardinality(Onto(n, {l})) = Cardinality(Here(children[n][l]))
    BY <2>1, AsManyOnward
  <2> QED
    BY <2>2, <1>1, <1>2, OntoFinite DEF NumbersRight
<1>6. ASSUME NEW l \in L, NEW m \in L, l # m PROVE A[l] \cap A[m] = {}
  <2> SUFFICES ASSUME NEW t, t \in Onto(n, {l}), t \in Onto(n, {m}) PROVE FALSE
    BY <1>2
  <2>1. PICK u \in Seq(Letter) : t = More(l, u)
    BY DEF Onto
  <2>2. PICK v \in Seq(Letter) : t = More(m, v)
    BY DEF Onto
  <2> QED
    BY <2>1, <2>2, <1>4, <1>6, MoreInjective
<1>7. U = UNION {A[l] : l \in L}
  <2>1. \A t : t \in Onto(n, L) <=> \E l \in L : t \in Onto(n, {l})
    BY DEF Onto
  <2> QED
    BY <2>1, <1>2, <1>3
<1>8. AreParts(A, L, U, f)
  BY <1>4, <1>5, <1>6, <1>7 DEF AreParts
<1>9. SumFunctionOnSet(f, L) = Cardinality(U)
  BY <1>8, SumOfAllParts
<1>10. DOMAIN f = L
  BY <1>1
<1> QED
  BY <1>1, <1>3, <1>9, <1>10 DEF Sum, SumFunction

LEMMA WholeIs ==
  ASSUME Holding, NEW n \in Reached
  PROVE  Cardinality(Here(n)) = Bit(final[n]) + Cardinality(Onto(n, Edges(n)))
<1>1. PICK T : T = Onto(n, Edges(n))
  OBVIOUS
<1>2. n # NULL /\ final[n] \in BOOLEAN
  BY ReachedIs
<1>3. <<>> \in Here(n) <=> final[n]
  BY <1>2, ReadNothing DEF Here
<1>4. ASSUME NEW t \in Here(n), t # <<>> PROVE t \in T
  <2>1. t \in Seq(Letter)
    BY DEF Here, Read
  <2>2. PICK l \in Letter, u \in Seq(Letter) : t = More(l, u)
    BY <2>1, <1>4, MoreOfWord
  <2>3. u \in Here(children[n][l])
    BY <2>2, <1>2, ReadMore DEF Here
  <2>4. children[n][l] # NULL
    BY <2>3, ReadNull DEF Here
  <2>5. l \in Edges(n)
    BY <2>4 DEF Edges
  <2> QED
    BY <2>2, <2>5, <1>1 DEF Onto
<1>5. T \subseteq Here(n) /\ <<>> \notin T
  <2>1. \A l \in Edges(n), u \in Seq(Letter) : More(l, u) # <<>>
    BY MoreNotEmpty DEF Edges
  <2> QED
    BY <2>1, <1>1 DEF Onto
<1>6. IsFiniteSet(T) /\ Cardinality(T) \in Nat
  BY <1>1, OntoFinite
<1>7. CASE final[n]
  <2>1. Here(n) = T \cup {<<>>}
    BY <1>3, <1>4, <1>5, <1>7
  <2>2. Cardinality(T \cup {<<>>}) = Cardinality(T) + 1
    BY <1>5, <1>6, FS_AddElement
  <2> QED
    BY <2>1, <2>2, <1>1, <1>6, <1>7 DEF Bit
<1>8. CASE ~ final[n]
  <2>1. Here(n) = T
    BY <1>3, <1>4, <1>5, <1>8
  <2> QED
    BY <2>1, <1>1, <1>6, <1>8 DEF Bit
<1> QED
  BY <1>7, <1>8

(***************************************************************************)
(* num_aux computes them: its equations have one solution.                 *)
(***************************************************************************)
AreCounts(h) ==
  h = [n \in Reached |-> Bit(final[n]) + Sum(h, n, Edges(n))]

LEMMA CountsExist ==
  ASSUME Holding
  PROVE  \E h : AreCounts(h) /\ NumbersRight(h)
<1>1. PICK h : h = [n \in Reached |-> Cardinality(Here(n))]
  OBVIOUS
<1>2. NumbersRight(h)
  BY <1>1 DEF NumbersRight
<1>3. ASSUME NEW n \in Reached PROVE h[n] = Bit(final[n]) + Sum(h, n, Edges(n))
  BY <1>1, <1>2, SumIsOnto, WholeIs
<1>4. AreCounts(h)
  BY <1>1, <1>3 DEF AreCounts
<1> QED
  BY <1>2, <1>4

LEMMA SumsAgree ==
  ASSUME NEW h, NEW g, NEW n, NEW L, \A l \in L : h[children[n][l]] = g[children[n][l]]
  PROVE  Sum(h, n, L) = Sum(g, n, L)
<1>1. [l \in L |-> h[children[n][l]]] = [l \in L |-> g[children[n][l]]]
  OBVIOUS
<1> QED
  BY <1>1 DEF Sum

LEMMA CountsAgree ==
  ASSUME Holding, NEW h, AreCounts(h), NEW g, AreCounts(g)
  PROVE  \A n \in Reached : h[n] = g[n]
<1>1. PICK height : Descends(height)
  BY HeightExists
<1> DEFINE Wrong(k) == \E n \in Reached : height[n] = k /\ h[n] # g[n]
           Bad == {k \in Nat : Wrong(k)}
<1>2. Bad = {}
  <2> SUFFICES ASSUME Bad # {} PROVE FALSE
    OBVIOUS
  <2>1. PICK k \in Bad : \A j \in Bad : k <= j
    <3>1. Bad \subseteq Nat
      OBVIOUS
    <3> HIDE DEF Bad
    <3> QED
      BY <3>1, LeastNatural
  <2>2. PICK n \in Reached : height[n] = k /\ h[n] # g[n]
    BY <2>1
  <2>3. ASSUME NEW l \in Edges(n) PROVE h[children[n][l]] = g[children[n][l]]
    <3>1. PICK c : c = children[n][l]
      OBVIOUS
    <3>2. c \in Reached /\ height[c] < height[n] /\ height[c] \in Nat /\ k \in Nat
      <4>1. l \in Letter /\ children[n][l] # NULL
        BY DEF Edges
      <4> QED
        BY <4>1, <3>1, <1>1, <2>1, EdgeLeadsOn DEF Descends
    <3>3. height[c] \notin Bad
      BY <3>2, <2>1, <2>2
    <3> QED
      BY <3>1, <3>2, <3>3
  <2>4. Sum(h, n, Edges(n)) = Sum(g, n, Edges(n))
    BY <2>3, SumsAgree
  <2>5. h[n] = Bit(final[n]) + Sum(h, n, Edges(n)) /\ g[n] = Bit(final[n]) + Sum(g, n, Edges(n))
    BY DEF AreCounts
  <2> QED
    BY <2>2, <2>4, <2>5
<1>3. ASSUME NEW n \in Reached, h[n] # g[n] PROVE FALSE
  <2>1. height[n] \in Nat
    BY <1>1 DEF Descends
  <2>2. height[n] \in Bad
    BY <2>1, <1>3
  <2> QED
    BY <2>2, <1>2
<1> QED
  BY <1>3

LEMMA CountIs ==
  ASSUME Holding, NEW num, \A n \in Reached : num[n] = None
  PROVE  DOMAIN Count(num) = Reached /\ NumbersRight(Count(num))
<1> DEFINE R(h) == h = [n \in Reached |->
                         IF num[n] # None THEN num[n]
                         ELSE Bit(final[n]) + SumFunction([l \in Edges(n) |-> h[children[n][l]]])]
<1>1. \A h : R(h) <=> AreCounts(h)
  BY DEF AreCounts, Sum
<1>2. \E h : R(h)
  BY <1>1, CountsExist
<1>3. PICK h : h = CHOOSE e : R(e)
  OBVIOUS
<1>4. R(h)
  BY <1>2, <1>3
<1>5. Count(num) = h
  BY <1>3 DEF Count, Reached
<1>6. AreCounts(h)
  BY <1>1, <1>4
<1>7. PICK g : AreCounts(g) /\ NumbersRight(g)
  BY CountsExist
<1>8. DOMAIN h = Reached
  BY <1>6 DEF AreCounts
<1>9. \A n \in Reached : h[n] = g[n]
  BY <1>6, <1>7, CountsAgree
<1> QED
  BY <1>5, <1>7, <1>8, <1>9 DEF NumbersRight

LEMMA NumbersAre ==
  ASSUME Holding, numbers_valid => NumbersRight(number)
  PROVE  NumbersRight(Numbers)
<1>1. CASE numbers_valid
  BY <1>1 DEF Numbers
<1>2. CASE ~ numbers_valid
  <2>1. PICK num : num = Cleared
    OBVIOUS
  <2>2. Reached \subseteq Node
    BY ReachedIs
  <2>3. \A n \in Reached : num[n] = None
    BY <2>1, <2>2 DEF Cleared, Reached
  <2>4. PICK h : h = Count(num)
    OBVIOUS
  <2>5. DOMAIN h = Reached /\ NumbersRight(h)
    BY <2>3, <2>4, CountIs
  <2>6. Numbers = [n \in Node |-> IF n \in DOMAIN h THEN h[n] ELSE num[n]]
    BY <2>1, <2>4, <1>2 DEF Numbers, Counted
  <2> QED
    BY <2>2, <2>5, <2>6 DEF NumbersRight
<1> QED
  BY <1>1, <1>2

-----------------------------------------------------------------------------
(***************************************************************************)
(* Ranks                                                                   *)
(***************************************************************************)

EdgesBelow(n, l) == {m \in Edges(n) : m < l}

(***************************************************************************)
(* The place of a word among those of a node, the empty one not counted.   *)
(***************************************************************************)
Place(n, t) == Cardinality(NotAfter(Here(n), t)) - Bit(final[n])

LEMMA BitIs ==
  ASSUME NEW b \in BOOLEAN
  PROVE  Bit(b) \in {0, 1}
BY DEF Bit

(***************************************************************************)
(* The words that are not after a word are the empty one, those with a     *)
(* smaller first letter, and those not after it behind its first letter.   *)
(***************************************************************************)
LEMMA NotAfterMore ==
  ASSUME Holding, NEW n \in Reached, NEW l \in Edges(n), NEW u \in Here(children[n][l]), NEW t
  PROVE  t \in NotAfter(Here(n), More(l, u)) <=>
           \/ t = <<>> /\ final[n]
           \/ t \in Onto(n, EdgesBelow(n, l))
           \/ \E v \in NotAfter(Here(children[n][l]), u) : t = More(l, v)
<1>1. l \in Letter /\ u \in Seq(Letter) /\ n # NULL /\ final[n] \in BOOLEAN
  BY ReachedIs DEF Edges, Here, Read
<1>2. <<>> \in Here(n) <=> final[n]
  BY <1>1, ReadNothing DEF Here
<1>3. PICK s : s = More(l, u)
  OBVIOUS
<1>4. LessEq(<<>>, s)
  BY <1>1, <1>3, NothingIsLess
<1>5. EdgesBelow(n, l) \subseteq Letter
  BY DEF EdgesBelow, Edges
<1>6. ASSUME NEW m \in Letter, NEW v \in Seq(Letter), t = More(m, v)
      PROVE  t \in NotAfter(Here(n), s) <=>
               \/ t \in Onto(n, EdgesBelow(n, l))
               \/ \E x \in NotAfter(Here(children[n][l]), u) : t = More(l, x)
  <2>1. t \in Here(n) <=> v \in Here(children[n][m])
    BY <1>1, <1>6, ReadMore DEF Here
  <2>2. LessEq(t, s) <=> m < l \/ (m = l /\ LessEq(v, u))
    BY <1>1, <1>3, <1>6, LessEqMore
  <2>3. t \in Onto(n, EdgesBelow(n, l)) <=> m \in EdgesBelow(n, l) /\ v \in Here(children[n][m])
    BY <1>5, <1>6, OntoIs
  <2>4. v \in Here(children[n][m]) => m \in Edges(n)
    BY ReadNull DEF Here, Edges
  <2>5. (\E x \in NotAfter(Here(children[n][l]), u) : t = More(l, x))
          <=> m = l /\ v \in NotAfter(Here(children[n][l]), u)
    <3>1. ASSUME NEW x \in NotAfter(Here(children[n][l]), u), t = More(l, x)
          PROVE  m = l /\ v = x
      <4>1. x \in Seq(Letter)
        BY DEF NotAfter, Here, Read
      <4>2. More(m, v) = More(l, x)
        BY <3>1, <1>6
      <4> QED
        BY <4>1, <4>2, <1>1, MoreInjective
    <3> QED
      BY <3>1, <1>6
  <2> QED
    BY <2>1, <2>2, <2>3, <2>4, <2>5 DEF NotAfter, EdgesBelow
<1>7. ASSUME t \in NotAfter(Here(n), s) \/ t \in Onto(n, EdgesBelow(n, l)), t # <<>>
      PROVE  \E m \in Letter, v \in Seq(Letter) : t = More(m, v)
  <2>1. t \in Seq(Letter)
    BY <1>7 DEF NotAfter, Onto, Here, Read
  <2> QED
    BY <2>1, <1>7, MoreOfWord
<1>8. <<>> \notin Onto(n, EdgesBelow(n, l))
  BY <1>5, MoreNotEmpty DEF Onto
<1>9. ASSUME NEW v \in NotAfter(Here(children[n][l]), u), t = More(l, v)
      PROVE  t # <<>> /\ \E m \in Letter, x \in Seq(Letter) : t = More(m, x)
  <2>1. v \in Seq(Letter)
    BY DEF NotAfter, Here, Read
  <2> QED
    BY <2>1, <1>1, <1>9, MoreNotEmpty
<1>10. CASE t = <<>>
  BY <1>2, <1>3, <1>4, <1>8, <1>9, <1>10 DEF NotAfter
<1>11. CASE t # <<>>
  BY <1>3, <1>6, <1>7, <1>9, <1>11
<1> QED
  BY <1>10, <1>11

LEMMA PlaceStep ==
  ASSUME Holding, NEW n \in Reached, NEW l \in Edges(n), NEW u \in Here(children[n][l])
  PROVE  Place(n, More(l, u)) = Cardinality(Onto(n, EdgesBelow(n, l)))
                                  + Cardinality(NotAfter(Here(children[n][l]), u))
<1>1. PICK c : c = children[n][l]
  OBVIOUS
<1>2. l \in Letter /\ u \in Seq(Letter) /\ c \in Reached /\ final[n] \in BOOLEAN
  BY <1>1, ReachedIs, AsManyOnward DEF Here, Read
<1>3. PICK S : S = NotAfter(Here(c), u)
  OBVIOUS
<1>4. PICK f : f = [v \in S |-> More(l, v)]
  OBVIOUS
<1>5. PICK M : M = {f[v] : v \in S}
  OBVIOUS
<1>6. S \subseteq Seq(Letter) /\ IsFiniteSet(S) /\ Cardinality(S) \in Nat
  BY <1>2, <1>3, HereFinite, FS_Subset, FS_CardinalityType DEF NotAfter, Here, Read
<1>7. IsFiniteSet(M) /\ Cardinality(M) = Cardinality(S)
  <2>1. \A v, w \in S : f[v] = f[w] => v = w
    BY <1>2, <1>4, <1>6, MoreInjective
  <2>2. f \in [S -> M] /\ \A t \in M : \E v \in S : f[v] = t
    BY <1>4, <1>5
  <2>3. f \in Bijection(S, M)
    BY <2>1, <2>2 DEF Bijection, Injection, Surjection, IsInjective
  <2>4. ExistsBijection(S, M)
    BY <2>3 DEF ExistsBijection
  <2> QED
    BY <2>4, <1>6, FS_Bijection
<1>8. PICK T : T = Onto(n, EdgesBelow(n, l))
  OBVIOUS
<1>9. IsFiniteSet(T) /\ Cardinality(T) \in Nat
  BY <1>8, OntoFinite
<1>10. T \cap M = {}
  <2> SUFFICES ASSUME NEW t, t \in T, t \in M PROVE FALSE
    OBVIOUS
  <2>1. PICK v \in Seq(Letter) : t = More(l, v)
    BY <1>4, <1>5, <1>6
  <2>2. EdgesBelow(n, l) \subseteq Letter
    BY DEF EdgesBelow, Edges
  <2>3. l \in EdgesBelow(n, l)
    BY <2>1, <2>2, <1>2, <1>8, OntoIs
  <2>4. l \in Nat /\ l < l
    BY <2>3, <1>2, LetterAssumption DEF EdgesBelow
  <2> QED
    BY <2>4
<1>11. PICK D : D = T \cup M
  OBVIOUS
<1>12. IsFiniteSet(D) /\ Cardinality(D) = Cardinality(T) + Cardinality(S)
  <2>1. /\ IsFiniteSet(T \cup M)
        /\ Cardinality(T \cup M) = Cardinality(T) + Cardinality(M) - Cardinality(T \cap M)
    BY <1>7, <1>9, FS_Union
  <2>2. Cardinality(T \cap M) = 0
    BY <1>10, FS_EmptySet
  <2> QED
    BY <2>1, <2>2, <1>6, <1>7, <1>9, <1>11
<1>13. <<>> \notin D
  <2>1. <<>> \notin T
    <3>1. \A m \in EdgesBelow(n, l), v \in Seq(Letter) : More(m, v) # <<>>
      BY MoreNotEmpty DEF EdgesBelow, Edges
    <3> QED
      BY <3>1, <1>8 DEF Onto
  <2>2. <<>> \notin M
    BY <1>2, <1>4, <1>5, <1>6, MoreNotEmpty
  <2> QED
    BY <2>1, <2>2, <1>11
<1>14. \A t : t \in NotAfter(Here(n), More(l, u)) <=> (t = <<>> /\ final[n]) \/ t \in D
  <2>1. \A t : t \in M <=> \E v \in S : t = More(l, v)
    BY <1>4, <1>5
  <2> QED
    BY <2>1, <1>1, <1>3, <1>8, <1>11, NotAfterMore
<1>15. PICK A : A = NotAfter(Here(n), More(l, u))
  OBVIOUS
<1>16. CASE final[n]
  <2>1. A = D \cup {<<>>}
    BY <1>14, <1>15, <1>16
  <2>2. Cardinality(D \cup {<<>>}) = Cardinality(D) + 1
    BY <1>12, <1>13, FS_AddElement
  <2>3. Place(n, More(l, u)) = Cardinality(A) - 1
    BY <1>15, <1>16 DEF Place, Bit
  <2> QED
    BY <2>1, <2>2, <2>3, <1>1, <1>3, <1>6, <1>8, <1>9, <1>12
<1>17. CASE ~ final[n]
  <2>1. A = D
    BY <1>14, <1>15, <1>17
  <2>2. Place(n, More(l, u)) = Cardinality(A) - 0
    BY <1>15, <1>17 DEF Place, Bit
  <2> QED
    BY <2>1, <2>2, <1>1, <1>3, <1>6, <1>8, <1>9, <1>12
<1> QED
  BY <1>16, <1>17

LEMMA PlaceOfNothing ==
  ASSUME Holding, NEW n \in Reached
  PROVE  Place(n, <<>>) = 0
<1>1. n # NULL /\ final[n] \in BOOLEAN
  BY ReachedIs
<1>2. <<>> \in Here(n) <=> final[n]
  BY <1>1, ReadNothing DEF Here
<1>3. \A t \in Here(n) : LessEq(t, <<>>) <=> t = <<>>
  BY LessNothing DEF Here, Read
<1>4. PICK A : A = NotAfter(Here(n), <<>>)
  OBVIOUS
<1>5. Place(n, <<>>) = Cardinality(A) - Bit(final[n])
  BY <1>4 DEF Place
<1>6. CASE final[n]
  <2>1. A = {<<>>}
    BY <1>2, <1>3, <1>4, <1>6 DEF NotAfter
  <2>2. Cardinality(A) = 1
    BY <2>1, FS_Singleton
  <2> QED
    BY <2>2, <1>5, <1>6 DEF Bit
<1>7. CASE ~ final[n]
  <2>1. A = {}
    BY <1>2, <1>3, <1>4, <1>7 DEF NotAfter
  <2>2. Cardinality(A) = 0
    BY <2>1, FS_EmptySet
  <2> QED
    BY <2>2, <1>5, <1>7 DEF Bit
<1> QED
  BY <1>6, <1>7

LEMMA RankRange ==
  ASSUME Holding, NEW n \in Reached, NEW t \in Here(n)
  PROVE  /\ Cardinality(Here(n)) \in Nat
         /\ Cardinality(NotAfter(Here(n), t)) \in 1..Cardinality(Here(n))
<1>1. PICK R : R = WordOrder(Here(n))
  OBVIOUS
<1>2. Here(n) \subseteq Seq(Nat)
  BY LetterAssumption, SeqMonotonic DEF Here, Read
<1>3. UpTo(R, Here(n), t) = NotAfter(Here(n), t)
  BY <1>1, <1>2, WordsAreOrdered
<1>4. IsFiniteSet(Here(n))
  BY HereFinite
<1>5. /\ Cardinality(Here(n)) \in Nat
      /\ Cardinality(UpTo(R, Here(n), t)) \in 1..Cardinality(Here(n))
  BY <1>4, RankInRange
<1> QED
  BY <1>3, <1>5

-----------------------------------------------------------------------------
(***************************************************************************)
(* word2index                                                              *)
(***************************************************************************)

Way(w) == Run(children, q0, w)

OnWay(w, k) == Way(w)[k] \in Reached /\ Rest(w, k) \in Here(Way(w)[k])

GoesOn(w, k) ==
  /\ w[k + 1] \in Edges(Way(w)[k]) /\ Way(w)[k + 1] = children[Way(w)[k]][w[k + 1]]
  /\ Rest(w, k) = More(w[k + 1], Rest(w, k + 1))
  /\ OnWay(w, k + 1)

LEMMA WayGoesOn ==
  ASSUME Holding, NEW w \in Seq(Letter), NEW k \in 0..Len(w), k < Len(w), OnWay(w, k)
  PROVE  GoesOn(w, k)
<1>1. PICK n : n = Way(w)[k]
  OBVIOUS
<1>2. n \in Reached /\ n # NULL /\ Rest(w, k) \in Here(n)
  BY <1>1, ReachedIs DEF OnWay
<1>3. PICK i \in 1..Len(w) : i = k + 1 /\ i - 1 = k /\ i \in 0..Len(w)
  <2>1. Len(w) \in Nat
    BY LenProperties
  <2>2. k + 1 \in 1..Len(w) /\ (k + 1) - 1 = k /\ k + 1 \in 0..Len(w)
    BY <2>1
  <2> QED
    BY <2>2
<1>4. PICK l \in Letter : l = w[i]
  BY ElementOfSeq
<1>5. PICK u : u = Rest(w, i)
  OBVIOUS
<1>6. u \in Seq(Letter)
  <2>1. IsRestOf(u, w, i)
    BY <1>3, <1>5, RestIs
  <2> QED
    BY <2>1 DEF IsRestOf
<1>7. Rest(w, k) = More(l, u)
  <2>1. IsLetterByLetter(Rest(w, k), w, k)
    BY RestOfRest
  <2> QED
    BY <2>1, <1>3, <1>4, <1>5 DEF IsLetterByLetter
<1>8. u \in Here(children[n][l])
  <2>1. More(l, u) \in Here(n)
    BY <1>2, <1>7
  <2> QED
    BY <2>1, <1>2, <1>6, ReadMore DEF Here
<1>9. children[n][l] # NULL /\ l \in Edges(n) /\ children[n][l] \in Reached
  <2>1. children[n][l] # NULL
    BY <1>8, ReadNull DEF Here
  <2> QED
    BY <2>1, <1>2, EdgeLeadsOn DEF Edges
<1>10. Way(w)[i] = children[n][l]
  <2>1. Len(w) \in Nat
    BY LenProperties
  <2>2. Way(w)[i] = GetChild(children, Way(w)[i - 1], w[i])
    BY <2>1, RunStep DEF Way
  <2> QED
    BY <2>2, <1>1, <1>2, <1>3, <1>4 DEF GetChild
<1> QED
  BY <1>1, <1>3, <1>4, <1>5, <1>7, <1>8, <1>9, <1>10 DEF GoesOn, OnWay

LEMMA WayStarts ==
  ASSUME Holding, NEW w \in added
  PROVE  /\ w \in Seq(Letter) /\ Len(w) \in Nat /\ 0 \in 0..Len(w)
         /\ Way(w)[0] = q0 /\ Rest(w, 0) = w /\ OnWay(w, 0)
<1>1. w \in Seq(Letter) /\ Here(q0) = added
  BY HoldingObserved DEF Holding, Here
<1>2. Len(w) \in Nat /\ 0 \in 0..Len(w)
  BY <1>1, LenProperties
<1>3. Way(w)[0] = q0
  BY <1>2, RunStep DEF Way
<1>4. Rest(w, 0) = w
  <2>1. IsLetterByLetter(Rest(w, 0), w, 0)
    BY <1>1, <1>2, RestOfRest
  <2> QED
    BY <2>1 DEF IsLetterByLetter
<1> QED
  BY <1>1, <1>2, <1>3, <1>4, ReachedIs DEF OnWay

LEMMA WayIs ==
  ASSUME Holding, NEW w \in added
  PROVE  \A k \in 0..Len(w) : OnWay(w, k)
<1> DEFINE Bad == {k \in 0..Len(w) : ~ OnWay(w, k)}
<1>1. w \in Seq(Letter) /\ Len(w) \in Nat /\ 0 \in 0..Len(w) /\ OnWay(w, 0)
  BY WayStarts
<1>2. Bad = {}
  <2> SUFFICES ASSUME Bad # {} PROVE FALSE
    OBVIOUS
  <2>1. PICK k \in Bad : \A j \in Bad : k <= j
    <3>1. Bad \subseteq Nat
      OBVIOUS
    <3> HIDE DEF Bad
    <3> QED
      BY <3>1, LeastNatural
  <2>2. k # 0
    BY <2>1, <1>1
  <2>3. PICK j \in 0..Len(w) : j + 1 = k /\ j < Len(w) /\ j \notin Bad
    <3>1. k - 1 \in 0..Len(w) /\ (k - 1) + 1 = k /\ k - 1 < Len(w) /\ k - 1 \notin Bad
      BY <2>1, <2>2, <1>1
    <3> QED
      BY <3>1
  <2>4. GoesOn(w, j)
    BY <2>3, <1>1, WayGoesOn
  <2> QED
    BY <2>1, <2>3, <2>4 DEF GoesOn
<1> QED
  BY <1>2

(***************************************************************************)
(* The place of the rest of a word at each node of its way.                *)
(***************************************************************************)
PlaceAt(w, k) == Place(Way(w)[k], Rest(w, k))

LEMMA PlaceAtIs ==
  ASSUME Holding, NEW w \in added, NEW k \in 0..Len(w)
  PROVE  /\ final[Way(w)[k]] \in BOOLEAN
         /\ PlaceAt(w, k) \in Int
         /\ Cardinality(Here(Way(w)[k])) \in Nat
         /\ Cardinality(NotAfter(Here(Way(w)[k]), Rest(w, k))) = PlaceAt(w, k) + Bit(final[Way(w)[k]])
         /\ PlaceAt(w, k) + Bit(final[Way(w)[k]]) \in 1..Cardinality(Here(Way(w)[k]))
<1>1. PICK n : n = Way(w)[k]
  OBVIOUS
<1>2. PICK t : t = Rest(w, k)
  OBVIOUS
<1>3. n \in Reached /\ t \in Here(n)
  BY <1>1, <1>2, WayIs DEF OnWay
<1>4. final[n] \in BOOLEAN /\ Bit(final[n]) \in {0, 1}
  BY <1>3, ReachedIs, BitIs
<1>5. PICK r : r = Cardinality(NotAfter(Here(n), t))
  OBVIOUS
<1>6. PICK m : m = Cardinality(Here(n))
  OBVIOUS
<1>7. m \in Nat /\ r \in 1..m
  BY <1>3, <1>5, <1>6, RankRange
<1>8. PICK b \in {0, 1} : b = Bit(final[n])
  BY <1>4
<1>9. PlaceAt(w, k) = r - b
  BY <1>1, <1>2, <1>5, <1>8 DEF PlaceAt, Place
<1>10. r - b \in Int /\ (r - b) + b = r
  BY <1>7, <1>8
<1> QED
  BY <1>1, <1>2, <1>4, <1>5, <1>6, <1>7, <1>8, <1>9, <1>10

LEMMA PlaceAtNext ==
  ASSUME Holding, NEW w \in added, NEW k \in 0..Len(w), k < Len(w)
  PROVE  PlaceAt(w, k) = Cardinality(Onto(Way(w)[k], EdgesBelow(Way(w)[k], w[k + 1])))
                           + PlaceAt(w, k + 1) + Bit(final[Way(w)[k + 1]])
<1>1. w \in Seq(Letter) /\ Len(w) \in Nat
  BY WayStarts
<1>2. PICK i \in 0..Len(w) : i = k + 1
  BY <1>1
<1>3. OnWay(w, k) /\ OnWay(w, i)
  BY WayIs
<1>4. GoesOn(w, k)
  BY <1>1, <1>3, WayGoesOn
<1>5. PICK n : n = Way(w)[k]
  OBVIOUS
<1>6. PICK c : c = Way(w)[i]
  OBVIOUS
<1>7. PICK l : l = w[i]
  OBVIOUS
<1>8. PICK u : u = Rest(w, i)
  OBVIOUS
<1>9. n \in Reached /\ l \in Edges(n) /\ c = children[n][l] /\ u \in Here(c) /\ Rest(w, k) = More(l, u)
  BY <1>2, <1>3, <1>4, <1>5, <1>6, <1>7, <1>8 DEF OnWay, GoesOn
<1>10. Place(n, More(l, u)) = Cardinality(Onto(n, EdgesBelow(n, l))) + Cardinality(NotAfter(Here(c), u))
  BY <1>9, PlaceStep
<1>11. /\ Cardinality(NotAfter(Here(c), u)) = PlaceAt(w, i) + Bit(final[c])
       /\ PlaceAt(w, i) \in Int /\ final[c] \in BOOLEAN
  BY <1>6, <1>8, PlaceAtIs
<1>12. PICK x \in Int : x = PlaceAt(w, i)
  BY <1>11
<1>13. PICK b \in {0, 1} : b = Bit(final[c])
  BY <1>11, BitIs
<1>14. PICK y \in Nat : y = Cardinality(Onto(n, EdgesBelow(n, l)))
  BY <1>9, OntoFinite
<1>15. PlaceAt(w, k) = y + (x + b)
  BY <1>5, <1>9, <1>10, <1>11, <1>12, <1>13, <1>14 DEF PlaceAt
<1>16. y + (x + b) = y + x + b
  OBVIOUS
<1> QED
  BY <1>2, <1>5, <1>6, <1>7, <1>12, <1>13, <1>14, <1>15, <1>16

LEMMA PlaceAtEnd ==
  ASSUME Holding, NEW w \in added
  PROVE  Len(w) \in 0..Len(w) /\ PlaceAt(w, Len(w)) = 0
<1>1. w \in Seq(Letter) /\ Len(w) \in 0..Len(w)
  BY WayStarts
<1>2. IsLetterByLetter(Rest(w, Len(w)), w, Len(w))
  BY <1>1, RestOfRest
<1>3. Rest(w, Len(w)) = <<>>
  BY <1>2 DEF IsLetterByLetter
<1>4. Way(w)[Len(w)] \in Reached
  BY <1>1, WayIs DEF OnWay
<1> QED
  BY <1>1, <1>3, <1>4, PlaceOfNothing DEF PlaceAt

LEMMA PlaceAtStart ==
  ASSUME Holding, <<>> \notin added, NEW w \in added
  PROVE  Rank(w) = PlaceAt(w, 0)
<1>1. Way(w)[0] = q0 /\ Rest(w, 0) = w
  BY WayStarts
<1>2. Here(q0) = added
  BY DEF Here, Holding
<1>3. ~ final[q0] /\ Bit(final[q0]) = 0
  <2>1. q0 # NULL /\ final[q0] \in BOOLEAN
    BY ReachedIs
  <2> QED
    BY <2>1, <1>2, ReadNothing DEF Here, Bit
<1>4. Place(q0, w) = Cardinality(NotAfter(added, w)) - 0
  BY <1>2, <1>3 DEF Place
<1>5. Rank(w) = Cardinality(NotAfter(added, w))
  BY DEF Rank, NotAfter
<1>6. Cardinality(NotAfter(added, w)) \in Nat
  <2>1. IsFiniteSet(NotAfter(added, w))
    BY FS_Subset DEF NotAfter, Holding
  <2> QED
    BY <2>1, FS_CardinalityType
<1> QED
  BY <1>1, <1>4, <1>5, <1>6 DEF PlaceAt

(***************************************************************************)
(* The equations of its loop: index grows by as much as the place of what  *)
(* is left shrinks.                                                        *)
(***************************************************************************)
AreIndices(h, num, w) ==
  h = [k \in 0..Len(w) |->
         IF k = 0 THEN 0
         ELSE h[k - 1] + Bit(final[Way(w)[k]])
                + Sum(num, Way(w)[k - 1], EdgesBelow(Way(w)[k - 1], w[k]))]

LEMMA PassedIs ==
  ASSUME Holding, NEW num, NumbersRight(num), NEW w \in added, NEW k \in 1..Len(w)
  PROVE  /\ k - 1 \in 0..Len(w) /\ k \in 0..Len(w)
         /\ PlaceAt(w, k - 1) \in Int /\ PlaceAt(w, k) \in Int
         /\ Bit(final[Way(w)[k]]) + Sum(num, Way(w)[k - 1], EdgesBelow(Way(w)[k - 1], w[k]))
              = PlaceAt(w, k - 1) - PlaceAt(w, k)
         /\ Sum(num, Way(w)[k - 1], EdgesBelow(Way(w)[k - 1], w[k])) \in Nat
         /\ Bit(final[Way(w)[k]]) \in {0, 1}
<1>1. Len(w) \in Nat
  BY WayStarts
<1>2. PICK j \in 0..Len(w) : j = k - 1 /\ j + 1 = k /\ j < Len(w)
  <2>1. k - 1 \in 0..Len(w) /\ (k - 1) + 1 = k /\ k - 1 < Len(w)
    BY <1>1
  <2> QED
    BY <2>1
<1>3. PICK n : n = Way(w)[j]
  OBVIOUS
<1>4. PICK s : s = Sum(num, n, EdgesBelow(n, w[k]))
  OBVIOUS
<1>5. s = Cardinality(Onto(n, EdgesBelow(n, w[k]))) /\ s \in Nat
  <2>1. n \in Reached
    BY <1>3, WayIs DEF OnWay
  <2>2. EdgesBelow(n, w[k]) \subseteq Edges(n)
    BY DEF EdgesBelow
  <2> QED
    BY <2>1, <2>2, <1>4, SumIsOnto, OntoFinite
<1>6. k \in 0..Len(w)
  BY <1>1
<1>7. PICK b \in {0, 1} : b = Bit(final[Way(w)[k]])
  BY <1>6, PlaceAtIs, BitIs
<1>8. PICK x \in Int : x = PlaceAt(w, k)
  BY <1>6, PlaceAtIs
<1>9. PICK y \in Int : y = PlaceAt(w, j)
  BY PlaceAtIs
<1>10. y = s + x + b
  BY <1>2, <1>3, <1>5, <1>7, <1>8, <1>9, PlaceAtNext
<1>11. b + s = y - x
  <2>1. PICK z \in Nat : z = s
    BY <1>5
  <2>2. y = z + x + b
    BY <2>1, <1>10
  <2>3. b + z = y - x
    BY <2>2
  <2> QED
    BY <2>1, <2>3
<1> QED
  BY <1>2, <1>3, <1>4, <1>5, <1>6, <1>7, <1>8, <1>9, <1>11

Passed(w, k) == PlaceAt(w, 0) - PlaceAt(w, k)

LEMMA PassedOn ==
  ASSUME Holding, NEW num, NumbersRight(num), NEW w \in added, NEW k \in 1..Len(w)
  PROVE  /\ k - 1 \in 0..Len(w) /\ k \in 0..Len(w)
         /\ Passed(w, k) = Passed(w, k - 1) + Bit(final[Way(w)[k]])
                             + Sum(num, Way(w)[k - 1], EdgesBelow(Way(w)[k - 1], w[k]))
<1>1. PICK s : s = Sum(num, Way(w)[k - 1], EdgesBelow(Way(w)[k - 1], w[k]))
  OBVIOUS
<1>2. PICK b : b = Bit(final[Way(w)[k]])
  OBVIOUS
<1>3. PICK x : x = PlaceAt(w, k)
  OBVIOUS
<1>4. PICK y : y = PlaceAt(w, k - 1)
  OBVIOUS
<1>5. PICK p \in Int : p = PlaceAt(w, 0)
  <2>1. 0 \in 0..Len(w)
    BY WayStarts
  <2> QED
    BY <2>1, PlaceAtIs
<1>6. /\ k - 1 \in 0..Len(w) /\ k \in 0..Len(w)
      /\ y \in Int /\ x \in Int /\ b + s = y - x /\ s \in Nat /\ b \in {0, 1}
  BY <1>1, <1>2, <1>3, <1>4, PassedIs
<1>7. p - x = (p - y) + b + s
  <2>1. PICK i \in Int, j \in Int, z \in Nat : i = x /\ j = y /\ z = s
    BY <1>6
  <2>2. b + z = j - i
    BY <2>1, <1>6
  <2>3. p - i = (p - j) + b + z
    BY <2>2, <1>6
  <2> QED
    BY <2>1, <2>3
<1>8. Passed(w, k) = p - x /\ Passed(w, k - 1) = p - y
  BY <1>3, <1>4, <1>5 DEF Passed
<1> QED
  BY <1>1, <1>2, <1>6, <1>7, <1>8

LEMMA PassedNothing ==
  ASSUME Holding, NEW w \in added
  PROVE  Passed(w, 0) = 0
<1>1. PICK p \in Int : p = PlaceAt(w, 0)
  <2>1. 0 \in 0..Len(w)
    BY WayStarts
  <2> QED
    BY <2>1, PlaceAtIs
<1> QED
  BY <1>1 DEF Passed

LEMMA IndicesExist ==
  ASSUME Holding, NEW num, NumbersRight(num), NEW w \in added
  PROVE  \E h : AreIndices(h, num, w)
<1>1. PICK h : h = [k \in 0..Len(w) |-> Passed(w, k)]
  OBVIOUS
<1>2. ASSUME NEW k \in 0..Len(w)
      PROVE  h[k] = IF k = 0 THEN 0
                    ELSE h[k - 1] + Bit(final[Way(w)[k]])
                           + Sum(num, Way(w)[k - 1], EdgesBelow(Way(w)[k - 1], w[k]))
  <2>1. CASE k = 0
    BY <2>1, <1>1, PassedNothing
  <2>2. CASE k # 0
    <3>1. k \in 1..Len(w)
      BY <2>2, WayStarts
    <3>2. k - 1 \in 0..Len(w)
      BY <3>1, PassedOn
    <3>3. h[k] = Passed(w, k) /\ h[k - 1] = Passed(w, k - 1)
      BY <3>2, <1>1
    <3> QED
      BY <2>2, <3>1, <3>3, PassedOn
  <2> QED
    BY <2>1, <2>2
<1>3. AreIndices(h, num, w)
  BY <1>1, <1>2 DEF AreIndices
<1> QED
  BY <1>3

LEMMA IndicesAre ==
  ASSUME Holding, NEW num, NumbersRight(num), NEW w \in added, NEW h, AreIndices(h, num, w)
  PROVE  \A k \in 0..Len(w) : h[k] = Passed(w, k)
<1> DEFINE Bad == {k \in 0..Len(w) : h[k] # Passed(w, k)}
<1>1. Len(w) \in Nat
  BY WayStarts
<1>2. Bad = {}
  <2> SUFFICES ASSUME Bad # {} PROVE FALSE
    OBVIOUS
  <2>1. PICK k \in Bad : \A j \in Bad : k <= j
    <3>1. Bad \subseteq Nat
      BY <1>1
    <3> HIDE DEF Bad
    <3> QED
      BY <3>1, LeastNatural
  <2>2. k \in 0..Len(w) /\ h[k] # Passed(w, k)
    BY <2>1
  <2>3. h[k] = IF k = 0 THEN 0
               ELSE h[k - 1] + Bit(final[Way(w)[k]])
                      + Sum(num, Way(w)[k - 1], EdgesBelow(Way(w)[k - 1], w[k]))
    BY <2>2 DEF AreIndices
  <2>4. k # 0
    BY <2>2, <2>3, PassedNothing
  <2>5. k \in 1..Len(w)
    BY <2>2, <2>4, <1>1
  <2>6. k - 1 \in 0..Len(w) /\ k - 1 \notin Bad
    BY <2>1, <2>5, <1>1
  <2>7. h[k - 1] = Passed(w, k - 1)
    BY <2>6
  <2> QED
    BY <2>2, <2>3, <2>4, <2>5, <2>7, PassedOn
<1> QED
  BY <1>2

(***************************************************************************)
(* word2index gives the rank.                                              *)
(***************************************************************************)
LEMMA IndexIs ==
  ASSUME Holding, <<>> \notin added, NEW num, NumbersRight(num), NEW w \in added
  PROVE  IndexOf(num, w) = Rank(w)
<1> DEFINE R(h) == h = [k \in 0..Len(w) |->
                         IF k = 0 THEN 0
                         ELSE h[k - 1] + Bit(final[Run(children, q0, w)[k]])
                                + Sum(num, Run(children, q0, w)[k - 1],
                                      {l \in Edges(Run(children, q0, w)[k - 1]) : l < w[k]})]
<1>1. \A h : R(h) <=> AreIndices(h, num, w)
  BY DEF AreIndices, Way, EdgesBelow
<1>2. \E h : R(h)
  BY <1>1, IndicesExist
<1>3. PICK h : h = CHOOSE e : R(e)
  OBVIOUS
<1>4. AreIndices(h, num, w)
  BY <1>1, <1>2, <1>3
<1>5. Len(w) \in 0..Len(w) /\ Way(w)[Len(w)] # NULL /\ PlaceAt(w, Len(w)) = 0
  BY PlaceAtEnd, WayIs, ReachedIs DEF OnWay
<1>6. IndexOf(num, w) = h[Len(w)]
  BY <1>3, <1>5 DEF IndexOf, Way
<1>7. PICK p \in Int : p = PlaceAt(w, 0)
  <2>1. 0 \in 0..Len(w)
    BY WayStarts
  <2> QED
    BY <2>1, PlaceAtIs
<1>8. Passed(w, Len(w)) = p
  BY <1>5, <1>7 DEF Passed
<1>9. h[Len(w)] = Passed(w, Len(w))
  BY <1>4, <1>5, IndicesAre
<1>10. Rank(w) = p
  BY <1>7, PlaceAtStart
<1> QED
  BY <1>6, <1>8, <1>9, <1>10

-----------------------------------------------------------------------------
(***************************************************************************)
(* index2word                                                              *)
(***************************************************************************)

LEMMA LeastIs ==
  ASSUME NEW S, S \subseteq Nat, NEW x \in S, \A y \in S : x <= y
  PROVE  Min(S) = x
<1>1. Min(S) \in S /\ \A y \in S : Min(S) <= y
  BY DEF Min
<1>2. Min(S) <= x /\ x <= Min(S) /\ x \in Nat /\ Min(S) \in Nat
  BY <1>1
<1> QED
  BY <1>2

EdgesTo(n, l) == {m \in Edges(n) : m <= l}

LEMMA OntoMore ==
  ASSUME Holding, NEW n \in Reached, NEW l \in Edges(n)
  PROVE  Cardinality(Onto(n, EdgesTo(n, l)))
           = Cardinality(Onto(n, EdgesBelow(n, l))) + Cardinality(Here(children[n][l]))
<1>1. PICK S : S = Onto(n, EdgesBelow(n, l))
  OBVIOUS
<1>2. PICK T : T = Onto(n, {l})
  OBVIOUS
<1>3. /\ IsFiniteSet(S) /\ Cardinality(S) \in Nat
      /\ IsFiniteSet(T) /\ Cardinality(T) \in Nat
  BY <1>1, <1>2, OntoFinite
<1>4. l \in Letter /\ Cardinality(T) = Cardinality(Here(children[n][l]))
  BY <1>2, AsManyOnward
<1>5. \A m \in Edges(n) : m <= l <=> m < l \/ m = l
  BY <1>4, LetterAssumption DEF Edges
<1>6. Onto(n, EdgesTo(n, l)) = S \cup T
  BY <1>1, <1>2, <1>5 DEF Onto, EdgesTo, EdgesBelow
<1>7. S \cap T = {}
  <2> SUFFICES ASSUME NEW t \in S, t \in T PROVE FALSE
    OBVIOUS
  <2>1. PICK v \in Seq(Letter) : t = More(l, v)
    BY <1>2 DEF Onto
  <2>2. PICK m \in EdgesBelow(n, l), u \in Seq(Letter) : t = More(m, u)
    BY <1>1 DEF Onto
  <2>3. m \in Letter /\ m < l
    BY <2>2 DEF EdgesBelow, Edges
  <2>4. More(m, u) = More(l, v)
    BY <2>1, <2>2
  <2>5. m = l
    BY <2>3, <2>4, <1>4, MoreInjective
  <2> QED
    BY <2>3, <2>5, <1>4, LetterAssumption
<1>8. Cardinality(S \cup T) = Cardinality(S) + Cardinality(T)
  <2>1. Cardinality(S \cup T) = Cardinality(S) + Cardinality(T) - Cardinality(S \cap T)
    BY <1>3, FS_Union
  <2>2. Cardinality(S \cap T) = 0
    BY <1>7, FS_EmptySet
  <2> QED
    BY <2>1, <2>2, <1>3
<1> QED
  BY <1>1, <1>4, <1>6, <1>8

LEMMA OntoGrows ==
  ASSUME Holding, NEW n \in Reached, NEW L, NEW M, L \subseteq M
  PROVE  Cardinality(Onto(n, L)) <= Cardinality(Onto(n, M))
<1>1. Onto(n, L) \subseteq Onto(n, M)
  BY DEF Onto
<1> QED
  BY <1>1, OntoFinite, FS_Subset

(***************************************************************************)
(* The first letter up to which there are enough words is the next one of  *)
(* the word of that index.                                                 *)
(***************************************************************************)
LEMMA EnoughIs ==
  ASSUME Holding, NEW num, NumbersRight(num), NEW n \in Reached, NEW l \in Edges(n),
         NEW r \in 1..Cardinality(Here(children[n][l])),
         NEW count, count = Cardinality(Onto(n, EdgesBelow(n, l))) + r
  PROVE  Enough(num, n, count) # {} /\ Min(Enough(num, n, count)) = l
<1>1. PICK y \in Nat : y = Cardinality(Onto(n, EdgesBelow(n, l)))
  BY OntoFinite
<1>2. PICK c \in Nat : c = Cardinality(Here(children[n][l]))
  <2>1. children[n][l] \in Reached
    BY AsManyOnward
  <2>2. Cardinality(Here(children[n][l])) \in Nat
    BY <2>1, HereFinite, FS_CardinalityType
  <2> QED
    BY <2>2
<1>3. r \in 1..c
  BY <1>2
<1>4. PICK S : S = Enough(num, n, y + r)
  OBVIOUS
<1>5. \A m : m \in S <=> m \in Edges(n) /\ Cardinality(Onto(n, EdgesTo(n, m))) >= y + r
  <2>1. \A m : EdgesTo(n, m) \subseteq Edges(n)
    BY DEF EdgesTo
  <2>2. \A m : Sum(num, n, EdgesTo(n, m)) = Cardinality(Onto(n, EdgesTo(n, m)))
    BY <2>1, SumIsOnto
  <2> QED
    BY <2>2, <1>4 DEF Enough, EdgesTo
<1>6. Edges(n) \subseteq Nat
  BY LetterAssumption DEF Edges
<1>7. l \in S
  <2>1. Cardinality(Onto(n, EdgesTo(n, l))) = y + c
    BY <1>1, <1>2, OntoMore
  <2>2. y + c >= y + r
    BY <1>3
  <2> QED
    BY <2>1, <2>2, <1>5
<1>8. ASSUME NEW m \in S PROVE l <= m
  <2> SUFFICES ASSUME m < l PROVE FALSE
    BY <1>5, <1>6
  <2>1. EdgesTo(n, m) \subseteq EdgesBelow(n, l)
    <3>1. m \in Nat /\ l \in Nat
      BY <1>5, <1>6
    <3>2. ASSUME NEW e \in Edges(n), e <= m PROVE e < l
      BY <3>1, <3>2, <1>6
    <3> QED
      BY <3>2 DEF EdgesTo, EdgesBelow
  <2>2. PICK x \in Nat : x = Cardinality(Onto(n, EdgesTo(n, m)))
    BY OntoFinite
  <2>3. x <= y
    BY <2>1, <2>2, <1>1, OntoGrows
  <2>4. x >= y + r
    BY <2>2, <1>5
  <2> QED
    BY <2>3, <2>4, <1>3
<1>9. S \subseteq Nat
  BY <1>5, <1>6
<1>10. Min(S) = l
  BY <1>7, <1>8, <1>9, LeastIs
<1> QED
  BY <1>1, <1>4, <1>7, <1>10

(***************************************************************************)
(* What its loop has after k letters of the word w.                        *)
(***************************************************************************)
Position(w, k) == [state |-> Way(w)[k], word |-> SubSeq(w, 1, k), count |-> PlaceAt(w, k)]

LEMMA DescendedIs ==
  ASSUME Holding, NEW num, NumbersRight(num), NEW w \in added, NEW k \in 0..Len(w), k < Len(w)
  PROVE  /\ k + 1 \in 0..Len(w)
         /\ Position(w, k).count > 0
         /\ Descended(num, Position(w, k)) = Position(w, k + 1)
<1>1. w \in Seq(Letter) /\ w \in Seq(Nat) /\ Len(w) \in Nat
  BY WayStarts, LetterAssumption, SeqMonotonic
<1>2. PICK i \in 0..Len(w) : i = k + 1
  BY <1>1
<1>3. PICK n : n = Way(w)[k]
  OBVIOUS
<1>4. PICK c : c = Way(w)[i]
  OBVIOUS
<1>5. PICK l : l = w[i]
  OBVIOUS
<1>6. n \in Reached /\ l \in Edges(n) /\ c = children[n][l]
  <2>1. OnWay(w, k)
    BY WayIs
  <2>2. GoesOn(w, k)
    BY <2>1, <1>1, WayGoesOn
  <2> QED
    BY <2>1, <2>2, <1>2, <1>3, <1>4, <1>5 DEF OnWay, GoesOn
<1>7. PICK b \in {0, 1} : b = Bit(final[c])
  BY <1>4, PlaceAtIs, BitIs
<1>8. PICK x \in Int : x = PlaceAt(w, i)
  BY PlaceAtIs
<1>9. PICK r : r = x + b /\ r \in 1..Cardinality(Here(c)) /\ Cardinality(Here(c)) \in Nat
  BY <1>4, <1>7, <1>8, PlaceAtIs
<1>10. PICK y \in Nat : y = Cardinality(Onto(n, EdgesBelow(n, l)))
  BY <1>6, OntoFinite
<1>11. PICK p : p = PlaceAt(w, k)
  OBVIOUS
<1>12. p = y + r /\ p > 0 /\ (p - y) - b = x
  <2>1. p = y + x + b
    BY <1>2, <1>3, <1>4, <1>5, <1>7, <1>8, <1>10, <1>11, PlaceAtNext
  <2>2. r \in Nat /\ r >= 1
    BY <1>9
  <2> QED
    BY <2>1, <2>2, <1>9
<1>13. Enough(num, n, p) # {} /\ Min(Enough(num, n, p)) = l
  <2>1. r \in 1..Cardinality(Here(children[n][l])) /\ p = Cardinality(Onto(n, EdgesBelow(n, l))) + r
    BY <1>6, <1>9, <1>10, <1>12
  <2> QED
    BY <2>1, <1>6, EnoughIs
<1>14. Sum(num, n, {m \in Edges(n) : m < l}) = y
  <2>1. EdgesBelow(n, l) \subseteq Edges(n)
    BY DEF EdgesBelow
  <2>2. Sum(num, n, EdgesBelow(n, l)) = y
    BY <2>1, <1>6, <1>10, SumIsOnto
  <2> QED
    BY <2>2 DEF EdgesBelow
<1>15. PICK s : s = SubSeq(w, 1, k)
  OBVIOUS
<1>16. SubSeq(w, 1, i) = Append(s, l)
  BY <1>1, <1>2, <1>5, <1>15, OneMoreLetter
<1>17. PICK m : m = Position(w, k)
  OBVIOUS
<1>18. m.state = n /\ m.word = s /\ m.count = p
  BY <1>3, <1>11, <1>15, <1>17 DEF Position
<1>19. Position(w, i) = [state |-> c, word |-> Append(s, l), count |-> x]
  BY <1>4, <1>8, <1>16 DEF Position
<1>20. Descended(num, m) = [state |-> c, word |-> Append(s, l), count |-> p - y - b]
  BY <1>6, <1>7, <1>13, <1>14, <1>18 DEF Descended
<1>21. Descended(num, m) = Position(w, i)
  BY <1>12, <1>19, <1>20
<1> QED
  BY <1>2, <1>12, <1>17, <1>18, <1>21

(***************************************************************************)
(* The loop has this after k iterations: it stops with the last letter.    *)
(***************************************************************************)
After(w, k) == Position(w, IF k <= Len(w) THEN k ELSE Len(w))

GoneOn(num, m) == IF m.count <= 0 THEN m ELSE Descended(num, m)

LEMMA AfterNext ==
  ASSUME Holding, NEW num, NumbersRight(num), NEW w \in added, NEW k \in Nat
  PROVE  After(w, k + 1) = GoneOn(num, After(w, k))
<1>1. Len(w) \in Nat
  BY WayStarts
<1>2. CASE k < Len(w)
  <2>1. k \in 0..Len(w)
    BY <1>1, <1>2
  <2>2. After(w, k) = Position(w, k) /\ After(w, k + 1) = Position(w, k + 1)
    BY <1>1, <1>2 DEF After
  <2>3. Position(w, k).count > 0 /\ Position(w, k).count \in Int
    BY <1>2, <2>1, DescendedIs, PlaceAtIs DEF Position
  <2>4. ~ (Position(w, k).count <= 0)
    BY <2>3
  <2> QED
    BY <1>2, <2>1, <2>2, <2>4, DescendedIs DEF GoneOn
<1>3. CASE ~ (k < Len(w))
  <2>1. After(w, k + 1) = Position(w, Len(w))
    BY <1>1, <1>3 DEF After
  <2>2. After(w, k) = Position(w, Len(w))
    BY <1>1, <1>3 DEF After
  <2>3. Position(w, Len(w)).count = 0
    BY PlaceAtEnd DEF Position
  <2>4. Position(w, Len(w)).count <= 0
    BY <2>3
  <2> QED
    BY <2>1, <2>2, <2>4 DEF GoneOn
<1> QED
  BY <1>2, <1>3

LEMMA AfterNothing ==
  ASSUME Holding, <<>> \notin added, NEW w \in added
  PROVE  After(w, 0) = [state |-> q0, word |-> <<>>, count |-> Rank(w)]
<1>1. Len(w) \in Nat /\ Way(w)[0] = q0 /\ w \in Seq(Nat) /\ 0 \in 0..Len(w)
  BY WayStarts, LetterAssumption, SeqMonotonic
<1>2. After(w, 0) = Position(w, 0)
  BY <1>1 DEF After
<1>3. SubSeq(w, 1, 0) = <<>>
  <2>1. PICK s : s = SubSeq(w, 1, 0)
    OBVIOUS
  <2>2. s \in Seq(Nat) /\ Len(s) = 0
    BY <1>1, <2>1, BeginningIs
  <2> QED
    BY <2>1, <2>2, EmptySeq
<1>4. Rank(w) = PlaceAt(w, 0)
  BY PlaceAtStart
<1> QED
  BY <1>1, <1>2, <1>3, <1>4 DEF Position

(***************************************************************************)
(* There are as many iterations as letters: heights fall along the way, so *)
(* that its nodes differ.                                                  *)
(***************************************************************************)
LEMMA HeightsFall ==
  ASSUME Holding, NEW height, Descends(height), NEW w \in added, NEW j \in 0..Len(w)
  PROVE  \A k \in 0..Len(w) : j < k => height[Way(w)[k]] < height[Way(w)[j]]
<1> DEFINE Bad == {k \in 0..Len(w) : j < k /\ ~ (height[Way(w)[k]] < height[Way(w)[j]])}
<1>1. Len(w) \in Nat /\ w \in Seq(Letter)
  BY WayStarts
<1>2. \A k \in 0..Len(w) : height[Way(w)[k]] \in Nat
  BY WayIs DEF OnWay, Descends
<1>3. Bad = {}
  <2> SUFFICES ASSUME Bad # {} PROVE FALSE
    OBVIOUS
  <2>1. PICK k \in Bad : \A i \in Bad : k <= i
    <3>1. Bad \subseteq Nat
      BY <1>1
    <3> HIDE DEF Bad
    <3> QED
      BY <3>1, LeastNatural
  <2>2. PICK i \in 0..Len(w) : i + 1 = k /\ i < Len(w) /\ i \notin Bad /\ j <= i
    <3>1. k \in 0..Len(w) /\ j < k
      BY <2>1
    <3>2. k - 1 \in 0..Len(w) /\ (k - 1) + 1 = k /\ k - 1 < Len(w) /\ j <= k - 1
      BY <3>1, <1>1
    <3>3. k - 1 \notin Bad
      BY <2>1, <3>1, <3>2
    <3> QED
      BY <3>2, <3>3
  <2>3. height[Way(w)[k]] < height[Way(w)[i]]
    <3>1. OnWay(w, i)
      BY WayIs
    <3>2. GoesOn(w, i)
      BY <2>2, <3>1, <1>1, WayGoesOn
    <3>3. PICK n : n = Way(w)[i]
      OBVIOUS
    <3>4. PICK l : l = w[k]
      OBVIOUS
    <3>5. n \in Reached /\ l \in Edges(n) /\ Way(w)[k] = children[n][l]
      BY <3>1, <3>2, <3>3, <3>4, <2>2 DEF OnWay, GoesOn
    <3>6. l \in Letter /\ children[n][l] # NULL
      BY <3>5 DEF Edges
    <3> QED
      BY <3>3, <3>5, <3>6 DEF Descends
  <2>4. k \in 0..Len(w) /\ ~ (height[Way(w)[k]] < height[Way(w)[j]])
    BY <2>1
  <2>5. i = j \/ (j < i /\ height[Way(w)[i]] < height[Way(w)[j]])
    BY <2>2, <1>1
  <2> HIDE DEF Bad
  <2> QED
    BY <2>2, <2>3, <2>4, <2>5, <1>2
<1> QED
  BY <1>3

LEMMA WayShort ==
  ASSUME Holding, NEW w \in added
  PROVE  Cardinality(Node) \in Nat /\ Len(w) <= Cardinality(Node)
<1>1. PICK height : Descends(height)
  BY HeightExists
<1>2. Len(w) \in Nat
  BY WayStarts
<1>3. PICK f : f = [k \in 0..Len(w) |-> Way(w)[k]]
  OBVIOUS
<1>4. f \in [0..Len(w) -> Node]
  <2>1. \A k \in 0..Len(w) : Way(w)[k] \in Node
    BY WayIs, ReachedIs DEF OnWay
  <2> QED
    BY <2>1, <1>3
<1>5. ASSUME NEW j \in 0..Len(w), NEW k \in 0..Len(w), j < k PROVE f[j] # f[k]
  <2>1. height[Way(w)[k]] < height[Way(w)[j]]
    BY <1>1, <1>5, HeightsFall
  <2>2. height[Way(w)[k]] \in Nat
    BY <1>1, WayIs DEF OnWay, Descends
  <2> QED
    BY <2>1, <2>2, <1>3
<1>6. \A j, k \in 0..Len(w) : f[j] = f[k] => j = k
  BY <1>2, <1>5
<1>7. f \in Injection(0..Len(w), Node)
  BY <1>4, <1>6 DEF Injection, IsInjective
<1>8. Cardinality(0..Len(w)) <= Cardinality(Node)
  BY <1>7, NodeAssumption, FS_Injection
<1>9. Cardinality(0..Len(w)) = Len(w) + 1
  <2>1. Cardinality(0..Len(w)) = IF 0 > Len(w) THEN 0 ELSE Len(w) - 0 + 1
    BY <1>2, FS_Interval
  <2> QED
    BY <2>1, <1>2
<1>10. Cardinality(Node) \in Nat
  BY NodeAssumption, FS_CardinalityType
<1> QED
  BY <1>2, <1>8, <1>9, <1>10

AreSteps(h, num, index) ==
  h = [k \in 0..Cardinality(Node) |->
         IF k = 0 THEN [state |-> q0, word |-> <<>>, count |-> index]
         ELSE GoneOn(num, h[k - 1])]

LEMMA StepsExist ==
  ASSUME Holding, <<>> \notin added, NEW num, NumbersRight(num), NEW w \in added
  PROVE  \E h : AreSteps(h, num, Rank(w))
<1>1. PICK h : h = [k \in 0..Cardinality(Node) |-> After(w, k)]
  OBVIOUS
<1>2. Cardinality(Node) \in Nat
  BY WayShort
<1>3. ASSUME NEW k \in 0..Cardinality(Node)
      PROVE  h[k] = IF k = 0 THEN [state |-> q0, word |-> <<>>, count |-> Rank(w)]
                    ELSE GoneOn(num, h[k - 1])
  <2>1. CASE k = 0
    BY <2>1, <1>1, AfterNothing
  <2>2. CASE k # 0
    <3>1. PICK j \in Nat : j + 1 = k /\ j = k - 1 /\ j \in 0..Cardinality(Node)
      <4>1. k - 1 \in Nat /\ (k - 1) + 1 = k /\ k - 1 \in 0..Cardinality(Node)
        BY <2>2, <1>2
      <4> QED
        BY <4>1
    <3>2. After(w, k) = GoneOn(num, After(w, j))
      BY <3>1, AfterNext
    <3> QED
      BY <2>2, <3>1, <3>2, <1>1
  <2> QED
    BY <2>1, <2>2
<1>4. AreSteps(h, num, Rank(w))
  BY <1>1, <1>3 DEF AreSteps
<1> QED
  BY <1>4

LEMMA StepsAre ==
  ASSUME Holding, <<>> \notin added, NEW num, NumbersRight(num), NEW w \in added,
         NEW h, AreSteps(h, num, Rank(w))
  PROVE  \A k \in 0..Cardinality(Node) : h[k] = After(w, k)
<1> DEFINE Bad == {k \in 0..Cardinality(Node) : h[k] # After(w, k)}
<1>1. Cardinality(Node) \in Nat
  BY WayShort
<1>2. Bad = {}
  <2> SUFFICES ASSUME Bad # {} PROVE FALSE
    OBVIOUS
  <2>1. PICK k \in Bad : \A j \in Bad : k <= j
    <3>1. Bad \subseteq Nat
      BY <1>1
    <3> HIDE DEF Bad
    <3> QED
      BY <3>1, LeastNatural
  <2>2. k \in 0..Cardinality(Node) /\ h[k] # After(w, k)
    BY <2>1
  <2>3. h[k] = IF k = 0 THEN [state |-> q0, word |-> <<>>, count |-> Rank(w)]
               ELSE GoneOn(num, h[k - 1])
    BY <2>2 DEF AreSteps
  <2>4. k # 0
    BY <2>2, <2>3, AfterNothing
  <2>5. PICK j \in Nat : j + 1 = k /\ j = k - 1 /\ j \in 0..Cardinality(Node) /\ j \notin Bad
    <3>1. k - 1 \in Nat /\ (k - 1) + 1 = k /\ k - 1 \in 0..Cardinality(Node) /\ ~ (k <= k - 1)
      BY <2>2, <2>4, <1>1
    <3>2. k - 1 \notin Bad
      BY <2>1, <3>1
    <3> QED
      BY <3>1, <3>2
  <2>6. h[j] = After(w, j)
    BY <2>5
  <2>7. After(w, k) = GoneOn(num, After(w, j))
    BY <2>5, AfterNext
  <2> QED
    BY <2>2, <2>3, <2>4, <2>5, <2>6, <2>7
<1> QED
  BY <1>2

(***************************************************************************)
(* index2word gives the word of a rank.                                    *)
(***************************************************************************)
LEMMA WordIs ==
  ASSUME Holding, <<>> \notin added, NEW num, NumbersRight(num), NEW w \in added
  PROVE  WordOf(num, Rank(w)) = w
<1> DEFINE R(h) == h = [k \in 0..Cardinality(Node) |->
                         IF k = 0 THEN [state |-> q0, word |-> <<>>, count |-> Rank(w)]
                         ELSE LET m == h[k - 1]
                              IN  IF m.count <= 0 THEN m ELSE Descended(num, m)]
<1>1. \A h : R(h) <=> AreSteps(h, num, Rank(w))
  BY DEF AreSteps, GoneOn
<1>2. \E h : R(h)
  BY <1>1, StepsExist
<1>3. PICK h : h = CHOOSE e : R(e)
  OBVIOUS
<1>4. AreSteps(h, num, Rank(w))
  BY <1>1, <1>2, <1>3
<1>5. WordOf(num, Rank(w)) = h[Cardinality(Node)].word
  BY <1>3 DEF WordOf
<1>6. Len(w) \in Nat /\ Cardinality(Node) \in Nat /\ Len(w) <= Cardinality(Node)
  BY WayStarts, WayShort
<1>7. After(w, Cardinality(Node)) = Position(w, Len(w))
  BY <1>6 DEF After
<1>8. h[Cardinality(Node)] = After(w, Cardinality(Node))
  BY <1>4, <1>6, StepsAre
<1>9. SubSeq(w, 1, Len(w)) = w
  BY WayStarts, WholeWord, LetterAssumption, SeqMonotonic
<1> QED
  BY <1>5, <1>7, <1>8, <1>9 DEF Position

(***************************************************************************)
(* Every index in the range is the rank of a word.                         *)
(***************************************************************************)
LEMMA WordOfRank ==
  ASSUME Holding, NEW index \in 1..Cardinality(added)
  PROVE  \E w \in added : Rank(w) = index
<1>1. added \subseteq Seq(Nat) /\ IsFiniteSet(added)
  BY WayStarts, LetterAssumption, SeqMonotonic DEF Holding
<1>2. PICK R : R = WordOrder(added)
  OBVIOUS
<1>3. IsOrder(R, added) /\ \A w \in added : UpTo(R, added, w) = NotAfter(added, w)
  BY <1>1, <1>2, WordsAreOrdered
<1>4. PICK w \in added : Cardinality(UpTo(R, added, w)) = index
  BY <1>1, <1>3, EveryRank
<1>5. Rank(w) = Cardinality(NotAfter(added, w))
  BY DEF Rank, NotAfter
<1> QED
  BY <1>3, <1>4, <1>5

-----------------------------------------------------------------------------
(***************************************************************************)
(* The numbers in the nodes are right as long as they are valid, and every *)
(* answer is from right numbers.                                           *)
(***************************************************************************)
Numbered == numbers_valid => NumbersRight(number)

LEMMA NumberedKept ==
  ASSUME Numbered, UNCHANGED <<children, final, number, numbers_valid>>
  PROVE  Numbered'
<1>1. Reached' = Reached
  BY DEF Reached
<1>2. \A n : Here(n)' = Here(n)
  BY DEF Here
<1> QED
  BY <1>1, <1>2 DEF Numbered, NumbersRight

LEMMA AnswerNumbered ==
  ASSUME Holding, Numbered, NEW a, Answer(a)
  PROVE  Numbered' /\ answer' = a /\ added' = added
<1>1. NumbersRight(Numbers)
  BY NumbersAre DEF Numbered
<1>2. children' = children /\ final' = final /\ number' = Numbers /\ answer' = a /\ added' = added
  BY DEF Answer, graph
<1>3. Reached' = Reached
  BY <1>2 DEF Reached
<1>4. \A n : Here(n)' = Here(n)
  BY <1>2 DEF Here
<1>5. PICK num : num = Numbers
  OBVIOUS
<1>6. \A n \in Reached : num[n] = Cardinality(Here(n))
  BY <1>1, <1>5 DEF NumbersRight
<1>7. \A n \in Reached' : number'[n] = Cardinality(Here(n)')
  BY <1>2, <1>3, <1>4, <1>5, <1>6
<1> QED
  BY <1>2, <1>7 DEF Numbered, NumbersRight

LEMMA NoAnswerExact ==
  ASSUME answer.call \notin {"word2index", "index2word"}
  PROVE  IndicesExact
BY DEF IndicesExact

LEMMA ExactKept ==
  ASSUME IndicesExact, UNCHANGED <<answer, added>>
  PROVE  IndicesExact'
BY DEF IndicesExact, Rank

LEMMA Word2IndexExact ==
  ASSUME Holding, Numbered, NEW w \in Word, Word2Index(w)
  PROVE  Numbered' /\ IndicesExact'
<1>1. PICK i : i = IndexOf(Numbers, w)
  OBVIOUS
<1>2. PICK a : a = [call |-> "word2index", word |-> w, index |-> i]
  OBVIOUS
<1>3. <<>> \notin added /\ Answer(a)
  BY <1>1, <1>2 DEF Word2Index
<1>4. Numbered' /\ answer' = a /\ added' = added
  BY <1>3, AnswerNumbered
<1>5. NumbersRight(Numbers)
  BY NumbersAre DEF Numbered
<1>6. w \in added => i = Rank(w)
  BY <1>1, <1>3, <1>5, IndexIs
<1>7. Rank(w)' = Rank(w)
  BY <1>4 DEF Rank
<1>8. answer'.call = "word2index" /\ answer'.word = w /\ answer'.index = i
  BY <1>2, <1>4
<1> QED
  BY <1>4, <1>6, <1>7, <1>8 DEF IndicesExact

LEMMA Index2WordExact ==
  ASSUME Holding, Numbered, NEW index \in 1..Cardinality(added), Index2Word(index)
  PROVE  Numbered' /\ IndicesExact'
<1>1. PICK v : v = WordOf(Numbers, index)
  OBVIOUS
<1>2. PICK a : a = [call |-> "index2word", index |-> index, word |-> v]
  OBVIOUS
<1>3. <<>> \notin added /\ Answer(a)
  BY <1>1, <1>2 DEF Index2Word
<1>4. Numbered' /\ answer' = a /\ added' = added
  BY <1>3, AnswerNumbered
<1>5. NumbersRight(Numbers)
  BY NumbersAre DEF Numbered
<1>6. PICK w \in added : Rank(w) = index
  BY WordOfRank
<1>7. v = w
  BY <1>1, <1>3, <1>5, <1>6, WordIs
<1>8. Rank(v)' = Rank(v)
  BY <1>4 DEF Rank
<1>9. answer'.call = "index2word" /\ answer'.word = v /\ answer'.index = index
  BY <1>2, <1>4
<1> QED
  BY <1>4, <1>6, <1>7, <1>8, <1>9 DEF IndicesExact

Indexing == Holding /\ Numbered /\ IndicesExact

LEMMA InitIndexing ==
  ASSUME Init
  PROVE  Indexing
<1>1. Holding
  BY InitHolds
<1>2. Numbered
  BY DEF Init, Numbered
<1>3. answer.call = "none"
  BY DEF Init, NoAnswer
<1>4. IndicesExact
  BY <1>3, NoAnswerExact
<1> QED
  BY <1>1, <1>2, <1>4 DEF Indexing

LEMMA Forgets ==
  ASSUME numbers_valid' = FALSE, answer' = NoAnswer
  PROVE  Numbered' /\ IndicesExact'
<1>1. answer'.call = "none"
  BY DEF NoAnswer
<1> QED
  BY <1>1 DEF Numbered, IndicesExact

LEMMA NextIndexing ==
  ASSUME Indexing, [Next]_vars
  PROVE  Indexing'
<1>1. Holding /\ Numbered /\ IndicesExact
  BY DEF Indexing
<1>2. Holding'
  BY <1>1, NextHolds
<1>3. ASSUME NEW w \in Word, AddWord(w) PROVE Numbered' /\ IndicesExact'
  BY <1>3, Forgets DEF AddWord, AddWordUnchecked
<1>4. ASSUME NEW w \in Word, AddWordUnchecked(w) PROVE Numbered' /\ IndicesExact'
  BY <1>4, Forgets DEF AddWordUnchecked
<1>5. ASSUME NEW w \in Word, RejectWord(w) PROVE Numbered' /\ IndicesExact'
  <2>1. UNCHANGED <<children, final, number, numbers_valid>>
    BY <1>5 DEF RejectWord, graph
  <2>2. answer'.call = "add_word"
    BY <1>5 DEF RejectWord
  <2>3. IndicesExact'
    BY <2>2 DEF IndicesExact
  <2> QED
    BY <2>1, <2>3, <1>1, NumberedKept
<1>6. ASSUME NEW w \in Word, Word2Index(w) PROVE Numbered' /\ IndicesExact'
  BY <1>1, <1>6, Word2IndexExact
<1>7. ASSUME Freeze PROVE Numbered' /\ IndicesExact'
  BY <1>7, Forgets DEF Freeze
<1>8. ASSUME NEW index \in 1..Cardinality(added), Index2Word(index) PROVE Numbered' /\ IndicesExact'
  BY <1>1, <1>8, Index2WordExact
<1>9. ASSUME UNCHANGED vars PROVE Numbered' /\ IndicesExact'
  <2>1. UNCHANGED <<children, final, number, numbers_valid>> /\ UNCHANGED <<answer, added>>
    BY <1>9 DEF vars, graph
  <2> QED
    BY <2>1, <1>1, NumberedKept, ExactKept
<1>10. Numbered' /\ IndicesExact'
  <2>1. CASE Next
    BY <2>1, <1>3, <1>4, <1>5, <1>6, <1>7, <1>8, Zenon DEF Next
  <2>2. CASE UNCHANGED vars
    BY <2>2, <1>9
  <2> QED
    BY <2>1, <2>2, Zenon
<1> QED
  BY <1>2, <1>10 DEF Indexing

(***************************************************************************)
(* word2index gives every word that was added its rank, and index2word     *)
(* every index in the range the word of that rank, after whatever was      *)
(* added, merged, frozen and numbered before: pydawg.py forgets the        *)
(* numbers when it changes the graph, and counts with each node once.      *)
(***************************************************************************)
THEOREM AlwaysIndicesExact == Spec => []IndicesExact
<1>1. Init => Indexing
  BY InitIndexing
<1>2. Indexing /\ [Next]_vars => Indexing'
  BY NextIndexing
<1>3. Indexing => IndicesExact
  BY DEF Indexing
<1> QED
  BY <1>1, <1>2, <1>3, PTL DEF Spec
=============================================================================
