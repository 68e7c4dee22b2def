----------------------------- MODULE DawgProofs -----------------------------
(***************************************************************************)
(* The construction, for every alphabet, every set of words, every hash    *)
(* function and every malloc.  First its safety: Consistent is an invariant*)
(* of Dawg, with TypeOK, RegistryValid, TailUnshared, NoDangling and       *)
(* NoLeak, and so is RestRegistered.  Then its words: no step but the last *)
(* one of an addition changes them, that one adds the word of the call, and*)
(* clear() takes them all; so Dawg implements WordSet, and the numbers the *)
(* object keeps of its words are exact.  And the automaton is minimal:     *)
(* there are no dead ends, and no two nodes of a closed DAWG accept the    *)
(* same words.                                                             *)
(***************************************************************************)
EXTENDS Dawg, WordsProofs

-----------------------------------------------------------------------------
(***************************************************************************)
(* Runs                                                                    *)
(***************************************************************************)

(***************************************************************************)
(* The equations of a run: the recursive definition denotes a function,    *)
(* built letter by letter.                                                 *)
(***************************************************************************)
IsRun(h, g, root, w, m) ==
  /\ h = [k \in 0..m |-> h[k]]
  /\ \A k \in 0..m : h[k] = IF k = 0 THEN root ELSE GetChild(g, h[k - 1], w[k])

LEMMA RunExists ==
  ASSUME NEW g, NEW root, NEW w, NEW m \in Nat
  PROVE  \E h : IsRun(h, g, root, w, m)
<1> DEFINE Bad == {n \in Nat : ~ \E h : IsRun(h, g, root, w, n)}
<1> SUFFICES ASSUME Bad # {} PROVE FALSE
  OBVIOUS
<1>1. PICK n \in Bad : \A y \in Bad : n <= y
  BY LeastNatural
<1>2. CASE n = 0
  <2>1. IsRun([k \in 0..0 |-> root], g, root, w, 0)
    BY DEF IsRun
  <2> QED
    BY <2>1, <1>2
<1>3. CASE n # 0
  <2>1. n - 1 \in Nat /\ n - 1 \notin Bad
    BY <1>1, <1>3
  <2>2. PICK h : IsRun(h, g, root, w, n - 1)
    BY <2>1
  <2> DEFINE e == [k \in 0..n |-> IF k = n THEN GetChild(g, h[n - 1], w[n]) ELSE h[k]]
  <2>3. ASSUME NEW k \in 0..n
        PROVE  e[k] = IF k = 0 THEN root ELSE GetChild(g, e[k - 1], w[k])
    <3>1. CASE k = n
      BY <3>1, <1>3
    <3>2. CASE k # n
      <4>1. k \in 0..(n - 1) /\ k - 1 # n
        BY <3>2
      <4>2. k # 0 => e[k - 1] = h[k - 1]
        BY <4>1
      <4> QED
        BY <2>2, <4>1, <4>2, <3>2 DEF IsRun
    <3> QED
      BY <3>1, <3>2
  <2>4. IsRun(e, g, root, w, n)
    BY <2>3 DEF IsRun
  <2> QED
    BY <2>4
<1> QED
  BY <1>2, <1>3

LEMMA RunEquations ==
  ASSUME NEW g, NEW root, NEW w, Len(w) \in Nat
  PROVE  IsRun(Run(g, root, w), g, root, w, Len(w))
<1> DEFINE R(h) == h = [k \in 0..Len(w) |->
                         IF k = 0 THEN root ELSE GetChild(g, h[k - 1], w[k])]
<1>1. \E h : R(h)
  <2>1. PICK h : IsRun(h, g, root, w, Len(w))
    BY RunExists
  <2>2. R(h)
    BY <2>1 DEF IsRun
  <2> QED
    BY <2>2
<1>2. R(CHOOSE h : R(h))
  BY <1>1
<1>3. Run(g, root, w) = CHOOSE h : R(h)
  BY DEF Run
<1>4. R(Run(g, root, w))
  BY <1>2, <1>3
<1> QED
  BY <1>4 DEF IsRun

LEMMA RunStep ==
  ASSUME NEW g, NEW root, NEW w, Len(w) \in Nat
  PROVE  /\ Run(g, root, w)[0] = root
         /\ \A k \in 1..Len(w) :
              Run(g, root, w)[k] = GetChild(g, Run(g, root, w)[k - 1], w[k])
<1> IsRun(Run(g, root, w), g, root, w, Len(w))
  BY RunEquations
<1>1. Run(g, root, w)[0] = root
  BY DEF IsRun
<1>2. ASSUME NEW k \in 1..Len(w)
      PROVE  Run(g, root, w)[k] = GetChild(g, Run(g, root, w)[k - 1], w[k])
  <2>1. k \in 0..Len(w) /\ k # 0
    OBVIOUS
  <2> QED
    BY <2>1 DEF IsRun
<1> QED
  BY <1>1, <1>2

(***************************************************************************)
(* A sequence of nodes that starts at the root and follows the letters of  *)
(* w is the run of w, as far as it goes.                                   *)
(***************************************************************************)
Follows(h, g, root, w, m) ==
  /\ m \in 0..Len(w)
  /\ h[0] = root
  /\ \A k \in 1..m : h[k] = GetChild(g, h[k - 1], w[k])

LEMMA RunUnique ==
  ASSUME NEW g, NEW root, NEW w, NEW m, NEW h, Len(w) \in Nat,
         Follows(h, g, root, w, m)
  PROVE  \A k \in 0..m : Run(g, root, w)[k] = h[k]
<1> USE DEF Follows
<1> DEFINE r == Run(g, root, w)
           Bad == {k \in 0..m : r[k] # h[k]}
<1> HIDE DEF r
<1>r. /\ r[0] = root
      /\ \A k \in 1..Len(w) : r[k] = GetChild(g, r[k - 1], w[k])
  BY RunStep DEF r
<1> SUFFICES ASSUME Bad # {} PROVE FALSE
  BY DEF r
<1>1. PICK k \in Bad : \A y \in Bad : k <= y
  <2> Bad \subseteq Nat
    OBVIOUS
  <2> QED
    BY LeastNatural
<1>2. k # 0
  BY <1>r, <1>1
<1>3. k - 1 \in 0..m /\ k - 1 \notin Bad /\ k \in 1..m /\ k \in 1..Len(w)
  BY <1>1, <1>2
<1>4. r[k] = h[k]
  BY <1>3, <1>r
<1> QED
  BY <1>4, <1>1

-----------------------------------------------------------------------------
(***************************************************************************)
(* Words                                                                   *)
(***************************************************************************)

LEMMA LettersAreNaturals ==
  ASSUME NEW s \in Seq(Letter)
  PROVE  s \in Seq(Nat) /\ Len(s) \in Nat /\ \A k \in 1..Len(s) : s[k] \in Nat
<1>1. s \in Seq(Nat)
  BY LetterAssumption, SeqMonotonic
<1> QED
  BY <1>1, ElementOfSeq, LenProperties

(***************************************************************************)
(* The first m letters of a word.                                          *)
(***************************************************************************)
LEMMA FirstLetters ==
  ASSUME NEW S, NEW s \in Seq(S), NEW m \in 0..Len(s)
  PROVE  /\ SubSeq(s, 1, m) \in Seq(S)
         /\ Len(SubSeq(s, 1, m)) = m
         /\ \A k \in 1..m : SubSeq(s, 1, m)[k] = s[k]
<1>1. \A k \in 1..m : s[k] \in S
  BY ElementOfSeq
<1>2. /\ SubSeq(s, 1, m) \in Seq(S)
      /\ Len(SubSeq(s, 1, m)) = IF 1 <= m THEN m - 1 + 1 ELSE 0
      /\ \A k \in 1..(m - 1 + 1) : SubSeq(s, 1, m)[k] = s[1 + k - 1]
  BY <1>1, SubSeqProperties
<1> QED
  BY <1>2

(***************************************************************************)
(* Words that agree on the first m letters have the same first m letters.  *)
(***************************************************************************)
LEMMA SameFirstLetters ==
  ASSUME NEW S, NEW s \in Seq(S), NEW t \in Seq(S), NEW m \in Nat,
         m <= Len(s), m <= Len(t), AgreeBelow(s, t, m + 1)
  PROVE  SubSeq(s, 1, m) = SubSeq(t, 1, m)
<1>1. \A k \in 1..m : s[k] = t[k]
  BY DEF AgreeBelow
<1>2. m \in 0..Len(s) /\ m \in 0..Len(t)
  OBVIOUS
<1>3. /\ SubSeq(s, 1, m) \in Seq(S) /\ SubSeq(t, 1, m) \in Seq(S)
      /\ Len(SubSeq(s, 1, m)) = m /\ Len(SubSeq(t, 1, m)) = m
      /\ \A k \in 1..m : SubSeq(s, 1, m)[k] = s[k]
      /\ \A k \in 1..m : SubSeq(t, 1, m)[k] = t[k]
  BY <1>2, FirstLetters
<1> HIDE DEF AgreeBelow
<1>4. \A k \in 1..Len(SubSeq(s, 1, m)) : SubSeq(s, 1, m)[k] = SubSeq(t, 1, m)[k]
  BY <1>1, <1>3
<1> QED
  BY <1>3, <1>4, SeqEqual

(***************************************************************************)
(* What the order says of the letter after a common prefix: the smaller    *)
(* word ends first, or its next letter is not larger.                      *)
(***************************************************************************)
LEMMA OrderAfterPrefix ==
  ASSUME NEW s \in Seq(Nat), NEW t \in Seq(Nat), LessEq(s, t),
         NEW m \in Nat, m < Len(s), m <= Len(t), AgreeBelow(s, t, m + 1)
  PROVE  m < Len(t) /\ s[m + 1] <= t[m + 1]
<1>1. CASE s = t
  BY <1>1
<1>2. CASE \E k \in 1..Len(s) : k <= Len(t) /\ s[k] < t[k] /\ AgreeBelow(s, t, k)
  <2>1. PICK k \in 1..Len(s) : k <= Len(t) /\ s[k] < t[k] /\ AgreeBelow(s, t, k)
    BY <1>2
  <2>2. m < k
    BY <2>1 DEF AgreeBelow
  <2>3. CASE k = m + 1
    BY <2>1, <2>3
  <2>4. CASE m + 1 < k
    BY <2>1, <2>4 DEF AgreeBelow
  <2> QED
    BY <2>2, <2>3, <2>4
<1>3. CASE Len(s) < Len(t) /\ AgreeBelow(s, t, Len(s) + 1)
  <2>1. m + 1 \in 1..((Len(s) + 1) - 1)
    OBVIOUS
  <2>2. s[m + 1] = t[m + 1]
    BY <2>1, <1>3 DEF AgreeBelow
  <2>3. m < Len(t) /\ t[m + 1] \in Nat
    BY <1>3
  <2> QED
    BY <2>2, <2>3
<1> QED
  BY <1>1, <1>2, <1>3 DEF LessEq, Less

-----------------------------------------------------------------------------
(***************************************************************************)
(* The tail                                                                *)
(***************************************************************************)

LEMMA TailWordIsWord ==
  ASSUME Consistent
  PROVE  TailWord \in Seq(Letter) /\ Len(TailWord) \in Nat
<1>1. CASE pc = "minimize"
  <2>1. i + Len(stack) \in 0..Len(prev_word)
    BY <1>1 DEF Consistent, TypeOK, CallState
  <2> QED
    BY <2>1, <1>1, FirstLetters DEF Consistent, TypeOK, TailWord
<1>2. CASE pc = "suffix"
  BY <1>2, FirstLetters DEF Consistent, TypeOK, TailWord
<1>3. CASE pc # "minimize" /\ pc # "suffix"
  BY <1>3 DEF Consistent, TypeOK, TailWord
<1> QED
  BY <1>1, <1>2, <1>3

LEMMA TailFacts ==
  ASSUME Consistent, q0 # NULL, state # "CLOSED"
  PROVE  /\ TailNode[0] = q0
         /\ \A k \in 0..Len(TailWord) :
              TailNode[k] \in live /\ TailNode[k] \in Node /\ TailNode[k] # NULL
         /\ \A k \in 1..Len(TailWord) :
              TailNode[k] = next[TailNode[k - 1]][TailWord[k]]
<1> DEFINE W == TailWord
           P == TailNode
<1>w. W \in Seq(Letter) /\ Len(W) \in Nat
  BY TailWordIsWord
<1>1. P[0] = q0 /\ \A k \in 1..Len(W) : P[k] = GetChild(next, P[k - 1], W[k])
  BY <1>w, RunStep DEF TailNode
<1>2. \A k \in 0..Len(W) : P[k] \in live
  BY DEF Consistent, TailUnshared
<1>3. live \subseteq Node /\ NULL \notin Node
  BY NullAssumption DEF Consistent, TypeOK
<1>4. ASSUME NEW k \in 1..Len(W)
      PROVE  P[k] = next[P[k - 1]][W[k]]
  <2>1. k - 1 \in 0..Len(W)
    BY <1>w
  <2>2. P[k - 1] # NULL
    BY <2>1, <1>2, <1>3
  <2> QED
    BY <1>1, <2>2 DEF GetChild
<1> QED
  BY <1>1, <1>2, <1>3, <1>4

(***************************************************************************)
(* A node of the tail is there only once: the nodes before two occurrences *)
(* would be equal too, down to the root, which no edge leads to.           *)
(***************************************************************************)
LEMMA TailDistinct ==
  ASSUME Consistent, q0 # NULL, state # "CLOSED",
         NEW j \in 0..Len(TailWord), NEW k \in 0..Len(TailWord),
         TailNode[j] = TailNode[k]
  PROVE  j = k
<1> DEFINE W == TailWord
           P == TailNode
           Twice == {m \in 0..Len(W) : \E n \in 0..Len(W) : n # m /\ P[n] = P[m]}
<1>w. Len(W) \in Nat
  BY TailWordIsWord
<1>1. /\ \A n \in 0..Len(W) : P[n] \in live
      /\ \A n \in 1..Len(W) : P[n] = next[P[n - 1]][W[n]]
      /\ \A n \in 1..Len(W) : W[n] \in Letter
  BY TailFacts, TailWordIsWord, ElementOfSeq
<1>2. \A x \in live, l \in Letter, n \in 0..Len(W) :
        next[x][l] = P[n] => n > 0 /\ x = P[n - 1] /\ l = W[n]
  BY DEF Consistent, TailUnshared
<1> HIDE DEF W, P
<1> SUFFICES ASSUME Twice # {} PROVE FALSE
  BY DEF P, W
<1>3. PICK m \in Twice : \A y \in Twice : m <= y
  <2> Twice \subseteq Nat
    BY <1>w
  <2> QED
    BY LeastNatural
<1>4. PICK n \in 0..Len(W) : n # m /\ P[n] = P[m]
  OBVIOUS
<1>5. n \in Twice
  BY <1>4
<1>6. m < n /\ n \in 1..Len(W) /\ n - 1 \in 0..Len(W)
  BY <1>3, <1>4, <1>5, <1>w
<1>7. next[P[n - 1]][W[n]] = P[m]
  BY <1>1, <1>4, <1>6
<1>8. m > 0 /\ P[n - 1] = P[m - 1]
  <2>1. P[n - 1] \in live /\ W[n] \in Letter /\ m \in 0..Len(W)
    BY <1>1, <1>6
  <2> QED
    BY <2>1, <1>7, <1>2
<1>9. m - 1 \in Twice
  BY <1>8, <1>6, <1>w
<1> QED
  BY <1>9, <1>3, <1>w

-----------------------------------------------------------------------------
(***************************************************************************)
(* Initial states, and steps that leave the graph alone                    *)
(***************************************************************************)

LEMMA EmptyLocals ==
  /\ <<>> \in Seq(Letter) /\ Len(<<>>) = 0 /\ 0 \in 0..Len(<<>>)
  /\ <<>> \in Seq([parent : Node, label : Letter, child : Node])
<1>1. <<>> \in Seq(Letter) /\ Len(<<>>) = 0
      /\ <<>> \in Seq([parent : Node, label : Letter, child : Node])
  BY EmptySeq
<1> QED
  BY <1>1

LEMMA InitConsistent == Init => Consistent
<1> SUFFICES ASSUME Init PROVE Consistent
  OBVIOUS
<1>1. TypeOK
  <2>1. NoEdges \in [Letter -> Node \cup {NULL}]
    BY DEF NoEdges
  <2>2. <<>> \in Seq(Letter) /\ Len(<<>>) = 0
        /\ <<>> \in Seq([parent : Node, label : Letter, child : Node])
    BY EmptySeq
  <2> QED
    BY <2>1, <2>2 DEF Init, TypeOK
<1>2. ObjectState /\ CallState
  BY DEF Init, ObjectState, CallState
<1>3. RegistryValid /\ TailUnshared /\ TailBounds
  BY DEF Init, RegistryValid, TailUnshared, TailBounds
<1>4. NoDangling
  BY DEF Init, NoDangling
<1>5. NoLeak
  BY DEF Init, NoLeak, Reachable
<1> QED
  BY <1>1, <1>2, <1>3, <1>4, <1>5 DEF Consistent

(***************************************************************************)
(* What a step keeps of RestRegistered, which needs not hold before it.    *)
(***************************************************************************)
KeepsRest == RestRegistered => RestRegistered'

LEMMA OnlyResult ==
  ASSUME Consistent, UNCHANGED <<graph, registry, summary, locals>>,
         ret' \in {0, 1, DAWG_NO_MEM, DAWG_WORD_LESS, DAWG_FROZEN}
  PROVE  Consistent' /\ KeepsRest
<1> USE DEF graph, registry, summary, locals
<1>t. TailWord' = TailWord /\ TailNode' = TailNode /\ BoundWord' = BoundWord
  BY DEF TailWord, TailNode, BoundWord
<1>1. TypeOK'
  BY DEF Consistent, TypeOK
<1>2. ObjectState'
  BY DEF Consistent, ObjectState
<1>3. CallState'
  BY <1>t DEF Consistent, CallState, BeforeWord
<1>4. RegistryValid'
  BY DEF Consistent, RegistryValid, Entry, Equivalent
<1>5. TailUnshared'
  BY <1>t DEF Consistent, TailUnshared, Registered
<1>6. TailBounds'
  BY <1>t DEF Consistent, TailBounds
<1>7. NoDangling' /\ NoLeak'
  BY DEF Consistent, NoDangling, NoLeak
<1>8. KeepsRest
  BY <1>t DEF KeepsRest, RestRegistered, Registered
<1> QED
  BY <1>1, <1>2, <1>3, <1>4, <1>5, <1>6, <1>7, <1>8 DEF Consistent

(***************************************************************************)
(* What a step inherits that changes neither the graph nor the registry.   *)
(***************************************************************************)
LEMMA SameGraph ==
  ASSUME Consistent, UNCHANGED <<graph, registry, state>>
  PROVE  /\ RegistryValid'
         /\ NoLeak'
         /\ \A n \in live', l \in Letter : next'[n][l] \in live' \cup {NULL}
         /\ TailWord' = TailWord =>
              TailNode' = TailNode /\ TailUnshared' /\ KeepsRest
<1> USE DEF graph, registry
<1>1. RegistryValid'
  BY DEF Consistent, RegistryValid, Entry, Equivalent
<1>2. NoLeak'
  BY DEF Consistent, NoLeak
<1>3. \A n \in live', l \in Letter : next'[n][l] \in live' \cup {NULL}
  BY DEF Consistent, NoDangling
<1>4. ASSUME TailWord' = TailWord
      PROVE  TailNode' = TailNode /\ TailUnshared' /\ KeepsRest
  <2>1. TailNode' = TailNode
    BY <1>4 DEF TailNode
  <2>2. TailUnshared'
    BY <1>4, <2>1 DEF Consistent, TailUnshared, Registered
  <2>3. KeepsRest
    BY <1>4, <2>1 DEF KeepsRest, RestRegistered, Registered
  <2> QED
    BY <2>1, <2>2, <2>3
<1> QED
  BY <1>1, <1>2, <1>3, <1>4

LEMMA AddWordConsistent ==
  ASSUME Consistent, NEW w \in Word, AddWord(w)
  PROVE  Consistent' /\ KeepsRest
<1>w. w \in Seq(Letter) /\ w \in Seq(Nat) /\ prev_word \in Seq(Nat) /\ Len(w) \in Nat
  <2>1. w \in Seq(Letter)
    BY WordAssumption
  <2> QED
    BY <2>1, LettersAreNaturals DEF Consistent, TypeOK
<1>b. AgreeBelow(prev_word, w, 1) /\ LessEq(prev_word, w)
  BY <1>w, StringCmpOrder DEF AddWord, AgreeBelow
<1>c. pc = "idle" /\ caller = "add" /\ i = 0 /\ stack = <<>> /\ state # "CLOSED"
  BY DEF AddWord, Consistent, CallState
<1>d. /\ pc' = "skip" /\ word' = w /\ i' = 0 /\ stack' = <<>> /\ caller' = "add"
      /\ UNCHANGED <<registry, summary>>
  BY <1>c DEF AddWord
<1>e. TailWord = prev_word /\ TailWord' = prev_word /\ BoundWord = prev_word
      /\ BoundWord' = prev_word /\ state' = state /\ prev_word' = prev_word
      /\ reg' = reg /\ reg_ready' = reg_ready
  BY <1>c, <1>d DEF TailWord, BoundWord, summary, registry
<1>1. CASE q0 = NULL
  <2>1. PICK n \in Fresh(live \cup leaked) :
          /\ q0' = n /\ cur' = n /\ live' = live \cup {n}
          /\ next' = [next EXCEPT ![n] = NoEdges]
          /\ eow' = [eow EXCEPT ![n] = FALSE]
    BY <1>1 DEF AddWord
  <2>2. live = {} /\ reg = {} /\ prev_word = <<>> /\ state = "EMPTY" /\ reg_ready
    BY <1>1 DEF Consistent, ObjectState
  <2>3. n \in Node /\ n # NULL
    BY <2>1, FreshAssumption, NullAssumption DEF Consistent, TypeOK
  <2>4. live' = {n} /\ next'[n] = NoEdges /\ \A l \in Letter : next'[n][l] = NULL
    BY <2>1, <2>2, <2>3 DEF Consistent, TypeOK, NoEdges
  <2>5. Len(TailWord') = 0 /\ TailNode'[0] = n
    <3>1. Len(TailWord') = 0
      BY <1>e, <2>2
    <3> QED
      BY <3>1, <2>1, RunStep DEF TailNode
  <2>6. TypeOK'
    <3>1. NoEdges \in [Letter -> Node \cup {NULL}]
      BY DEF NoEdges
    <3>2. leaked' = leaked /\ ret' = ret
      BY <1>1 DEF AddWord
    <3>3. i' \in 0..Len(word')
      BY <1>d, <1>w
    <3> QED
      BY <3>1, <3>2, <3>3, <2>1, <2>3, <1>d, <1>w, EmptyLocals
      DEF Consistent, TypeOK, registry, summary
  <2>7. ObjectState'
    BY <2>1, <2>2, <2>3, <1>d, <1>e DEF ObjectState
  <2>8. CallState'
    BY <2>1, <2>2, <2>5, <1>b, <1>d, <1>e DEF CallState, BeforeWord
  <2>9. RegistryValid'
    BY <2>2, <1>e DEF RegistryValid
  <2>10. TailUnshared' /\ TailBounds'
    BY <2>2, <2>3, <2>4, <2>5, <1>e DEF TailUnshared, TailBounds, Registered
  <2>11. NoDangling'
    BY <2>1, <2>4, <1>d DEF NoDangling
  <2>12. NoLeak'
    BY <2>1, <2>3, <2>4 DEF NoLeak, Reachable, ClosedSets
  <2>13. KeepsRest
    BY <2>4, <2>5 DEF KeepsRest, RestRegistered
  <2> QED
    BY <2>6, <2>7, <2>8, <2>9, <2>10, <2>11, <2>12, <2>13 DEF Consistent
<1>2. CASE q0 # NULL
  <2>1. cur' = q0 /\ UNCHANGED graph
    BY <1>2 DEF AddWord
  <2>2. /\ RegistryValid' /\ NoLeak'
        /\ \A n \in live', l \in Letter : next'[n][l] \in live' \cup {NULL}
        /\ TailNode' = TailNode /\ TailUnshared' /\ KeepsRest
    BY <2>1, <1>d, <1>e, SameGraph
  <2>3. TailNode[0] = q0
    BY <1>2, <1>c, TailFacts
  <2>4. TypeOK'
    BY <2>1, <1>d, <1>w DEF Consistent, TypeOK, AddWord, registry, summary, graph
  <2>5. ObjectState'
    BY <1>2, <1>c, <1>e, <2>1, <1>d DEF Consistent, ObjectState, graph
  <2>6. CallState'
    <3>1. prev_word \in Seq(Letter)
      BY DEF Consistent, TypeOK
    <3> QED
      BY <3>1, <2>1, <2>2, <2>3, <1>b, <1>d, <1>e DEF CallState, BeforeWord
  <2>7. TailBounds'
    BY <2>1, <2>2, <1>c, <1>d, <1>e DEF Consistent, TailBounds, graph
  <2>8. NoDangling'
    BY <2>1, <2>2, <1>2, <1>d DEF Consistent, NoDangling, graph
  <2> QED
    BY <2>2, <2>4, <2>5, <2>6, <2>7, <2>8 DEF Consistent
<1> QED
  BY <1>1, <1>2

(***************************************************************************)
(* The part of the new word that is skipped lies on the tail: an edge that *)
(* leaves the tail has a smaller label than the previous word, and the new *)
(* word is not less.                                                       *)
(***************************************************************************)
LEMMA AtPrefix ==
  ASSUME Consistent, pc = "skip"
  PROVE  /\ q0 # NULL /\ state # "CLOSED" /\ TailWord = prev_word
         /\ i \in Nat /\ i <= Len(word) /\ i <= Len(prev_word)
         /\ cur = TailNode[i] /\ cur \in live /\ cur \in Node
         /\ i < Len(prev_word) =>
              /\ i < Len(word) /\ prev_word[i + 1] <= word[i + 1]
              /\ TailNode[i + 1] = next[cur][prev_word[i + 1]]
              /\ TailNode[i + 1] # NULL
         /\ \A l \in Letter : next[cur][l] # NULL =>
              i < Len(prev_word) /\ l <= prev_word[i + 1]
<1>w. /\ word \in Seq(Nat) /\ prev_word \in Seq(Nat)
      /\ Len(word) \in Nat /\ Len(prev_word) \in Nat /\ i \in 0..Len(word)
  BY LettersAreNaturals DEF Consistent, TypeOK
<1>1. /\ q0 # NULL /\ state # "CLOSED" /\ TailWord = prev_word
      /\ BoundWord = prev_word
  BY DEF Consistent, ObjectState, TailWord, BoundWord
<1>2. /\ i <= Len(prev_word) /\ cur = TailNode[i]
      /\ AgreeBelow(prev_word, word, i + 1) /\ LessEq(prev_word, word)
  BY DEF Consistent, CallState, BeforeWord
<1>3. i \in 0..Len(TailWord)
  BY <1>w, <1>1, <1>2
<1>4. cur \in live /\ cur \in Node
  BY <1>1, <1>2, <1>3, TailFacts
<1>5. ASSUME i < Len(prev_word)
      PROVE  /\ i < Len(word) /\ prev_word[i + 1] <= word[i + 1]
             /\ TailNode[i + 1] = next[cur][prev_word[i + 1]]
             /\ TailNode[i + 1] # NULL
  <2>1. i < Len(word) /\ prev_word[i + 1] <= word[i + 1]
    BY <1>w, <1>2, <1>5, OrderAfterPrefix
  <2>2. i + 1 \in 0..Len(TailWord) /\ i + 1 \in 1..Len(TailWord) /\ (i + 1) - 1 = i
    BY <1>w, <1>1, <1>5
  <2>3. TailNode[i + 1] = next[TailNode[(i + 1) - 1]][TailWord[i + 1]]
        /\ TailNode[i + 1] # NULL
    BY <2>2, <1>1, TailFacts
  <2> QED
    BY <2>1, <2>2, <2>3, <1>1, <1>2
<1>6. \A l \in Letter : next[cur][l] # NULL =>
              i < Len(prev_word) /\ l <= prev_word[i + 1]
  BY <1>1, <1>2, <1>3 DEF Consistent, TailBounds
<1> QED
  BY <1>w, <1>1, <1>2, <1>4, <1>5, <1>6

LEMMA SkipPrefixConsistent ==
  ASSUME Consistent, SkipPrefix
  PROVE  Consistent' /\ KeepsRest
<1>p. /\ pc = "skip" /\ i < Len(word) /\ GetChild(next, cur, word[i + 1]) # NULL
      /\ cur' = GetChild(next, cur, word[i + 1]) /\ i' = i + 1
      /\ UNCHANGED <<graph, registry, summary, ret, pc, caller, word, stack>>
  BY DEF SkipPrefix, AtExistingPrefix
<1>w. /\ word \in Seq(Letter) /\ prev_word \in Seq(Letter)
      /\ word \in Seq(Nat) /\ prev_word \in Seq(Nat)
      /\ Len(word) \in Nat /\ Len(prev_word) \in Nat
  BY LettersAreNaturals DEF Consistent, TypeOK
<1>1. word[i + 1] \in Letter /\ word[i + 1] \in Nat /\ i \in Nat
  <2>1. i \in Nat /\ i + 1 \in 1..Len(word)
    BY <1>p, <1>w, AtPrefix
  <2> QED
    BY <2>1, <1>w, ElementOfSeq, LettersAreNaturals
<1>2. cur' = next[cur][word[i + 1]] /\ cur' # NULL
  BY <1>p, AtPrefix, NullAssumption DEF GetChild
<1>3. i < Len(prev_word) /\ word[i + 1] <= prev_word[i + 1]
  BY <1>1, <1>2, <1>p, AtPrefix
<1>4. prev_word[i + 1] \in Nat
  <2>1. i + 1 \in 1..Len(prev_word)
    BY <1>1, <1>3, <1>w
  <2> QED
    BY <2>1, <1>w, LettersAreNaturals
<1>5. word[i + 1] = prev_word[i + 1]
  <2>1. prev_word[i + 1] <= word[i + 1]
    BY <1>3, <1>p, AtPrefix
  <2> QED
    BY <2>1, <1>3, <1>4, <1>1
<1>6. cur' = TailNode[i + 1]
  BY <1>2, <1>3, <1>5, <1>p, AtPrefix
<1>7. AgreeBelow(prev_word, word, (i + 1) + 1)
  <2>1. \A j \in 1..((i + 1) - 1) : prev_word[j] = word[j]
    BY <1>p DEF Consistent, CallState, BeforeWord, AgreeBelow
  <2>2. ASSUME NEW j \in 1..(((i + 1) + 1) - 1)
        PROVE  prev_word[j] = word[j]
    <3>1. j = i + 1 \/ j \in 1..((i + 1) - 1)
      BY <1>1
    <3> QED
      BY <3>1, <2>1, <1>5
  <2> QED
    BY <2>2 DEF AgreeBelow
<1>8. /\ pc' = "skip" /\ TailWord' = TailWord /\ TailWord = prev_word
      /\ BoundWord' = BoundWord /\ UNCHANGED <<graph, registry, state>>
  BY <1>p DEF TailWord, BoundWord, summary
<1>9. /\ RegistryValid' /\ NoLeak'
      /\ \A n \in live', l \in Letter : next'[n][l] \in live' \cup {NULL}
      /\ TailNode' = TailNode /\ TailUnshared' /\ KeepsRest
  BY <1>8, SameGraph
<1>10. cur' \in live /\ cur' \in Node
  <2>1. i + 1 \in 0..Len(TailWord)
    BY <1>1, <1>3, <1>8, <1>w
  <2> QED
    BY <2>1, <1>6, <1>p, AtPrefix, TailFacts
<1>11. TypeOK'
  BY <1>p, <1>1, <1>w, <1>10 DEF Consistent, TypeOK, graph, registry, summary
<1>12. ObjectState'
  BY <1>p, <1>8 DEF Consistent, ObjectState, graph, registry, summary
<1>13. CallState'
  BY <1>p, <1>3, <1>6, <1>7, <1>8, <1>9, <1>1, <1>w
    DEF Consistent, CallState, BeforeWord, summary
<1>14. TailBounds'
  BY <1>p, <1>8, <1>9 DEF Consistent, TailBounds, graph, summary
<1>15. NoDangling'
  BY <1>p, <1>9, <1>10 DEF Consistent, NoDangling, graph, summary
<1> QED
  BY <1>9, <1>11, <1>12, <1>13, <1>14, <1>15 DEF Consistent

(***************************************************************************)
(* DAWG_replace_or_register puts the edges of the tail on its stack.       *)
(***************************************************************************)
StackItem == [parent : Node, label : Letter, child : Node]

LEMMA StackIsTail ==
  ASSUME Consistent, q0 # NULL, state # "CLOSED", TailWord = prev_word,
         NEW m \in Nat, m <= Len(prev_word)
  PROVE  LET s == StackOf(TailNode[m], prev_word, m)
         IN  /\ s \in Seq(StackItem) /\ Len(s) = Len(prev_word) - m
             /\ \A k \in 1..Len(s) :
                  s[k] = [parent |-> TailNode[m + k - 1],
                          label |-> prev_word[m + k],
                          child |-> TailNode[m + k]]
<1> DEFINE W == prev_word
           P == TailNode
           d == Len(W) - m
           U == SubSeq(W, m + 1, Len(W))
           h == [k \in 0..d |-> P[m + k]]
           run == Run(next, P[m], U)
           s == StackOf(P[m], W, m)
<1>w. W \in Seq(Letter) /\ Len(W) \in Nat /\ d \in Nat /\ m + d = Len(W)
  BY LettersAreNaturals DEF Consistent, TypeOK
<1>f. /\ \A k \in 0..Len(W) : P[k] \in Node /\ P[k] # NULL
      /\ \A k \in 1..Len(W) : P[k] = next[P[k - 1]][W[k]]
      /\ \A k \in 1..Len(W) : W[k] \in Letter
  BY TailFacts, <1>w, ElementOfSeq
<1>u. Len(U) = d /\ Len(U) \in Nat /\ \A k \in 1..d : U[k] = W[m + k]
  <2>1. \A k \in (m + 1)..Len(W) : W[k] \in Letter
    BY <1>f, <1>w
  <2>2. /\ Len(U) = IF m + 1 <= Len(W) THEN Len(W) - (m + 1) + 1 ELSE 0
        /\ \A k \in 1..(Len(W) - (m + 1) + 1) : U[k] = W[(m + 1) + k - 1]
    BY <2>1, <1>w, SubSeqProperties
  <2>3. /\ Len(W) - (m + 1) + 1 = d
        /\ m + 1 <= Len(W) \/ d = 0
        /\ \A k \in 1..d : (m + 1) + k - 1 = m + k
    <3>1. ASSUME NEW n \in Nat, n - m \in Nat
          PROVE  /\ n - (m + 1) + 1 = n - m
                 /\ m + 1 <= n \/ n - m = 0
                 /\ \A k \in 1..(n - m) : (m + 1) + k - 1 = m + k
      BY <3>1
    <3> HIDE DEF W
    <3> QED
      BY <3>1, <1>w
  <2> HIDE DEF U, W, d
  <2>4. Len(U) = d
    BY <2>2, <2>3
  <2>5. \A k \in 1..d : U[k] = W[m + k]
    BY <2>2, <2>3
  <2> QED
    BY <2>4, <2>5, <1>w
<1>s. s = [k \in 1..d |-> [parent |-> run[k - 1], label |-> W[m + k], child |-> run[k]]]
  BY DEF StackOf
<1> HIDE DEF W, P, U, d, s
<1>1. h[0] = P[m]
  BY <1>w
<1>2. ASSUME NEW k \in 1..d
      PROVE  h[k] = GetChild(next, h[k - 1], U[k])
  <2>1. /\ k \in 0..d /\ k - 1 \in 0..d /\ m + k \in 1..Len(W)
        /\ m + (k - 1) \in 0..Len(W) /\ (m + k) - 1 = m + (k - 1)
    BY <1>w
  <2>2. h[k] = P[m + k] /\ h[k - 1] = P[m + (k - 1)]
    BY <2>1
  <2>3. P[m + k] = next[P[m + (k - 1)]][W[m + k]] /\ P[m + (k - 1)] # NULL
    BY <2>1, <1>f
  <2> QED
    BY <2>2, <2>3, <1>u DEF GetChild
<1>3. \A k \in 0..d : run[k] = h[k]
  <2>1. d \in 0..Len(U)
    BY <1>u, <1>w
  <2>2. \A k \in 1..d : h[k] = GetChild(next, h[k - 1], U[k])
    BY <1>2
  <2>3. Len(U) \in Nat
    BY <1>u
  <2> HIDE DEF h
  <2>4. Follows(h, next, P[m], U, d)
    BY <2>1, <2>2, <1>1 DEF Follows
  <2> QED
    BY <2>3, <2>4, RunUnique
<1>4. ASSUME NEW k \in 1..d
      PROVE  /\ run[k - 1] = P[m + k - 1] /\ run[k] = P[m + k]
             /\ P[m + k - 1] \in Node /\ P[m + k] \in Node /\ W[m + k] \in Letter
  <2>1. /\ k \in 0..d /\ k - 1 \in 0..d /\ m + k \in 1..Len(W) /\ m + k \in 0..Len(W)
        /\ m + k - 1 \in 0..Len(W) /\ m + (k - 1) = m + k - 1
    BY <1>w
  <2> QED
    BY <2>1, <1>3, <1>f
<1>5. s = [k \in 1..d |-> [parent |-> P[m + k - 1], label |-> W[m + k], child |-> P[m + k]]]
  BY <1>s, <1>4
<1>6. s \in [1..d -> StackItem]
  BY <1>4, <1>5 DEF StackItem
<1>7. s \in Seq(StackItem) /\ Len(s) = d
  BY <1>6, <1>w
<1> QED
  BY <1>5, <1>7 DEF W, P, d, s

LEMMA EndOfPrefixConsistent ==
  ASSUME Consistent, EndOfPrefix
  PROVE  Consistent' /\ KeepsRest
<1>p. /\ pc = "skip"
      /\ i < Len(word) => GetChild(next, cur, word[i + 1]) = NULL
      /\ UNCHANGED <<graph, registry, summary, ret, caller, word, i, cur>>
  BY DEF EndOfPrefix, AtExistingPrefix
<1>w. /\ word \in Seq(Letter) /\ prev_word \in Seq(Letter)
      /\ word \in Seq(Nat) /\ prev_word \in Seq(Nat)
      /\ Len(word) \in Nat /\ Len(prev_word) \in Nat
  BY LettersAreNaturals DEF Consistent, TypeOK
<1>a. /\ q0 # NULL /\ state # "CLOSED" /\ TailWord = prev_word
      /\ i \in Nat /\ i <= Len(word) /\ i <= Len(prev_word)
      /\ cur = TailNode[i] /\ cur \in live /\ cur \in Node /\ cur # NULL
      /\ BoundWord = prev_word /\ caller = "add" /\ stack = <<>> /\ BeforeWord
  BY <1>p, AtPrefix, NullAssumption DEF Consistent, CallState, BoundWord
<1>1. CASE ~NothingToMinimize
  <2>1. stack' = StackOf(cur, prev_word, i) /\ pc' = "minimize" /\ i < Len(prev_word)
    BY <1>1, <1>a, <1>w DEF EndOfPrefix, NothingToMinimize
  <2>2. /\ stack' \in Seq(StackItem) /\ Len(stack') = Len(prev_word) - i
        /\ \A k \in 1..Len(stack') :
             stack'[k] = [parent |-> TailNode[i + k - 1], label |-> prev_word[i + k],
                          child |-> TailNode[i + k]]
    BY <2>1, <1>a, StackIsTail
  <2>3. i' + Len(stack') = Len(prev_word) /\ i' = i /\ prev_word' = prev_word
    BY <2>2, <1>p, <1>a, <1>w DEF summary
  <2>4. TailWord' = prev_word /\ BoundWord' = prev_word
    <3>1. TailWord' = SubSeq(prev_word, 1, Len(prev_word))
      BY <2>1, <2>3 DEF TailWord
    <3> QED
      BY <3>1, <2>1, <2>3, <1>w, SubSeqFull DEF BoundWord
  <2>5. /\ RegistryValid' /\ NoLeak'
        /\ \A n \in live', l \in Letter : next'[n][l] \in live' \cup {NULL}
        /\ TailNode' = TailNode /\ TailUnshared' /\ KeepsRest
    BY <2>4, <1>a, <1>p, SameGraph DEF summary
  <2>6. i < Len(word) /\ prev_word[i + 1] < word[i + 1]
    <3>1. /\ i < Len(word) /\ prev_word[i + 1] <= word[i + 1]
          /\ next[cur][prev_word[i + 1]] # NULL
      BY <2>1, <1>p, AtPrefix
    <3>2. next[cur][word[i + 1]] = NULL
      BY <3>1, <1>p, <1>a DEF GetChild
    <3>3. prev_word[i + 1] # word[i + 1]
      BY <3>1, <3>2
    <3>4. i + 1 \in 1..Len(prev_word) /\ i + 1 \in 1..Len(word)
      BY <2>1, <3>1, <1>a, <1>w
    <3>5. prev_word[i + 1] \in Nat /\ word[i + 1] \in Nat
      BY <3>4, <1>w, LettersAreNaturals
    <3> QED
      BY <3>1, <3>3, <3>5
  <2>7. TypeOK'
    BY <1>p, <2>1, <2>2 DEF Consistent, TypeOK, graph, registry, summary, StackItem
  <2>8. ObjectState'
    BY <1>p, <1>a, <2>1 DEF Consistent, ObjectState, graph, registry, summary
  <2>9. CallState'
    <3>1. BeforeWord'
      BY <1>a, <1>p DEF BeforeWord, summary
    <3>2. \A k \in 1..Len(stack') :
            stack'[k] = [parent |-> TailNode'[i' + k - 1], label |-> prev_word'[i' + k],
                         child |-> TailNode'[i' + k]]
      BY <2>2, <2>3, <2>5
    <3>3. /\ i' < Len(prev_word') /\ i' < Len(word') /\ prev_word'[i' + 1] < word'[i' + 1]
          /\ cur' = TailNode'[i'] /\ i' + Len(stack') <= Len(prev_word')
          /\ caller' = "add" /\ pc' = "minimize"
      BY <1>p, <1>a, <2>1, <2>3, <2>5, <2>6, <1>w
    <3> QED
      BY <3>1, <3>2, <3>3 DEF CallState
  <2>10. TailBounds'
    BY <1>p, <1>a, <2>1, <2>4, <2>5 DEF Consistent, TailBounds, graph, summary
  <2>11. NoDangling'
    <3>1. ASSUME NEW k \in 1..Len(stack')
          PROVE  {stack'[k].parent, stack'[k].child} \subseteq live'
      <4>1. i + k - 1 \in 0..Len(TailWord) /\ i + k \in 0..Len(TailWord)
        BY <2>2, <1>a, <1>w
      <4>2. TailNode[i + k - 1] \in live /\ TailNode[i + k] \in live
        BY <4>1, <1>a, TailFacts
      <4> QED
        BY <4>2, <2>2, <1>p DEF graph
    <3>2. {q0', cur'} \subseteq live' \cup {NULL}
      BY <1>p DEF Consistent, NoDangling, graph
    <3> QED
      BY <3>1, <3>2, <2>5 DEF NoDangling
  <2> QED
    BY <2>5, <2>7, <2>8, <2>9, <2>10, <2>11 DEF Consistent
<1>2. CASE NothingToMinimize
  <2>1. stack' = <<>> /\ pc' = "suffix" /\ i = Len(prev_word)
    BY <1>2, <1>a, <1>w DEF EndOfPrefix, NothingToMinimize
  <2>2. prev_word' = prev_word /\ word' = word /\ i' = i /\ state' = state
    BY <1>p DEF summary
  <2>3. TailWord' = prev_word /\ BoundWord' = word
    <3>1. SubSeq(prev_word, 1, i) = SubSeq(word, 1, i)
      BY <1>a, <1>w, SameFirstLetters DEF BeforeWord
    <3>2. SubSeq(prev_word, 1, i) = prev_word
      BY <2>1, <1>w, SubSeqFull
    <3>3. TailWord' = SubSeq(word, 1, i)
      BY <2>1, <2>2 DEF TailWord
    <3> QED
      BY <3>1, <3>2, <3>3, <2>1, <2>2 DEF BoundWord
  <2>4. /\ RegistryValid' /\ NoLeak'
        /\ \A n \in live', l \in Letter : next'[n][l] \in live' \cup {NULL}
        /\ TailNode' = TailNode /\ TailUnshared' /\ KeepsRest
    BY <2>3, <1>a, <1>p, SameGraph DEF summary
  <2>5. TypeOK'
    BY <1>p, <2>1, EmptySeq DEF Consistent, TypeOK, graph, registry, summary
  <2>6. ObjectState'
    BY <1>p, <1>a, <2>1 DEF Consistent, ObjectState, graph, registry, summary
  <2>7. CallState'
    BY <1>p, <1>a, <2>1, <2>4 DEF CallState
  <2>8. TailBounds'
    <3>1. ASSUME NEW k \in 0..Len(prev_word), NEW l \in Letter, next[TailNode[k]][l] # NULL
          PROVE  k < Len(word) /\ l <= word[k + 1] /\ k # i
      <4>1. k < Len(prev_word) /\ l <= prev_word[k + 1]
        BY <3>1, <1>a DEF Consistent, TailBounds
      <4>2. prev_word[k + 1] = word[k + 1]
        <5>1. k + 1 \in 1..((i + 1) - 1)
          BY <4>1, <2>1, <1>w
        <5> QED
          BY <5>1, <1>a DEF BeforeWord, AgreeBelow
      <4> QED
        BY <4>1, <4>2, <2>1, <1>a, <1>w
    <3> QED
      BY <3>1, <1>p, <2>1, <2>2, <2>3, <2>4 DEF TailBounds, graph
  <2>9. NoDangling'
    BY <1>p, <2>1, <2>4 DEF Consistent, NoDangling, graph
  <2> QED
    BY <2>4, <2>5, <2>6, <2>7, <2>8, <2>9 DEF Consistent
<1> QED
  BY <1>1, <1>2

LEMMA MinimizeFacts ==
  ASSUME Consistent, pc = "minimize"
  PROVE  /\ q0 # NULL /\ i \in Nat /\ Len(stack) \in Nat
         /\ i + Len(stack) <= Len(prev_word)
         /\ stack # <<>> \/ caller = "add" => state # "CLOSED"
         /\ TailWord = SubSeq(prev_word, 1, i + Len(stack))
         /\ Len(TailWord) = i + Len(stack)
         /\ \A k \in 1..(i + Len(stack)) :
              TailWord[k] = prev_word[k] /\ prev_word[k] \in Letter /\ prev_word[k] \in Nat
         /\ BoundWord = prev_word
<1>t. /\ prev_word \in Seq(Letter) /\ i \in 0..Len(word) /\ word \in Seq(Letter)
      /\ stack \in Seq(StackItem)
  BY DEF Consistent, TypeOK, StackItem
<1>w. i \in Nat /\ Len(stack) \in Nat /\ Len(prev_word) \in Nat
  BY <1>t
<1>1. q0 # NULL /\ i + Len(stack) <= Len(prev_word) /\ BoundWord = prev_word
  BY DEF Consistent, ObjectState, CallState, BoundWord
<1>2. stack # <<>> \/ caller = "add" => state # "CLOSED"
  <2>1. CASE caller = "add"
    BY <2>1 DEF Consistent, ObjectState
  <2>2. CASE stack # <<>>
    <3>1. Len(stack) > 0
      BY <2>2, <1>t, EmptySeq
    <3>2. prev_word # <<>>
      BY <3>1, <1>1, <1>w
    <3> QED
      BY <3>2 DEF Consistent, ObjectState
  <2> QED
    BY <2>1, <2>2
<1>3. TailWord = SubSeq(prev_word, 1, i + Len(stack))
  BY DEF TailWord
<1>4. i + Len(stack) \in 0..Len(prev_word)
  BY <1>1, <1>w
<1>5. /\ Len(TailWord) = i + Len(stack)
      /\ \A k \in 1..(i + Len(stack)) : TailWord[k] = prev_word[k]
  BY <1>3, <1>4, <1>t, FirstLetters
<1>6. \A k \in 1..(i + Len(stack)) : k \in 1..Len(prev_word)
  BY <1>4, <1>w
<1>7. \A k \in 1..(i + Len(stack)) : prev_word[k] \in Letter /\ prev_word[k] \in Nat
  BY <1>6, <1>t, ElementOfSeq, LettersAreNaturals
<1> QED
  BY <1>w, <1>1, <1>2, <1>3, <1>5, <1>7

LEMMA MinimizedConsistent ==
  ASSUME Consistent, Minimized
  PROVE  Consistent' /\ KeepsRest
<1>p. /\ pc = "minimize" /\ stack = <<>> /\ caller = "add" /\ pc' = "suffix"
      /\ UNCHANGED <<graph, registry, summary, ret, caller, word, i, cur, stack>>
  BY DEF Minimized
<1>w. /\ word \in Seq(Letter) /\ prev_word \in Seq(Letter)
      /\ word \in Seq(Nat) /\ prev_word \in Seq(Nat)
      /\ Len(word) \in Nat /\ Len(prev_word) \in Nat
  BY LettersAreNaturals DEF Consistent, TypeOK
<1>m. /\ q0 # NULL /\ i \in Nat /\ i <= Len(prev_word) /\ state # "CLOSED"
      /\ TailWord = SubSeq(prev_word, 1, i) /\ Len(TailWord) = i /\ BoundWord = prev_word
  <2>1. Len(stack) = 0 /\ (i \in Nat => i + Len(stack) = i)
    BY <1>p
  <2> QED
    BY <1>p, <2>1, MinimizeFacts
<1>c. /\ i < Len(prev_word) /\ i < Len(word) /\ BeforeWord
      /\ prev_word[i + 1] < word[i + 1] /\ cur = TailNode[i]
  BY <1>p DEF Consistent, CallState
<1>1. TailWord' = TailWord /\ BoundWord' = word
  <2>1. SubSeq(prev_word, 1, i) = SubSeq(word, 1, i)
    <3>1. i <= Len(word) /\ AgreeBelow(prev_word, word, i + 1)
      BY <1>c, <1>m, <1>w DEF BeforeWord
    <3> QED
      BY <3>1, <1>m, <1>w, SameFirstLetters
  <2>2. TailWord' = SubSeq(word, 1, i) /\ BoundWord' = word
    BY <1>p DEF TailWord, BoundWord
  <2> QED
    BY <2>1, <2>2, <1>m
<1>2. /\ RegistryValid' /\ NoLeak'
      /\ \A n \in live', l \in Letter : next'[n][l] \in live' \cup {NULL}
      /\ TailNode' = TailNode /\ TailUnshared' /\ KeepsRest
  BY <1>1, <1>p, SameGraph DEF summary
<1>3. TypeOK'
  BY <1>p DEF Consistent, TypeOK, graph, registry, summary
<1>4. ObjectState'
  BY <1>p, <1>m DEF Consistent, ObjectState, graph, registry, summary
<1>5. CallState'
  BY <1>p, <1>c, <1>2 DEF CallState
<1>6. TailBounds'
  <2>1. ASSUME NEW k \in 0..i, NEW l \in Letter, next[TailNode[k]][l] # NULL
        PROVE  k < Len(word) /\ l <= word[k + 1] /\ (k = i => l # word[k + 1])
    <3>1. l <= prev_word[k + 1]
      BY <2>1, <1>m DEF Consistent, TailBounds
    <3>2. k + 1 \in 1..Len(prev_word) /\ k + 1 \in 1..Len(word) /\ l \in Nat
      BY <1>c, <1>w, <1>m, LetterAssumption
    <3>3. prev_word[k + 1] \in Nat /\ word[k + 1] \in Nat
      BY <3>2, <1>w, LettersAreNaturals
    <3>4. CASE k = i
      BY <3>4, <3>1, <3>2, <3>3, <1>c
    <3>5. CASE k # i
      <4>1. k + 1 \in 1..((i + 1) - 1)
        BY <3>5, <1>m
      <4>2. prev_word[k + 1] = word[k + 1]
        BY <4>1, <1>c DEF BeforeWord, AgreeBelow
      <4> QED
        BY <3>1, <4>2, <3>5, <3>2, <1>c, <1>m
    <3> QED
      BY <3>4, <3>5
  <2> QED
    BY <2>1, <1>1, <1>2, <1>m, <1>p DEF TailBounds, graph, summary
<1>7. NoDangling'
  BY <1>p, <1>2 DEF Consistent, NoDangling, graph
<1> QED
  BY <1>2, <1>3, <1>4, <1>5, <1>6, <1>7 DEF Consistent

LEMMA CloseConsistent ==
  ASSUME Consistent, Close
  PROVE  Consistent' /\ KeepsRest
<1>p. /\ pc = "idle" /\ q0 # NULL /\ stack' = StackOf(q0, prev_word, 0)
      /\ pc' = "minimize" /\ caller' = "close"
      /\ UNCHANGED <<graph, registry, summary, ret, word, i, cur>>
  BY DEF Close
<1>c. word = <<>> /\ i = 0 /\ cur = NULL /\ TailWord = prev_word /\ BoundWord = prev_word
  BY <1>p DEF Consistent, CallState, TailWord, BoundWord
<1>w. prev_word \in Seq(Letter) /\ Len(prev_word) \in Nat
  BY LettersAreNaturals DEF Consistent, TypeOK
<1>1. /\ stack' \in Seq(StackItem) /\ Len(stack') = Len(prev_word)
      /\ \A k \in 1..Len(stack') :
           stack'[k] = [parent |-> TailNode[0 + k - 1], label |-> prev_word[0 + k],
                        child |-> TailNode[0 + k]]
  <2>1. CASE state # "CLOSED"
    <3>1. q0 = TailNode[0]
      BY <2>1, <1>p, TailFacts
    <3>2. /\ stack' \in Seq(StackItem) /\ Len(stack') = Len(prev_word) - 0
          /\ \A k \in 1..Len(stack') :
               stack'[k] = [parent |-> TailNode[0 + k - 1], label |-> prev_word[0 + k],
                            child |-> TailNode[0 + k]]
      BY <2>1, <3>1, <1>p, <1>c, <1>w, StackIsTail
    <3> QED
      BY <3>2, <1>w
  <2>2. CASE state = "CLOSED"
    <3>1. prev_word = <<>> /\ Len(prev_word) = 0 /\ Len(prev_word) - 0 = 0
      BY <2>2 DEF Consistent, ObjectState
    <3>2. stack' = <<>>
      <4> DEFINE run == Run(next, q0, SubSeq(prev_word, 1, 0))
                 item(k) == [parent |-> run[k - 1], label |-> prev_word[0 + k], child |-> run[k]]
      <4>1. stack' = [k \in 1..0 |-> item(k)]
        BY <1>p, <3>1 DEF StackOf
      <4> HIDE DEF item
      <4> QED
        BY <4>1
    <3> QED
      BY <3>1, <3>2, EmptySeq
  <2> QED
    BY <2>1, <2>2
<1>2. TailWord' = prev_word /\ BoundWord' = prev_word
  <2>1. TailWord' = SubSeq(prev_word, 1, 0 + Len(prev_word))
    BY <1>1, <1>p, <1>c DEF TailWord, summary
  <2> QED
    BY <2>1, <1>p, <1>w, SubSeqFull DEF BoundWord, summary
<1>3. /\ RegistryValid' /\ NoLeak'
      /\ \A n \in live', l \in Letter : next'[n][l] \in live' \cup {NULL}
      /\ TailNode' = TailNode /\ TailUnshared' /\ KeepsRest
  BY <1>2, <1>c, <1>p, SameGraph DEF summary
<1>4. TypeOK'
  BY <1>p, <1>1 DEF Consistent, TypeOK, graph, registry, summary, StackItem
<1>5. ObjectState'
  BY <1>p DEF Consistent, ObjectState, graph, registry, summary
<1>6. CallState'
  <2>1. i' = 0 /\ prev_word' = prev_word /\ Len(prev_word) = 0 + Len(stack')
    BY <1>1, <1>c, <1>p, <1>w DEF summary
  <2> QED
    BY <2>1, <1>1, <1>3, <1>c, <1>p, <1>w DEF CallState
<1>7. TailBounds'
  BY <1>p, <1>c, <1>2, <1>3 DEF Consistent, TailBounds, graph, summary
<1>8. NoDangling'
  <2>1. ASSUME NEW k \in 1..Len(stack')
        PROVE  {stack'[k].parent, stack'[k].child} \subseteq live'
    <3>1. state # "CLOSED"
      BY <1>1, <1>w DEF Consistent, ObjectState
    <3>2. 0 + k - 1 \in 0..Len(TailWord) /\ 0 + k \in 0..Len(TailWord)
      BY <1>1, <1>c, <1>w
    <3>3. TailNode[0 + k - 1] \in live /\ TailNode[0 + k] \in live
      BY <3>1, <3>2, <1>p, TailFacts
    <3>4. stack'[k] = [parent |-> TailNode[0 + k - 1], label |-> prev_word[0 + k],
                       child |-> TailNode[0 + k]]
      BY <1>1
    <3> QED
      BY <3>3, <3>4, <1>p DEF graph
  <2>2. {q0', cur'} \subseteq live' \cup {NULL}
    BY <1>p DEF Consistent, NoDangling, graph
  <2> QED
    BY <2>1, <2>2, <1>3 DEF NoDangling
<1> QED
  BY <1>3, <1>4, <1>5, <1>6, <1>7, <1>8 DEF Consistent

LEMMA EndCloseConsistent ==
  ASSUME Consistent, EndClose
  PROVE  Consistent' /\ KeepsRest
<1>p. /\ pc = "minimize" /\ reg' = {} /\ reg_ready' = FALSE
      /\ prev_word' = <<>> /\ state' = "CLOSED" /\ ret' = 1
      /\ pc' = "idle" /\ caller' = "add" /\ word' = <<>> /\ i' = 0 /\ cur' = NULL
      /\ stack' = <<>> /\ UNCHANGED <<graph, count, longest_word>>
  BY DEF EndClose, Return, NoPrevious
<1>1. TypeOK'
  BY <1>p, EmptyLocals DEF Consistent, TypeOK, graph
<1>2. ObjectState'
  BY <1>p, MinimizeFacts DEF Consistent, ObjectState, graph
<1>3. CallState'
  BY <1>p DEF CallState
<1>4. RegistryValid' /\ TailUnshared' /\ TailBounds'
  BY <1>p DEF RegistryValid, TailUnshared, TailBounds
<1>5. NoDangling' /\ NoLeak'
  BY <1>p DEF Consistent, NoDangling, NoLeak, graph
<1>6. KeepsRest
  BY <1>p DEF KeepsRest, RestRegistered
<1> QED
  BY <1>1, <1>2, <1>3, <1>4, <1>5, <1>6 DEF Consistent

(***************************************************************************)
(* DAWG_clear needs nothing of the graph: what it does not find to free is *)
(* no part of the new one.                                                 *)
(***************************************************************************)
LEMMA ClearConsistent ==
  ASSUME TypeOK, Clear
  PROVE  Consistent' /\ RestRegistered'
<1>p. /\ q0' = NULL /\ reg' = {} /\ reg_ready' = TRUE
      /\ count' = 0 /\ longest_word' = 0 /\ state' = "EMPTY" /\ prev_word' = <<>>
      /\ ret' = 0 /\ pc' = "idle" /\ caller' = "add" /\ word' = <<>> /\ i' = 0
      /\ cur' = NULL /\ stack' = <<>>
      /\ live' = {} /\ leaked' = leaked \cup (live \ Reachable(next, q0, live))
  BY DEF Clear, Return, NoPrevious, TableForReuse
<1>2. TypeOK'
  <2>1. NoEdges \in [Letter -> Node \cup {NULL}]
    BY DEF NoEdges
  <2>2. /\ next' \in [Node -> [Letter -> Node \cup {NULL}]]
        /\ eow' \in [Node -> BOOLEAN]
    BY <2>1 DEF Clear, TypeOK
  <2>3. leaked' \subseteq Node
    BY <1>p DEF TypeOK
  <2> QED
    BY <2>2, <2>3, <1>p, EmptyLocals DEF TypeOK
<1>3. ObjectState' /\ CallState'
  BY <1>p DEF ObjectState, CallState
<1>4. RegistryValid' /\ TailUnshared' /\ TailBounds' /\ RestRegistered'
  BY <1>p DEF RegistryValid, TailUnshared, TailBounds, RestRegistered
<1>5. NoDangling' /\ NoLeak'
  BY <1>p DEF NoDangling, NoLeak, Reachable
<1> QED
  BY <1>2, <1>3, <1>4, <1>5 DEF Consistent

(***************************************************************************)
(* The end of an addition, whatever the call returns: the node is marked   *)
(* and the word counted, and it becomes the previous word.                 *)
(***************************************************************************)
Marks ==
  /\ pc = "suffix" /\ i = Len(word)
  /\ eow' = Marked /\ count' = Counted
  /\ UNCHANGED <<q0, next, live, leaked, registry>>

Added ==
  /\ Marks
  /\ state' = "ACTIVE" /\ prev_word' = word
  /\ longest_word' = IF Len(word) > longest_word THEN Len(word) ELSE longest_word
  /\ ret' \in {0, 1, DAWG_NO_MEM}
  /\ pc' = "idle" /\ caller' = "add" /\ word' = <<>> /\ i' = 0 /\ cur' = NULL
  /\ stack' = <<>>

LEMMA EndAddIsAdded ==
  ASSUME EndAdd
  PROVE  Added
BY DEF EndAdd, Return, Added, Marks

LEMMA EndOfTail ==
  ASSUME Consistent, pc = "suffix", i = Len(word)
  PROVE  /\ word \in Seq(Letter) /\ Len(word) \in Nat
         /\ q0 # NULL /\ state # "CLOSED" /\ reg_ready
         /\ TailWord = word /\ BoundWord = word /\ cur = TailNode[i]
         /\ cur \in Node /\ cur # NULL /\ ~Registered(cur)
<1>w. word \in Seq(Letter) /\ Len(word) \in Nat
  BY LettersAreNaturals DEF Consistent, TypeOK
<1>s. /\ q0 # NULL /\ state # "CLOSED" /\ cur = TailNode[i] /\ reg_ready
      /\ TailWord = word /\ BoundWord = word
  <2>1. TailWord = SubSeq(word, 1, Len(word))
    BY DEF TailWord
  <2> QED
    BY <2>1, <1>w, SubSeqFull DEF Consistent, ObjectState, CallState, BoundWord
<1>c. cur \in Node /\ cur # NULL /\ ~Registered(cur)
  BY <1>s, <1>w, TailFacts DEF Consistent, TailUnshared
<1> QED
  BY <1>w, <1>s, <1>c

LEMMA MarksKept ==
  ASSUME Consistent, Marks
  PROVE  /\ eow' \in [Node -> BOOLEAN] /\ count' \in Nat
         /\ RegistryValid' /\ NoLeak'
<1>p. eow' = [eow EXCEPT ![cur] = TRUE] /\ UNCHANGED <<q0, next, live, leaked, registry>>
  BY DEF Marks, Marked
<1>c. cur \in Node /\ ~Registered(cur)
  BY EndOfTail DEF Marks
<1>1. eow' \in [Node -> BOOLEAN] /\ count' \in Nat
  <2>1. count' = Counted
    BY DEF Marks
  <2>2. eow' \in [Node -> BOOLEAN]
    BY <1>p DEF Consistent, TypeOK
  <2>3. count' \in Nat
    BY <2>1 DEF Counted, Consistent, TypeOK
  <2> QED
    BY <2>2, <2>3
<1>2. RegistryValid'
  <2>1. \A item \in reg : item.key # cur /\ item.key \in Node
    BY <1>c DEF Registered, Consistent, TypeOK
  <2>2. \A item \in reg : eow'[item.key] = eow[item.key]
    BY <2>1, <1>p DEF Consistent, TypeOK
  <2>3. reg' = reg /\ next' = next /\ live' = live
    BY <1>p DEF registry
  <2>4. \A item \in reg : item.key \in live /\ item = Entry(item.key, eow', next)
    BY <2>2 DEF Consistent, RegistryValid, Entry
  <2>5. \A item, other \in reg :
          eow'[item.key] = eow'[other.key] /\ next[item.key] = next[other.key]
          => item = other
    BY <2>2 DEF Consistent, RegistryValid, Equivalent
  <2> QED
    BY <2>3, <2>4, <2>5 DEF RegistryValid, Equivalent, Entry
<1>3. NoLeak'
  BY <1>p DEF Consistent, NoLeak
<1> QED
  BY <1>1, <1>2, <1>3

LEMMA AddedConsistent ==
  ASSUME Consistent, Added
  PROVE  Consistent' /\ KeepsRest
<1>p. /\ pc = "suffix" /\ i = Len(word) /\ Marks
      /\ state' = "ACTIVE" /\ prev_word' = word /\ ret' \in {0, 1, DAWG_NO_MEM}
      /\ pc' = "idle" /\ caller' = "add" /\ word' = <<>> /\ i' = 0 /\ cur' = NULL
      /\ stack' = <<>> /\ UNCHANGED <<q0, next, live, leaked, registry>>
  BY DEF Added, Marks
<1>s. /\ word \in Seq(Letter) /\ Len(word) \in Nat
      /\ q0 # NULL /\ state # "CLOSED" /\ cur = TailNode[i] /\ reg_ready
      /\ TailWord = word /\ BoundWord = word /\ TailWord' = word /\ BoundWord' = word
  BY <1>p, EndOfTail DEF TailWord, BoundWord
<1>t. TailNode' = TailNode
  BY <1>p, <1>s DEF TailNode
<1>m. eow' \in [Node -> BOOLEAN] /\ count' \in Nat /\ RegistryValid' /\ NoLeak'
  BY <1>p, MarksKept
<1>1. TypeOK'
  <2>1. longest_word' \in Nat
    BY <1>s DEF Added, Consistent, TypeOK
  <2>2. reg' \subseteq [key : Node, hash : HashValue] /\ prev_word' \in Seq(Letter)
    BY <1>p, <1>s DEF Consistent, TypeOK, registry
  <2> QED
    BY <2>1, <2>2, <1>m, <1>p, EmptyLocals DEF Consistent, TypeOK, registry
<1>2. ObjectState'
  BY <1>p, <1>s DEF Consistent, ObjectState, registry
<1>3. CallState'
  BY <1>p DEF CallState
<1>5. TailUnshared'
  BY <1>p, <1>s, <1>t DEF Consistent, TailUnshared, Registered, registry
<1>6. TailBounds'
  BY <1>p, <1>s, <1>t DEF Consistent, TailBounds
<1>7. NoDangling'
  BY <1>p DEF Consistent, NoDangling
<1>8. KeepsRest
  BY <1>p, <1>s, <1>t DEF KeepsRest, RestRegistered, Registered, registry
<1> QED
  BY <1>m, <1>1, <1>2, <1>3, <1>5, <1>6, <1>7, <1>8 DEF Consistent

-----------------------------------------------------------------------------
(***************************************************************************)
(* Steps that change the tail                                              *)
(***************************************************************************)

(***************************************************************************)
(* A run is kept as far as the edges it takes are.                         *)
(***************************************************************************)
SameEdges(g, g2, root, w, w2, m) ==
  /\ m \in Nat /\ m <= Len(w) /\ m <= Len(w2)
  /\ \A k \in 1..m :
       GetChild(g2, Run(g, root, w)[k - 1], w2[k])
         = GetChild(g, Run(g, root, w)[k - 1], w[k])

LEMMA RunKept ==
  ASSUME NEW g, NEW g2, NEW root, NEW w, NEW w2, NEW m,
         Len(w) \in Nat, Len(w2) \in Nat, SameEdges(g, g2, root, w, w2, m)
  PROVE  \A k \in 0..m : Run(g2, root, w2)[k] = Run(g, root, w)[k]
<1> DEFINE h == Run(g, root, w)
<1>m. m \in Nat /\ m <= Len(w) /\ m <= Len(w2)
  BY DEF SameEdges
<1>1. h[0] = root /\ \A k \in 1..Len(w) : h[k] = GetChild(g, h[k - 1], w[k])
  BY RunStep
<1>2. \A k \in 1..m : h[k] = GetChild(g2, h[k - 1], w2[k])
  <2>1. \A k \in 1..m : k \in 1..Len(w)
    BY <1>m
  <2> QED
    BY <1>1, <2>1 DEF SameEdges
<1> HIDE DEF h
<1>3. Follows(h, g2, root, w2, m)
  BY <1>1, <1>2, <1>m DEF Follows
<1>4. \A k \in 0..m : Run(g2, root, w2)[k] = h[k]
  BY <1>3, RunUnique
<1> QED
  BY <1>4 DEF h

(***************************************************************************)
(* The item DAWG_replace_or_register pops is the last edge of the tail.    *)
(***************************************************************************)
LEMMA TopOfStack ==
  ASSUME Consistent, pc = "minimize", stack # <<>>
  PROVE  LET L == Len(TailWord)
             item == stack[Len(stack)]
         IN  /\ q0 # NULL /\ state # "CLOSED"
             /\ L \in Nat /\ L > 0 /\ L = i + Len(stack) /\ L <= Len(prev_word)
             /\ i \in Nat /\ i < L
             /\ item.parent = TailNode[L - 1] /\ item.child = TailNode[L]
             /\ item.label = prev_word[L] /\ item.label \in Letter
             /\ TailWord[L] = item.label
             /\ {item.parent, item.child} \subseteq live
             /\ {item.parent, item.child} \subseteq Node
             /\ item.parent # item.child
             /\ ~Registered(item.parent) /\ ~Registered(item.child)
             /\ Popped \in Seq(StackItem) /\ Len(Popped) = Len(stack) - 1
             /\ \A k \in 1..(Len(stack) - 1) : Popped[k] = stack[k]
<1> DEFINE L == Len(TailWord)
           item == stack[Len(stack)]
<1>t. stack \in Seq(StackItem) /\ Len(stack) \in Nat /\ Len(stack) > 0
  <2>1. stack \in Seq(StackItem)
    BY DEF Consistent, TypeOK, StackItem
  <2> QED
    BY <2>1, EmptySeq
<1>1. /\ q0 # NULL /\ state # "CLOSED" /\ i \in Nat
      /\ L = i + Len(stack) /\ L <= Len(prev_word)
      /\ \A k \in 1..L : TailWord[k] = prev_word[k] /\ prev_word[k] \in Letter
  BY MinimizeFacts
<1>2. L \in Nat /\ L > 0 /\ i < L /\ L \in 1..L /\ L \in 0..L /\ L - 1 \in 0..L
  BY <1>1, <1>t
<1>3. item = [parent |-> TailNode[L - 1], label |-> prev_word[L], child |-> TailNode[L]]
  <2>1. Len(stack) \in 1..Len(stack) /\ i + Len(stack) - 1 = L - 1
    BY <1>t, <1>1
  <2>2. item = [parent |-> TailNode[i + Len(stack) - 1],
                label |-> prev_word[i + Len(stack)], child |-> TailNode[i + Len(stack)]]
    BY <2>1 DEF Consistent, CallState
  <2> QED
    BY <2>1, <2>2, <1>1
<1>4. /\ TailNode[L - 1] \in live /\ TailNode[L] \in live
      /\ TailNode[L - 1] \in Node /\ TailNode[L] \in Node
      /\ ~Registered(TailNode[L - 1]) /\ ~Registered(TailNode[L])
  BY <1>1, <1>2, TailFacts DEF Consistent, TailUnshared
<1>5. TailNode[L - 1] # TailNode[L]
  BY <1>1, <1>2, TailDistinct
<1>6. /\ Popped \in Seq(StackItem) /\ Len(Popped) = Len(stack) - 1
      /\ \A k \in 1..(Len(stack) - 1) : Popped[k] = stack[k]
  <2>1. Len(stack) - 1 \in 0..Len(stack)
    BY <1>t
  <2> QED
    BY <2>1, <1>t, FirstLetters DEF Popped
<1> QED
  BY <1>1, <1>2, <1>3, <1>4, <1>5, <1>6

(***************************************************************************)
(* Popping takes the last node off the tail, when the edges before it stay.*)
(***************************************************************************)
LEMMA PoppedTail ==
  ASSUME Consistent, pc = "minimize", stack # <<>>, stack' = Popped,
         UNCHANGED <<q0, prev_word, pc, i>>,
         \A k \in 0..(Len(TailWord) - 2), l \in Letter :
           next'[TailNode[k]][l] = next[TailNode[k]][l]
  PROVE  /\ Len(TailWord') = Len(TailWord) - 1 /\ BoundWord' = prev_word
         /\ \A k \in 1..(Len(TailWord) - 1) : TailWord'[k] = TailWord[k]
         /\ \A k \in 0..(Len(TailWord) - 1) : TailNode'[k] = TailNode[k]
<1> DEFINE L == Len(TailWord)
           V == TailWord'
<1>1. /\ L \in Nat /\ L > 0 /\ i \in Nat /\ L = i + Len(stack) /\ L <= Len(prev_word)
      /\ Len(Popped) = Len(stack) - 1 /\ q0 # NULL /\ state # "CLOSED"
  BY TopOfStack
<1>2. prev_word \in Seq(Letter) /\ Len(prev_word) \in Nat /\ Len(stack) \in Nat
  BY DEF Consistent, TypeOK
<1>3. V = SubSeq(prev_word, 1, L - 1)
  <2>1. i' + Len(stack') = L - 1
    BY <1>1, <1>2
  <2> QED
    BY <2>1 DEF TailWord
<1>4. Len(V) = L - 1 /\ \A k \in 1..(L - 1) : V[k] = prev_word[k]
  <2>1. L - 1 \in 0..Len(prev_word)
    BY <1>1, <1>2
  <2> QED
    BY <2>1, <1>2, <1>3, FirstLetters
<1>5. \A k \in 1..(L - 1) : V[k] = TailWord[k] /\ TailWord[k] \in Letter
  <2>1. \A k \in 1..L : TailWord[k] = prev_word[k] /\ prev_word[k] \in Letter
    BY <1>1, MinimizeFacts
  <2>2. \A k \in 1..(L - 1) : k \in 1..L
    BY <1>1
  <2> QED
    BY <2>1, <2>2, <1>4
<1>6. \A k \in 1..(L - 1) :
        GetChild(next', TailNode[k - 1], V[k]) = GetChild(next, TailNode[k - 1], TailWord[k])
  <2>1. \A k \in 1..(L - 1) : k - 1 \in 0..(L - 2)
    BY <1>1
  <2> HIDE DEF L, V
  <2> QED
    BY <2>1, <1>5 DEF GetChild, L
<1>7. \A k \in 0..(L - 1) : TailNode'[k] = TailNode[k]
  <2>1. \A k \in 1..(L - 1) :
          GetChild(next', Run(next, q0, TailWord)[k - 1], V[k])
            = GetChild(next, Run(next, q0, TailWord)[k - 1], TailWord[k])
    BY <1>6 DEF TailNode
  <2>2. SameEdges(next, next', q0, TailWord, V, L - 1)
    BY <2>1, <1>1, <1>4 DEF SameEdges
  <2>3. \A k \in 0..(L - 1) : Run(next', q0, V)[k] = Run(next, q0, TailWord)[k]
    <3>1. Len(V) \in Nat /\ Len(TailWord) \in Nat
      BY <1>1, <1>4
    <3> HIDE DEF V, L
    <3> QED
      BY <2>2, <3>1, RunKept
  <2> QED
    BY <2>3 DEF TailNode
<1>8. BoundWord' = prev_word
  BY DEF BoundWord
<1> QED
  BY <1>4, <1>5, <1>7, <1>8

(***************************************************************************)
(* What popping leaves of the call: the rest of the stack describes the    *)
(* rest of the tail.                                                       *)
(***************************************************************************)
LEMMA PoppedCall ==
  ASSUME Consistent, pc = "minimize", stack # <<>>, stack' = Popped,
         UNCHANGED <<q0, state, prev_word, pc, i, caller, word, cur>>,
         \A k \in 0..(Len(TailWord) - 1) : TailNode'[k] = TailNode[k]
  PROVE  CallState'
<1> DEFINE L == Len(TailWord)
<1>1. /\ L \in Nat /\ i \in Nat /\ L = i + Len(stack) /\ L <= Len(prev_word)
      /\ Len(Popped) = Len(stack) - 1 /\ i < L
      /\ \A k \in 1..(Len(stack) - 1) : Popped[k] = stack[k]
  BY TopOfStack
<1>2. Len(prev_word) \in Nat /\ Len(stack) \in Nat
  BY DEF Consistent, TypeOK
<1>3. i' + Len(stack') <= Len(prev_word')
  BY <1>1, <1>2
<1>4. ASSUME NEW k \in 1..Len(stack')
      PROVE  stack'[k] = [parent |-> TailNode'[i' + k - 1], label |-> prev_word'[i' + k],
                          child |-> TailNode'[i' + k]]
  <2>1. /\ k \in 1..Len(stack) /\ k \in 1..(Len(stack) - 1)
        /\ i + k - 1 \in 0..(L - 1) /\ i + k \in 0..(L - 1)
    BY <1>1, <1>2
  <2>2. stack[k] = [parent |-> TailNode[i + k - 1], label |-> prev_word[i + k],
                    child |-> TailNode[i + k]]
    BY <2>1 DEF Consistent, CallState
  <2> QED
    BY <2>1, <2>2, <1>1
<1>5. TailNode'[i'] = TailNode[i]
  <2>1. i \in 0..(L - 1)
    BY <1>1
  <2> QED
    BY <2>1
<1>6. BeforeWord = BeforeWord'
  BY DEF BeforeWord
<1> QED
  BY <1>3, <1>4, <1>5, <1>6 DEF Consistent, CallState

LEMMA RegisterConsistent ==
  ASSUME Consistent, Register
  PROVE  Consistent' /\ KeepsRest
<1> DEFINE L == Len(TailWord)
           item == stack[Len(stack)]
           child == item.child
           parent == item.parent
<1>p. /\ pc = "minimize" /\ stack # <<>> /\ Lookup(child) = {}
      /\ reg' = reg \cup {Entry(child, eow, next)} /\ stack' = Popped
      /\ UNCHANGED <<graph, reg_ready, summary, ret, pc, caller, word, i, cur>>
  BY DEF Register
<1>t. /\ q0 # NULL /\ state # "CLOSED" /\ L \in Nat /\ L > 0 /\ L <= Len(prev_word)
      /\ child = TailNode[L] /\ child \in live /\ child \in Node /\ ~Registered(child)
      /\ Popped \in Seq(StackItem) /\ Len(Popped) = Len(stack) - 1
      /\ \A k \in 1..(Len(stack) - 1) : Popped[k] = stack[k]
  BY <1>p, TopOfStack
<1>u. UNCHANGED <<q0, next, eow, live, leaked, state, prev_word, pc, i, caller, word, cur>>
  BY <1>p DEF graph, summary
<1>v. /\ Len(TailWord') = L - 1 /\ BoundWord' = prev_word
      /\ \A k \in 1..(L - 1) : TailWord'[k] = TailWord[k]
      /\ \A k \in 0..(L - 1) : TailNode'[k] = TailNode[k]
  BY <1>p, <1>u, PoppedTail
<1>s. \A k \in 0..(L - 1) : k \in 0..L /\ TailNode[k] # child
  BY <1>p, <1>t, TailDistinct
<1>1. TypeOK'
  <2>1. Entry(child, eow, next) \in [key : Node, hash : HashValue]
    BY <1>t DEF Consistent, TypeOK, Entry, HashValue
  <2>2. stack' \in Seq([parent : Node, label : Letter, child : Node])
    BY <1>p, <1>t DEF StackItem
  <2> QED
    BY <2>1, <2>2, <1>p, <1>u DEF Consistent, TypeOK, summary
<1>2. ObjectState'
  BY <1>p, <1>t, <1>u DEF Consistent, ObjectState, summary
<1>3. CallState'
  BY <1>p, <1>u, <1>v, PoppedCall
<1>4. RegistryValid'
  <2>1. \A x \in reg' : x.key \in live /\ x = Entry(x.key, eow, next)
    BY <1>p, <1>t DEF Consistent, RegistryValid, Entry
  <2>2. ASSUME NEW x \in reg, Equivalent(child, x.key) PROVE FALSE
    <3>1. x = [key |-> x.key, hash |-> Hash(eow[child], next[child])] /\ x.key \in Node
      BY <2>2 DEF Consistent, TypeOK, RegistryValid, Entry, Equivalent
    <3>2. x.key \in Lookup(child)
      BY <3>1, <2>2 DEF Lookup
    <3> QED
      BY <3>2, <1>p
  <2>3. \A x, y \in reg' : Equivalent(x.key, y.key) => x = y
    <3>1. \A x, y \in reg : Equivalent(x.key, y.key) => x = y
      BY DEF Consistent, RegistryValid
    <3>2. \A x \in reg : ~Equivalent(child, x.key) /\ ~Equivalent(x.key, child)
      BY <2>2 DEF Equivalent
    <3>3. Entry(child, eow, next).key = child
      BY DEF Entry
    <3> QED
      BY <3>1, <3>2, <3>3, <1>p
  <2> QED
    BY <2>1, <2>3, <1>u DEF RegistryValid, Equivalent, Entry
<1>5. TailUnshared'
  <2>1. ASSUME NEW k \in 0..(L - 1)
        PROVE  TailNode'[k] \in live /\ \A x \in reg' : x.key # TailNode'[k]
    <3>1. k \in 0..L /\ TailNode[k] # child /\ TailNode'[k] = TailNode[k]
      BY <1>s, <1>v
    <3>2. TailNode[k] \in live /\ ~Registered(TailNode[k])
      BY <3>1, <1>t DEF Consistent, TailUnshared
    <3>3. \A x \in reg' : x.key # TailNode[k]
      BY <3>1, <3>2, <1>p DEF Registered, Entry
    <3> QED
      BY <3>1, <3>2, <3>3
  <2>2. ASSUME NEW n \in live, NEW l \in Letter, NEW k \in 0..(L - 1),
               next[n][l] = TailNode'[k]
        PROVE  k > 0 /\ n = TailNode'[k - 1] /\ l = TailWord'[k]
    <3>0. k \in 0..L /\ next[n][l] = TailNode[k]
      BY <2>2, <1>s, <1>v
    <3>1. k > 0 /\ n = TailNode[k - 1] /\ l = TailWord[k]
      BY <3>0, <1>t DEF Consistent, TailUnshared
    <3>2. k \in 1..(L - 1) /\ k - 1 \in 0..(L - 1)
      BY <3>1
    <3> QED
      BY <3>1, <3>2, <1>v
  <2>4. Len(TailWord') = L - 1
    BY <1>v
  <2>5. \A k \in 0..Len(TailWord') :
          TailNode'[k] \in live' /\ ~(Registered(TailNode[k]))'
    BY <2>1, <2>4, <1>u DEF Registered
  <2>6. \A n \in live', l \in Letter, k \in 0..Len(TailWord') :
          next'[n][l] = TailNode'[k] =>
            k > 0 /\ n = TailNode'[k - 1] /\ l = TailWord'[k]
    BY <2>2, <2>4, <1>u
  <2> QED
    BY <2>5, <2>6 DEF TailUnshared
<1>6. TailBounds'
  <2>1. ASSUME NEW k \in 0..(L - 1), NEW l \in Letter, next[TailNode[k]][l] # NULL
        PROVE  k < Len(prev_word) /\ l <= prev_word[k + 1]
    <3>1. k \in 0..L /\ BoundWord = prev_word
      BY <1>s, <1>p, MinimizeFacts
    <3> QED
      BY <2>1, <3>1, <1>t DEF Consistent, TailBounds
  <2> QED
    BY <2>1, <1>p, <1>u, <1>v DEF TailBounds
<1>7. NoDangling'
  <2>1. ASSUME NEW k \in 1..Len(stack')
        PROVE  {stack'[k].parent, stack'[k].child} \subseteq live
    <3>1. k \in 1..Len(stack) /\ k \in 1..(Len(stack) - 1) /\ stack'[k] = stack[k]
      BY <1>p, <1>t DEF Consistent, TypeOK
    <3> QED
      BY <3>1 DEF Consistent, NoDangling
  <2> QED
    BY <2>1, <1>u DEF Consistent, NoDangling
<1>8. NoLeak'
  BY <1>u DEF Consistent, NoLeak
<1>9. KeepsRest
  <2> SUFFICES ASSUME RestRegistered PROVE RestRegistered'
    BY DEF KeepsRest
  <2>r. RestRegistered
    OBVIOUS
  <2>1. ASSUME NEW n \in live, \A x \in reg' : x.key # n
        PROVE  \E k \in 0..(L - 1) : n = TailNode'[k]
    <3>1. PICK k \in 0..L : n = TailNode[k]
      BY <2>1, <2>r, <1>p, <1>t DEF RestRegistered, Registered
    <3>2. k # L
      <4>1. Entry(child, eow, next) \in reg' /\ Entry(child, eow, next).key = child
        BY <1>p DEF Entry
      <4>2. n # child
        BY <4>1, <2>1
      <4> QED
        BY <4>2, <3>1, <1>t
    <3>3. k \in 0..(L - 1)
      BY <3>2, <1>t
    <3> QED
      BY <3>1, <3>3, <1>v
  <2>2. Len(TailWord') = L - 1
    BY <1>v
  <2>3. \A n \in live' : ~(Registered(n))' =>
          \E k \in 0..Len(TailWord') : n = TailNode'[k]
    BY <2>1, <2>2, <1>u DEF Registered
  <2> QED
    BY <2>3 DEF RestRegistered
<1> QED
  BY <1>1, <1>2, <1>3, <1>4, <1>5, <1>6, <1>7, <1>8, <1>9 DEF Consistent

(***************************************************************************)
(* Nothing leaks when every set a traversal may end with is the whole set. *)
(***************************************************************************)
LEMMA AllReached ==
  ASSUME NEW g, NEW root, NEW N
  PROVE  N = Reachable(g, root, N) <=> \A S \in ClosedSets(g, root, N) : N \subseteq S
<1>1. Reachable(g, root, N) = {n \in N : \A S \in ClosedSets(g, root, N) : n \in S}
  BY DEF Reachable
<1> QED
  BY <1>1

(***************************************************************************)
(* The replaced node: the one that takes its place is registered, so it is *)
(* another node, off the tail; and only one edge has to be redirected.     *)
(***************************************************************************)
LEMMA ReplaceFacts ==
  ASSUME Consistent, pc = "minimize", stack # <<>>,
         NEW r \in Lookup(stack[Len(stack)].child)
  PROVE  LET L == Len(TailWord)
             item == stack[Len(stack)]
             child == item.child
             parent == item.parent
         IN  /\ r \in live /\ r \in Node /\ r # NULL
             /\ next[r] = next[child] /\ eow[r] = eow[child]
             /\ \A k \in 0..L : r # TailNode[k]
             /\ r # child /\ r # parent
             /\ next[parent][item.label] = child
             /\ \A n \in live, l \in Letter :
                  next[n][l] = child => n = parent /\ l = item.label
             /\ \A k \in 0..(L - 1) : TailNode[k] # child
             /\ \A k \in 0..(L - 2) : TailNode[k] # parent
             /\ \A g : Rekeyed(parent, g) = reg
<1> DEFINE L == Len(TailWord)
           item == stack[Len(stack)]
           child == item.child
           parent == item.parent
<1>t. /\ q0 # NULL /\ state # "CLOSED" /\ L \in Nat /\ L > 0
      /\ parent = TailNode[L - 1] /\ child = TailNode[L]
      /\ TailWord[L] = item.label /\ ~Registered(parent)
  BY TopOfStack
<1>k. L \in 0..L /\ L - 1 \in 0..L /\ L \in 1..L
  BY <1>t
<1>1. r \in Node /\ Registered(r) /\ next[r] = next[child] /\ eow[r] = eow[child]
  <2>1. /\ r \in Node /\ [key |-> r, hash |-> Hash(eow[child], next[child])] \in reg
        /\ next[child] = next[r] /\ eow[child] = eow[r]
    BY DEF Lookup, Equivalent
  <2> HIDE DEF child
  <2> QED
    BY <2>1 DEF Registered
<1>2. r \in live
  <2>1. PICK x \in reg : x.key = r
    BY <1>1 DEF Registered
  <2> QED
    BY <2>1 DEF Consistent, RegistryValid
<1>3. r # NULL
  BY <1>1, NullAssumption
<1>4. \A k \in 0..L : r # TailNode[k]
  <2>1. \A k \in 0..L : ~Registered(TailNode[k])
    BY <1>t DEF Consistent, TailUnshared
  <2> QED
    BY <2>1, <1>1
<1>5. next[parent][item.label] = child
  BY <1>t, <1>k, TailFacts
<1>6. \A n \in live, l \in Letter : next[n][l] = child => n = parent /\ l = item.label
  BY <1>t, <1>k DEF Consistent, TailUnshared
<1>7. \A k \in 0..(L - 1) : TailNode[k] # child
  <2>1. ASSUME NEW k \in 0..(L - 1) PROVE k \in 0..L /\ k # L
    BY <1>t
  <2> QED
    BY <2>1, <1>t, <1>k, TailDistinct
<1>8. \A k \in 0..(L - 2) : TailNode[k] # parent
  <2>1. ASSUME NEW k \in 0..(L - 2) PROVE k \in 0..L /\ k # L - 1
    BY <1>t
  <2> QED
    BY <2>1, <1>t, <1>k, TailDistinct
<1>9. \A g : Rekeyed(parent, g) = reg
  <2>1. Entry(parent, eow, next).key = parent
    BY DEF Entry
  <2> HIDE DEF parent
  <2>2. Entry(parent, eow, next) \notin reg
    BY <2>1, <1>t DEF Registered
  <2> QED
    BY <2>2 DEF Rekeyed
<1> QED
  BY <1>1, <1>2, <1>3, <1>4, <1>5, <1>6, <1>7, <1>8, <1>9, <1>t, <1>k

(***************************************************************************)
(* Replacing keeps everything reachable: a traversal of the new graph that *)
(* meets the parent would have met the child in the old one, and what the  *)
(* child leads to its replacement leads to as well.                        *)
(***************************************************************************)
EdgeMoved(g, g2, root, N, parent, label, child, r) ==
  /\ NULL \notin N /\ {root, r, child} \subseteq N
  /\ r # child /\ r # parent /\ parent # child /\ root # child /\ label \in Letter
  /\ g[parent][label] = child /\ g2[parent][label] = r
  /\ \A l \in Letter : g[child][l] = g[r][l]
  /\ \A n \in N \ {child}, l \in Letter :
       n # parent \/ l # label => g2[n][l] = g[n][l]

LEMMA ReplaceNoLeak ==
  ASSUME NEW g, NEW g2, NEW root, NEW N, NEW parent, NEW child, NEW r, NEW label,
         EdgeMoved(g, g2, root, N, parent, label, child, r),
         N = Reachable(g, root, N)
  PROVE  N \ {child} = Reachable(g2, root, N \ {child})
<1> USE DEF EdgeMoved
<1> DEFINE M == N \ {child}
<1> SUFFICES ASSUME NEW S \in ClosedSets(g2, root, M)
             PROVE  M \subseteq S
  <2> HIDE DEF M
  <2>1. M = Reachable(g2, root, M)
    BY AllReached
  <2> QED
    BY <2>1 DEF M
<1>s. /\ S \subseteq N \ {child} /\ root \in S
      /\ \A n \in S, l \in Letter : g2[n][l] # NULL => g2[n][l] \in S
  BY DEF ClosedSets
<1> DEFINE T == {n \in N : n \in S \/ (n = child /\ parent \in S)}
<1>1. ASSUME NEW n \in S, NEW l \in Letter, g[n][l] # NULL
      PROVE  g[n][l] \in S \/ (g[n][l] = child /\ parent \in S)
  <2>1. CASE n = parent /\ l = label
    BY <2>1
  <2>2. CASE n # parent \/ l # label
    <3>1. g2[n][l] = g[n][l]
      BY <2>2, <1>s
    <3> QED
      BY <3>1, <1>1, <1>s
  <2> QED
    BY <2>1, <2>2
<1>2. ASSUME parent \in S, NEW l \in Letter, g[child][l] # NULL
      PROVE  g[child][l] \in S
  <2>1. r \in S
    BY <1>2, <1>s
  <2>2. g2[r][l] = g[r][l]
    BY <2>1
  <2> QED
    BY <1>2, <2>1, <2>2, <1>s
<1>3. \A n \in T, l \in Letter : g[n][l] # NULL => g[n][l] \in T
  BY <1>1, <1>2, <1>s
<1>4. T \in SUBSET N /\ root \in T
  BY <1>s
<1>5. T \in ClosedSets(g, root, N)
  BY <1>3, <1>4 DEF ClosedSets
<1> QED
  BY <1>5, AllReached

LEMMA ReplaceConsistent ==
  ASSUME Consistent, Replace
  PROVE  Consistent' /\ KeepsRest
<1> DEFINE L == Len(TailWord)
           item == stack[Len(stack)]
           child == item.child
           parent == item.parent
           label == item.label
<1>p. /\ pc = "minimize" /\ stack # <<>> /\ stack' = Popped
      /\ UNCHANGED <<q0, leaked, reg_ready, summary, ret, pc, caller, word, i, cur>>
  BY DEF Replace
<1>a. PICK r \in Lookup(child) :
        /\ reg' = Rekeyed(parent, Redirected(item, r))
        /\ next' = [Redirected(item, r) EXCEPT ![child] = NoEdges]
        /\ eow' = [eow EXCEPT ![child] = FALSE]
        /\ live' = live \ {child}
  BY DEF Replace, WithoutNode
<1>t. /\ q0 # NULL /\ state # "CLOSED" /\ L \in Nat /\ L > 0 /\ L <= Len(prev_word)
      /\ i \in Nat /\ i < L
      /\ parent = TailNode[L - 1] /\ child = TailNode[L] /\ label \in Letter
      /\ TailWord[L] = label /\ {parent, child} \subseteq live
      /\ {parent, child} \subseteq Node /\ parent # child
      /\ ~Registered(parent) /\ ~Registered(child)
      /\ Popped \in Seq(StackItem) /\ Len(Popped) = Len(stack) - 1
  BY <1>p, TopOfStack
<1>r. /\ r \in live /\ r \in Node /\ r # NULL
      /\ next[r] = next[child] /\ eow[r] = eow[child]
      /\ \A k \in 0..L : r # TailNode[k]
      /\ r # child /\ r # parent
      /\ next[parent][label] = child
      /\ \A n \in live, l \in Letter : next[n][l] = child => n = parent /\ l = label
      /\ \A k \in 0..(L - 1) : TailNode[k] # child
      /\ \A k \in 0..(L - 2) : TailNode[k] # parent
      /\ \A g : Rekeyed(parent, g) = reg
  BY <1>p, ReplaceFacts
<1>u. /\ UNCHANGED <<q0, leaked, reg_ready, state, count, longest_word, prev_word, ret,
                     pc, i, caller, word, cur>>
      /\ reg' = reg
  BY <1>p, <1>a, <1>r DEF summary
<1> HIDE DEF child, parent, label
<1>y. /\ next \in [Node -> [Letter -> Node \cup {NULL}]] /\ eow \in [Node -> BOOLEAN]
      /\ live \subseteq Node
  BY DEF Consistent, TypeOK
<1>g. next' = [[next EXCEPT ![parent][label] = r] EXCEPT ![child] = NoEdges]
  BY <1>a DEF Redirected, child, parent, label
<1>n. /\ next' \in [Node -> [Letter -> Node \cup {NULL}]]
      /\ next'[parent][label] = r
      /\ \A n \in Node \ {child}, l \in Letter :
           n # parent \/ l # label => next'[n][l] = next[n][l]
      /\ \A n \in Node \ {child, parent} : next'[n] = next[n]
      /\ \A n \in Node \ {child} : eow'[n] = eow[n]
      /\ eow' \in [Node -> BOOLEAN]
  <2>1. NoEdges \in [Letter -> Node \cup {NULL}]
    BY DEF NoEdges
  <2>2. next' \in [Node -> [Letter -> Node \cup {NULL}]]
    BY <2>1, <1>g, <1>y, <1>t, <1>r
  <2>3. next'[parent][label] = r
    BY <1>g, <1>y, <1>t
  <2>4. \A n \in Node \ {child}, l \in Letter :
          n # parent \/ l # label => next'[n][l] = next[n][l]
    BY <1>g, <1>y, <1>t
  <2>5. \A n \in Node \ {child, parent} : next'[n] = next[n]
    BY <1>g, <1>y, <1>t
  <2>6. eow' \in [Node -> BOOLEAN] /\ \A n \in Node \ {child} : eow'[n] = eow[n]
    BY <1>a, <1>y DEF child
  <2> QED
    BY <2>2, <2>3, <2>4, <2>5, <2>6
<1>l. live' = live \ {child}
  BY <1>a DEF child
<1>f. \A k \in 0..L : TailNode[k] \in live /\ TailNode[k] \in Node /\ ~Registered(TailNode[k])
  BY <1>t, TailFacts DEF Consistent, TailUnshared
<1>v. /\ Len(TailWord') = L - 1 /\ BoundWord' = prev_word
      /\ \A k \in 1..(L - 1) : TailWord'[k] = TailWord[k]
      /\ \A k \in 0..(L - 1) : TailNode'[k] = TailNode[k]
  <2>1. ASSUME NEW k \in 0..(L - 2), NEW l \in Letter
        PROVE  next'[TailNode[k]][l] = next[TailNode[k]][l]
    <3>1. k \in 0..L /\ k \in 0..(L - 1)
      BY <1>t
    <3>2. TailNode[k] \in Node /\ TailNode[k] # child /\ TailNode[k] # parent
      BY <3>1, <1>f, <1>r
    <3> QED
      BY <3>2, <1>n
  <2> QED
    BY <2>1, <1>p, <1>u, PoppedTail
<1>1. TypeOK'
  <2>1. stack' \in Seq([parent : Node, label : Letter, child : Node])
    BY <1>p, <1>t DEF StackItem
  <2> QED
    BY <2>1, <1>l, <1>n, <1>u DEF Consistent, TypeOK
<1>q. q0 # child
  <2>1. 0 \in 0..(L - 1)
    BY <1>t
  <2> QED
    BY <2>1, <1>r, <1>t, TailFacts
<1>2. ObjectState'
  BY <1>t, <1>u, <1>l, <1>q DEF Consistent, ObjectState
<1>3. CallState'
  BY <1>p, <1>u, <1>v, PoppedCall
<1>4. RegistryValid'
  <2>1. \A x \in reg : x.key # child /\ x.key # parent /\ x.key \in Node
    BY <1>t DEF Registered, Consistent, TypeOK
  <2>2. \A x \in reg : eow'[x.key] = eow[x.key] /\ next'[x.key] = next[x.key]
    BY <2>1, <1>n
  <2>3. \A x \in reg : x.key \in live' /\ x = Entry(x.key, eow', next')
    BY <2>1, <2>2, <1>l DEF Consistent, RegistryValid, Entry
  <2>4. \A x, y \in reg :
          eow'[x.key] = eow'[y.key] /\ next'[x.key] = next'[y.key] => x = y
    BY <2>2 DEF Consistent, RegistryValid, Equivalent
  <2> QED
    BY <2>3, <2>4, <1>u DEF RegistryValid, Equivalent, Entry
<1>5. TailUnshared'
  <2>1. ASSUME NEW k \in 0..(L - 1)
        PROVE  TailNode'[k] \in live' /\ \A x \in reg : x.key # TailNode'[k]
    <3>1. k \in 0..L
      BY <1>t
    <3> QED
      BY <3>1, <1>f, <1>v, <1>l, <1>r DEF Registered
  <2>2. ASSUME NEW n \in live', NEW l \in Letter, NEW k \in 0..(L - 1),
               next'[n][l] = TailNode'[k]
        PROVE  k > 0 /\ n = TailNode'[k - 1] /\ l = TailWord'[k]
    <3>1. k \in 0..L /\ TailNode'[k] = TailNode[k]
      BY <1>t, <1>v
    <3>2. n \in live /\ n \in Node /\ n # child
      BY <1>l, <1>y
    <3>3. n # parent \/ l # label
      <4>1. r # TailNode[k]
        BY <3>1, <1>r
      <4> QED
        BY <4>1, <3>1, <2>2, <1>n
    <3>4. next[n][l] = TailNode[k]
      BY <3>1, <3>2, <3>3, <2>2, <1>n
    <3>5. k > 0 /\ n = TailNode[k - 1] /\ l = TailWord[k]
      BY <3>1, <3>2, <3>4, <1>t DEF Consistent, TailUnshared
    <3>6. k \in 1..(L - 1) /\ k - 1 \in 0..(L - 1)
      BY <3>5
    <3> QED
      BY <3>5, <3>6, <1>v
  <2>4. Len(TailWord') = L - 1
    BY <1>v
  <2>5. \A k \in 0..Len(TailWord') :
          TailNode'[k] \in live' /\ ~(Registered(TailNode[k]))'
    BY <2>1, <2>4, <1>u DEF Registered
  <2>6. \A n \in live', l \in Letter, k \in 0..Len(TailWord') :
          next'[n][l] = TailNode'[k] =>
            k > 0 /\ n = TailNode'[k - 1] /\ l = TailWord'[k]
    BY <2>2, <2>4, <1>u
  <2> QED
    BY <2>5, <2>6 DEF TailUnshared
<1>6. TailBounds'
  <2>1. ASSUME NEW k \in 0..(L - 1), NEW l \in Letter, next'[TailNode[k]][l] # NULL
        PROVE  k < Len(prev_word) /\ l <= prev_word[k + 1]
    <3>1. k \in 0..L /\ BoundWord = prev_word
      BY <1>t, <1>p, MinimizeFacts
    <3>2. TailNode[k] \in Node /\ TailNode[k] # child
      BY <3>1, <1>f, <1>r
    <3>3. next[TailNode[k]][l] # NULL
      <4>1. CASE TailNode[k] = parent /\ l = label
        BY <4>1, <1>r, <1>t, NullAssumption
      <4>2. CASE TailNode[k] # parent \/ l # label
        BY <4>2, <3>2, <2>1, <1>n
      <4> QED
        BY <4>1, <4>2
    <3> QED
      BY <3>1, <3>3, <1>t DEF Consistent, TailBounds
  <2>2. \A k \in 0..(L - 1) : TailNode'[k] = TailNode[k]
    BY <1>v
  <2> QED
    BY <2>1, <2>2, <1>p, <1>u, <1>v DEF TailBounds
<1>7. NoDangling'
  <2>1. ASSUME NEW k \in 1..Len(stack')
        PROVE  {stack'[k].parent, stack'[k].child} \subseteq live'
    <3>1. /\ i + Len(stack') = L - 1 /\ Len(stack') \in Nat
      BY <1>p, <1>t, TopOfStack DEF Consistent, TypeOK
    <3>2. i + k - 1 \in 0..(L - 1) /\ i + k \in 0..(L - 1)
      BY <3>1, <1>t
    <3>3. stack'[k] = [parent |-> TailNode'[i + k - 1], label |-> prev_word[i + k],
                       child |-> TailNode'[i + k]]
      BY <1>3, <1>p, <1>u DEF CallState
    <3>4. \A m \in 0..(L - 1) : TailNode'[m] \in live'
      <4>1. \A m \in 0..(L - 1) : m \in 0..L
        BY <1>t
      <4> QED
        BY <4>1, <1>f, <1>v, <1>l, <1>r
    <3> QED
      BY <3>2, <3>3, <3>4
  <2>2. ASSUME NEW n \in live', NEW l \in Letter
        PROVE  next'[n][l] \in live' \cup {NULL}
    <3>1. n \in live /\ n \in Node /\ n # child
      BY <1>l, <1>y
    <3>2. CASE n = parent /\ l = label
      BY <3>2, <1>n, <1>r, <1>l
    <3>3. CASE n # parent \/ l # label
      <4>1. next'[n][l] = next[n][l] /\ next[n][l] # child
        BY <3>1, <3>3, <1>n, <1>r
      <4>2. next[n][l] \in live \cup {NULL}
        BY <3>1 DEF Consistent, NoDangling
      <4> QED
        BY <4>1, <4>2, <1>l
    <3> QED
      BY <3>2, <3>3
  <2>3. {q0', cur'} \subseteq live' \cup {NULL}
    <3>1. cur # child
      <4>1. i \in 0..(L - 1) /\ child # NULL
        BY <1>t, NullAssumption
      <4>2. cur = NULL \/ cur = TailNode[i]
        BY <1>p DEF Consistent, TypeOK, CallState
      <4> QED
        BY <4>1, <4>2, <1>r
    <3>2. {q0, cur} \subseteq live \cup {NULL}
      BY DEF Consistent, NoDangling
    <3> QED
      BY <3>1, <3>2, <1>q, <1>u, <1>l
  <2> QED
    BY <2>1, <2>2, <2>3 DEF NoDangling
<1>8. NoLeak'
  <2>1. /\ NULL \notin live /\ q0 \in live /\ live = Reachable(next, q0, live)
    BY <1>t, <1>y, NullAssumption DEF Consistent, ObjectState, NoLeak
  <2>2. \A n \in live \ {child}, l \in Letter :
          n # parent \/ l # label => next'[n][l] = next[n][l]
    BY <1>n, <1>y
  <2>3. \A l \in Letter : next[child][l] = next[r][l]
    BY <1>r
  <2>4. live \ {child} = Reachable(next', q0, live \ {child})
    <3>1. EdgeMoved(next, next', q0, live, parent, label, child, r)
      BY <2>1, <2>2, <2>3, <1>n, <1>r, <1>t, <1>q DEF EdgeMoved
    <3> QED
      BY <3>1, <2>1, ReplaceNoLeak
  <2> QED
    BY <2>4, <1>l, <1>u DEF NoLeak
<1>9. KeepsRest
  <2> SUFFICES ASSUME RestRegistered PROVE RestRegistered'
    BY DEF KeepsRest
  <2>r. RestRegistered
    OBVIOUS
  <2>1. ASSUME NEW n \in live', \A x \in reg : x.key # n
        PROVE  \E k \in 0..(L - 1) : n = TailNode'[k]
    <3>1. n \in live /\ n # child
      BY <1>l
    <3>2. PICK k \in 0..L : n = TailNode[k]
      BY <2>1, <2>r, <3>1, <1>t DEF RestRegistered, Registered
    <3>3. k \in 0..(L - 1)
      <4>1. k # L
        BY <3>1, <3>2, <1>t
      <4> QED
        BY <4>1, <1>t
    <3> QED
      BY <3>2, <3>3, <1>v
  <2>2. Len(TailWord') = L - 1
    BY <1>v
  <2>3. \A n \in live' : ~(Registered(n))' =>
          \E k \in 0..Len(TailWord') : n = TailNode'[k]
    BY <2>1, <2>2, <1>u DEF Registered
  <2> QED
    BY <2>3 DEF RestRegistered
<1> QED
  BY <1>1, <1>2, <1>3, <1>4, <1>5, <1>6, <1>7, <1>8, <1>9 DEF Consistent

(***************************************************************************)
(* A new node is reachable over its one edge, and takes no other away.     *)
(***************************************************************************)
EdgeAdded(g, g2, root, N, parent, label, child) ==
  /\ NULL \notin N /\ {root, parent} \subseteq N /\ child \notin N /\ child # NULL
  /\ label \in Letter
  /\ g[parent][label] = NULL /\ g2[parent][label] = child
  /\ \A n \in N, l \in Letter : g[n][l] \in N \cup {NULL}
  /\ \A n \in N, l \in Letter : n # parent \/ l # label => g2[n][l] = g[n][l]

LEMMA AddNoLeak ==
  ASSUME NEW g, NEW g2, NEW root, NEW N, NEW parent, NEW child, NEW label,
         EdgeAdded(g, g2, root, N, parent, label, child),
         N = Reachable(g, root, N)
  PROVE  N \cup {child} = Reachable(g2, root, N \cup {child})
<1> USE DEF EdgeAdded
<1> DEFINE M == N \cup {child}
<1> SUFFICES ASSUME NEW S \in ClosedSets(g2, root, M)
             PROVE  M \subseteq S
  <2> HIDE DEF M
  <2>1. M = Reachable(g2, root, M)
    BY AllReached
  <2> QED
    BY <2>1 DEF M
<1>s. /\ S \subseteq M /\ root \in S
      /\ \A n \in S, l \in Letter : g2[n][l] # NULL => g2[n][l] \in S
  BY DEF ClosedSets
<1> DEFINE T == {n \in N : n \in S}
<1>1. \A n \in T, l \in Letter : g[n][l] # NULL => g[n][l] \in T
  <2>1. ASSUME NEW n \in T, NEW l \in Letter, g[n][l] # NULL
        PROVE  g[n][l] \in T
    <3>1. n \in N /\ n \in S /\ g2[n][l] = g[n][l]
      BY <2>1
    <3>2. g[n][l] \in S /\ g[n][l] \in N
      BY <2>1, <3>1, <1>s
    <3> QED
      BY <3>2
  <2> QED
    BY <2>1
<1>2. T \in SUBSET N /\ root \in T
  BY <1>s
<1>3. T \in ClosedSets(g, root, N)
  BY <1>1, <1>2 DEF ClosedSets
<1>4. N \subseteq T
  BY <1>3, AllReached
<1>5. child \in S
  BY <1>4, <1>s
<1> QED
  BY <1>4, <1>5

LEMMA AddSuffixConsistent ==
  ASSUME Consistent, AddSuffix
  PROVE  Consistent' /\ KeepsRest
<1> DEFINE a == word[i + 1]
<1>p. /\ pc = "suffix" /\ i < Len(word) /\ i' = i + 1
      /\ UNCHANGED <<q0, leaked, reg_ready, summary, ret, pc, caller, word, stack>>
  BY DEF AddSuffix
<1>n. PICK n \in Fresh(live \cup leaked) :
        /\ reg' = Rekeyed(cur, [next EXCEPT ![n] = NoEdges, ![cur][a] = n])
        /\ next' = [next EXCEPT ![n] = NoEdges, ![cur][a] = n]
        /\ eow' = [eow EXCEPT ![n] = FALSE]
        /\ live' = live \cup {n}
        /\ cur' = n
  BY DEF AddSuffix
<1>y. /\ next \in [Node -> [Letter -> Node \cup {NULL}]] /\ eow \in [Node -> BOOLEAN]
      /\ live \subseteq Node /\ word \in Seq(Letter) /\ Len(word) \in Nat
      /\ i \in 0..Len(word) /\ i \in Nat
  BY DEF Consistent, TypeOK
<1>w. /\ i + 1 \in 1..Len(word) /\ i + 1 \in 0..Len(word)
      /\ a \in Letter /\ a \in Nat
  <2>1. i + 1 \in 1..Len(word)
    BY <1>p, <1>y
  <2>2. a \in Letter
    BY <2>1, <1>y, ElementOfSeq
  <2>3. i + 1 \in 0..Len(word)
    BY <2>1
  <2> HIDE DEF a
  <2> QED
    BY <2>1, <2>2, <2>3, LetterAssumption
<1> HIDE DEF a
<1>u. UNCHANGED <<q0, leaked, reg_ready, state, count, longest_word, prev_word, ret,
                  pc, caller, word, stack>>
  BY <1>p DEF summary
<1>c. /\ q0 # NULL /\ state # "CLOSED" /\ caller = "add" /\ stack = <<>>
      /\ cur = TailNode[i] /\ BoundWord = word /\ BoundWord' = word
      /\ q0 \in live
  BY <1>p, <1>u DEF Consistent, ObjectState, CallState, BoundWord
<1>d. /\ TailWord = SubSeq(word, 1, i) /\ TailWord' = SubSeq(word, 1, i + 1)
      /\ Len(TailWord) = i /\ Len(TailWord') = i + 1
      /\ \A k \in 1..i : TailWord[k] = word[k]
      /\ \A k \in 1..(i + 1) : TailWord'[k] = word[k]
      /\ \A k \in 1..i : TailWord'[k] = TailWord[k] /\ TailWord'[k] \in Letter
  <2>1. TailWord = SubSeq(word, 1, i) /\ TailWord' = SubSeq(word, 1, i + 1)
    BY <1>p, <1>u DEF TailWord
  <2>2. Len(TailWord) = i /\ \A k \in 1..i : TailWord[k] = word[k]
    BY <2>1, <1>y, FirstLetters
  <2>3. Len(TailWord') = i + 1 /\ \A k \in 1..(i + 1) : TailWord'[k] = word[k]
    BY <2>1, <1>y, <1>w, FirstLetters
  <2>4. \A k \in 1..i : k \in 1..(i + 1) /\ k \in 1..Len(word)
    BY <1>y
  <2>5. \A k \in 1..i : word[k] \in Letter
    BY <2>4, <1>y, ElementOfSeq
  <2> QED
    BY <2>1, <2>2, <2>3, <2>4, <2>5
<1>x. \A m \in live, l \in Letter, k \in 0..i :
        next[m][l] = TailNode[k] => k > 0 /\ m = TailNode[k - 1] /\ l = TailWord[k]
  <2>1. 0..Len(TailWord) = 0..i
    BY <1>d
  <2>2. TailUnshared
    BY DEF Consistent
  <2>3. \A m \in live, l \in Letter, k \in 0..i :
          next[m][l] = TailNode[k] => k > 0 /\ m = TailNode[k - 1] /\ l = TailWord[k]
    BY <2>1, <2>2, <1>c, <1>y, <1>d DEF TailUnshared
  <2> QED
    BY <2>3
<1>f. /\ \A k \in 0..i : TailNode[k] \in live /\ TailNode[k] \in Node
                         /\ ~Registered(TailNode[k])
      /\ \A k \in 0..(i - 1) : TailNode[k] # cur
  <2>1. \A k \in 0..i : TailNode[k] \in live /\ TailNode[k] \in Node
                        /\ ~Registered(TailNode[k])
    BY <1>c, <1>d, TailFacts DEF Consistent, TailUnshared
  <2>2. \A k \in 0..(i - 1) : k \in 0..i /\ i \in 0..i /\ k # i
    BY <1>y
  <2>3. \A k \in 0..(i - 1) : TailNode[k] # cur
    BY <2>2, <1>c, <1>d, TailDistinct
  <2> QED
    BY <2>1, <2>3
<1>g. cur \in live /\ cur \in Node /\ cur # NULL /\ ~Registered(cur)
  <2>1. i \in 0..i
    BY <1>y
  <2> QED
    BY <2>1, <1>f, <1>c, NullAssumption
<1>h. n \in Node /\ n \notin live /\ n # NULL /\ n # cur /\ n # q0
  <2>1. live \cup leaked \in SUBSET Node
    BY DEF Consistent, TypeOK
  <2>2. n \in Node \ (live \cup leaked)
    BY <2>1, FreshAssumption
  <2> QED
    BY <2>2, <1>g, <1>c, NullAssumption
<1>z. next[cur][a] = NULL
  <2>1. i \in 0..Len(TailWord)
    BY <1>d, <1>y
  <2> QED
    BY <2>1, <1>w, <1>c, <1>p DEF Consistent, TailBounds, a
<1>e. /\ next' \in [Node -> [Letter -> Node \cup {NULL}]]
      /\ next'[cur][a] = n
      /\ \A l \in Letter : next'[n][l] = NULL
      /\ \A m \in Node \ {n}, l \in Letter : m # cur \/ l # a => next'[m][l] = next[m][l]
      /\ \A m \in Node \ {n, cur} : next'[m] = next[m]
      /\ \A m \in Node \ {n} : eow'[m] = eow[m]
      /\ eow' \in [Node -> BOOLEAN]
  <2>0. NoEdges \in [Letter -> Node \cup {NULL}] /\ \A l \in Letter : NoEdges[l] = NULL
    BY DEF NoEdges
  <2>1. next' \in [Node -> [Letter -> Node \cup {NULL}]]
    BY <2>0, <1>n, <1>y, <1>h, <1>g, <1>w
  <2>2. next'[cur][a] = n
    BY <1>n, <1>y, <1>h, <1>g, <1>w
  <2>3. \A l \in Letter : next'[n][l] = NULL
    BY <2>0, <1>n, <1>y, <1>h, <1>g, <1>w
  <2>4. \A m \in Node \ {n}, l \in Letter : m # cur \/ l # a => next'[m][l] = next[m][l]
    BY <1>n, <1>y, <1>h, <1>g, <1>w
  <2>5. \A m \in Node \ {n, cur} : next'[m] = next[m]
    BY <1>n, <1>y, <1>h, <1>g, <1>w
  <2>6. eow' \in [Node -> BOOLEAN] /\ \A m \in Node \ {n} : eow'[m] = eow[m]
    BY <1>n, <1>y
  <2> QED
    BY <2>1, <2>2, <2>3, <2>4, <2>5, <2>6
<1>r. reg' = reg
  <2>1. Entry(cur, eow, next).key = cur
    BY DEF Entry
  <2>2. Entry(cur, eow, next) \notin reg
    BY <2>1, <1>g DEF Registered
  <2> QED
    BY <2>2, <1>n DEF Rekeyed
<1>k. \A x \in reg : x.key \in live /\ x.key \in Node /\ x.key # cur /\ x.key # n
  BY <1>g, <1>h, <1>y DEF Registered, Consistent, RegistryValid
<1>o. \A m \in live, l \in Letter : next[m][l] # n
  BY <1>h DEF Consistent, NoDangling
<1>v. /\ \A k \in 0..i : TailNode'[k] = TailNode[k]
      /\ TailNode'[i + 1] = n
  <2>1. ASSUME NEW k \in 1..i
        PROVE  GetChild(next', TailNode[k - 1], TailWord'[k])
                 = GetChild(next, TailNode[k - 1], TailWord[k])
    <3>1. k - 1 \in 0..(i - 1) /\ k - 1 \in 0..i
      BY <1>y
    <3>2. TailNode[k - 1] \in Node \ {n, cur}
      BY <3>1, <1>f, <1>h
    <3> QED
      BY <3>2, <1>e, <1>d DEF GetChild
  <2>2. SameEdges(next, next', q0, TailWord, TailWord', i)
    BY <2>1, <1>d, <1>y DEF SameEdges, TailNode
  <2>3. \A k \in 0..i : Run(next', q0, TailWord')[k] = Run(next, q0, TailWord)[k]
    <3>1. Len(TailWord) \in Nat /\ Len(TailWord') \in Nat
      BY <1>d, <1>y
    <3> QED
      BY <3>1, <2>2, RunKept
  <2>4. \A k \in 0..i : TailNode'[k] = TailNode[k]
    BY <2>3, <1>u DEF TailNode
  <2>5. TailNode'[i + 1] = GetChild(next', TailNode'[i], TailWord'[i + 1])
    <3>1. Len(TailWord') \in Nat /\ i + 1 \in 1..Len(TailWord') /\ (i + 1) - 1 = i
      BY <1>d, <1>y
    <3>2. Run(next', q0', TailWord')[i + 1]
            = GetChild(next', Run(next', q0', TailWord')[(i + 1) - 1], TailWord'[i + 1])
      BY <3>1, RunStep
    <3> QED
      BY <3>1, <3>2 DEF TailNode
  <2>6. TailNode'[i] = cur /\ TailWord'[i + 1] = a
    <3>1. i \in 0..i /\ i + 1 \in 1..(i + 1)
      BY <1>y
    <3> QED
      BY <3>1, <2>4, <1>c, <1>d DEF a
  <2> QED
    BY <2>4, <2>5, <2>6, <1>e, <1>g DEF GetChild
<1>l. live' = live \cup {n} /\ cur' = n
  BY <1>n
<1>1. TypeOK'
  <2>1. i' \in 0..Len(word')
    BY <1>p, <1>u, <1>w
  <2> QED
    BY <2>1, <1>e, <1>l, <1>h, <1>r, <1>u DEF Consistent, TypeOK
<1>2. ObjectState'
  BY <1>c, <1>u, <1>l, <1>r DEF Consistent, ObjectState
<1>3. CallState'
  BY <1>p, <1>u, <1>c, <1>v, <1>l DEF CallState
<1>4. RegistryValid'
  <2>2. \A x \in reg : eow'[x.key] = eow[x.key] /\ next'[x.key] = next[x.key]
    BY <1>k, <1>e
  <2>3. \A x \in reg : x.key \in live' /\ x = Entry(x.key, eow', next')
    BY <2>2, <1>l DEF Consistent, RegistryValid, Entry
  <2>4. \A x, y \in reg :
          eow'[x.key] = eow'[y.key] /\ next'[x.key] = next'[y.key] => x = y
    BY <2>2 DEF Consistent, RegistryValid, Equivalent
  <2> QED
    BY <2>3, <2>4, <1>r DEF RegistryValid, Equivalent, Entry
<1>5. TailUnshared'
  <2>1. ASSUME NEW k \in 0..(i + 1)
        PROVE  TailNode'[k] \in live' /\ \A x \in reg : x.key # TailNode'[k]
    <3>1. CASE k = i + 1
      BY <3>1, <1>v, <1>k, <1>l
    <3>2. CASE k # i + 1
      <4>1. k \in 0..i
        BY <3>2, <1>y
      <4> QED
        BY <4>1, <1>f, <1>v, <1>l DEF Registered
    <3> QED
      BY <3>1, <3>2
  <2>2. ASSUME NEW m \in live', NEW l \in Letter, NEW k \in 0..(i + 1),
               next'[m][l] = TailNode'[k]
        PROVE  k > 0 /\ m = TailNode'[k - 1] /\ l = TailWord'[k]
    <3>0. TailNode'[k] # NULL
      BY <2>1, <1>l, <1>h, <1>y, NullAssumption
    <3>1. m # n /\ m \in live /\ m \in Node \ {n}
      BY <3>0, <2>2, <1>e, <1>l, <1>y
    <3>2. CASE k = i + 1
      <4>1. m = cur /\ l = a
        BY <3>1, <3>2, <2>2, <1>v, <1>e, <1>o
      <4>2. i \in 0..i /\ (i + 1) - 1 = i /\ i + 1 > 0 /\ i + 1 \in 1..(i + 1)
        BY <1>y
      <4>3. TailNode'[i] = cur /\ TailWord'[i + 1] = a
        BY <4>2, <1>v, <1>c, <1>d DEF a
      <4> QED
        BY <4>1, <4>2, <4>3, <3>2
    <3>3. CASE k # i + 1
      <4>1. k \in 0..i
        BY <3>3, <1>y
      <4>2. TailNode'[k] = TailNode[k] /\ TailNode[k] # n
        BY <4>1, <1>v, <1>f, <1>h
      <4>3. next[m][l] = TailNode[k]
        BY <4>2, <3>1, <2>2, <1>e
      <4>4. k > 0 /\ m = TailNode[k - 1] /\ l = TailWord[k]
        BY <4>1, <4>3, <3>1, <1>x
      <4>5. k \in 1..i /\ k - 1 \in 0..i
        BY <4>1, <4>4, <1>y
      <4> QED
        BY <4>4, <4>5, <1>v, <1>d
    <3> QED
      BY <3>2, <3>3
  <2>d. Len(TailWord') = i + 1
    BY <1>d
  <2>4. \A k \in 0..Len(TailWord') : TailNode'[k] \in live' /\ ~ \E x \in reg' : x.key = TailNode'[k]
    BY <2>1, <2>d, <1>r
  <2>5. \A m \in live', l \in Letter, k \in 0..Len(TailWord') :
          next'[m][l] = TailNode'[k] => k > 0 /\ m = TailNode'[k - 1] /\ l = TailWord'[k]
    BY <2>2, <2>d, <1>y
  <2> QED
    BY <2>4, <2>5 DEF TailUnshared, Registered
<1>6. TailBounds'
  <2>1. ASSUME NEW k \in 0..(i + 1), NEW l \in Letter, next'[TailNode'[k]][l] # NULL
        PROVE  k # i + 1 /\ k < Len(word) /\ l <= word[k + 1]
    <3>1. k # i + 1
      BY <2>1, <1>v, <1>e
    <3>2. k \in 0..i /\ k \in 0..Len(TailWord)
      BY <3>1, <1>y, <1>d
    <3>3. TailNode'[k] = TailNode[k] /\ TailNode[k] \in Node \ {n}
      BY <3>2, <1>v, <1>f, <1>h
    <3>4. CASE TailNode[k] = cur /\ l = a
      <4>1. k = i
        BY <3>4, <3>2, <1>f, <1>y
      <4> QED
        BY <4>1, <3>4, <3>1, <1>p, <1>w DEF a
    <3>5. CASE TailNode[k] # cur \/ l # a
      <4>1. next[TailNode[k]][l] # NULL
        BY <3>3, <3>5, <2>1, <1>e
      <4> QED
        BY <4>1, <3>1, <3>2, <1>c DEF Consistent, TailBounds
    <3> QED
      BY <3>4, <3>5
  <2> QED
    BY <2>1, <1>p, <1>u, <1>d, <1>c DEF TailBounds
<1>7. NoDangling'
  <2>1. ASSUME NEW m \in live', NEW l \in Letter
        PROVE  next'[m][l] \in live' \cup {NULL}
    <3>1. CASE m = n
      BY <3>1, <1>e
    <3>2. CASE m = cur /\ l = a
      BY <3>2, <1>e, <1>l
    <3>3. CASE m # n /\ (m # cur \/ l # a)
      <4>1. m \in live /\ m \in Node \ {n}
        BY <3>3, <1>l, <1>y
      <4>2. next[m][l] \in live \cup {NULL}
        BY <4>1 DEF Consistent, NoDangling
      <4> QED
        BY <4>1, <4>2, <3>3, <1>e, <1>l
    <3> QED
      BY <3>1, <3>2, <3>3
  <2> QED
    BY <2>1, <1>c, <1>u, <1>l DEF NoDangling
<1>8. NoLeak'
  <2>1. /\ NULL \notin live /\ live = Reachable(next, q0, live)
        /\ \A m \in live, l \in Letter : next[m][l] \in live \cup {NULL}
    BY <1>y, NullAssumption DEF Consistent, NoLeak, NoDangling
  <2>2. \A m \in live, l \in Letter : m # cur \/ l # a => next'[m][l] = next[m][l]
    BY <1>e, <1>y, <1>h
  <2>3. EdgeAdded(next, next', q0, live, cur, a, n)
    BY <2>1, <2>2, <1>c, <1>e, <1>g, <1>h, <1>w, <1>z DEF EdgeAdded
  <2>4. live \cup {n} = Reachable(next', q0, live \cup {n})
    BY <2>1, <2>3, AddNoLeak
  <2> QED
    BY <2>4, <1>l, <1>u DEF NoLeak
<1>9. KeepsRest
  <2> SUFFICES ASSUME RestRegistered PROVE RestRegistered'
    BY DEF KeepsRest
  <2>r. \A m \in live : (\A x \in reg : x.key # m) => \E k \in 0..i : m = TailNode[k]
    BY <1>c, <1>d DEF RestRegistered, Registered
  <2>1. ASSUME NEW m \in live', \A x \in reg : x.key # m
        PROVE  \E k \in 0..(i + 1) : m = TailNode'[k]
    <3>1. CASE m = n
      <4>1. i + 1 \in 0..(i + 1)
        BY <1>y
      <4> QED
        BY <4>1, <3>1, <1>v
    <3>2. CASE m # n
      <4>1. PICK k \in 0..i : m = TailNode[k]
        BY <2>1, <3>2, <2>r, <1>l
      <4>2. k \in 0..(i + 1)
        BY <1>y
      <4> QED
        BY <4>1, <4>2, <1>v
    <3> QED
      BY <3>1, <3>2
  <2>2. \A m \in live' :
          ~ (\E x \in reg' : x.key = m) => \E k \in 0..Len(TailWord') : m = TailNode'[k]
    BY <2>1, <1>d, <1>r
  <2> QED
    BY <2>2 DEF RestRegistered, Registered
<1> QED
  BY <1>1, <1>2, <1>3, <1>4, <1>5, <1>6, <1>7, <1>8, <1>9 DEF Consistent

-----------------------------------------------------------------------------
(***************************************************************************)
(* The theorems                                                            *)
(***************************************************************************)

(***************************************************************************)
(* Every step of the construction keeps Consistent, and RestRegistered.    *)
(***************************************************************************)
THEOREM NextConsistent == Consistent /\ [Next]_vars => Consistent' /\ KeepsRest
<1> SUFFICES ASSUME Consistent, [Next]_vars PROVE Consistent' /\ KeepsRest
  OBVIOUS
<1>1. ASSUME NEW w \in Word, AddWord(w) PROVE Consistent' /\ KeepsRest
  BY <1>1, AddWordConsistent
<1>2. ASSUME NEW w \in Word, RejectLess(w) \/ RejectFrozen(w)
      PROVE  Consistent' /\ KeepsRest
  <2>1. /\ pc = "idle" /\ UNCHANGED <<graph, registry, summary>>
        /\ pc' = "idle" /\ caller' = "add" /\ word' = <<>> /\ i' = 0 /\ cur' = NULL
        /\ stack' = <<>> /\ ret' \in {DAWG_WORD_LESS, DAWG_FROZEN}
    BY <1>2 DEF RejectLess, RejectFrozen, Return
  <2>2. UNCHANGED locals
    BY <2>1 DEF Consistent, CallState, locals
  <2> QED
    BY <2>1, <2>2, OnlyResult
<1>3. CASE Close
  BY <1>3, CloseConsistent
<1>4. CASE CloseNothing
  <2>1. /\ pc = "idle" /\ UNCHANGED <<graph, registry, summary>>
        /\ pc' = "idle" /\ caller' = "add" /\ word' = <<>> /\ i' = 0 /\ cur' = NULL
        /\ stack' = <<>> /\ ret' = 0
    BY <1>4 DEF CloseNothing, Return
  <2>2. UNCHANGED locals
    BY <2>1 DEF Consistent, CallState, locals
  <2> QED
    BY <2>1, <2>2, OnlyResult
<1>5. CASE Clear
  BY <1>5, ClearConsistent DEF Consistent, KeepsRest
<1>6. CASE SkipPrefix
  BY <1>6, SkipPrefixConsistent
<1>7. CASE EndOfPrefix
  BY <1>7, EndOfPrefixConsistent
<1>8. CASE Replace
  BY <1>8, ReplaceConsistent
<1>9. CASE Register
  BY <1>9, RegisterConsistent
<1>10. CASE Minimized
  BY <1>10, MinimizedConsistent
<1>11. CASE AddSuffix
  BY <1>11, AddSuffixConsistent
<1>12. CASE EndAdd
  BY <1>12, EndAddIsAdded, AddedConsistent
<1>13. CASE EndClose
  BY <1>13, EndCloseConsistent
<1>14. CASE UNCHANGED vars
  <2>1. UNCHANGED <<graph, registry, summary, locals>> /\ ret' = ret
    BY <1>14 DEF vars
  <2>2. ret' \in {0, 1, DAWG_NO_MEM, DAWG_WORD_LESS, DAWG_FROZEN}
    BY <2>1 DEF Consistent, TypeOK
  <2> QED
    BY <2>1, <2>2, OnlyResult
<1> QED
  BY <1>1, <1>2, <1>3, <1>4, <1>5, <1>6, <1>7, <1>8, <1>9, <1>10, <1>11, <1>12, <1>13,
     <1>14 DEF Next, Call, Step

(***************************************************************************)
(* At every step of every call of DAWG_add_word, DAWG_close and DAWG_clear *)
(* the object is consistent.                                               *)
(***************************************************************************)
THEOREM AlwaysConsistent == Spec => []Consistent
<1>1. Init => Consistent
  BY InitConsistent
<1>2. Consistent /\ [Next]_vars => Consistent'
  BY NextConsistent
<1> QED
  BY <1>1, <1>2, PTL DEF Spec

(***************************************************************************)
(* Every allocated node beside the tail is in the registry, where an equal *)
(* one to come will find it.                                               *)
(***************************************************************************)
THEOREM RestAlwaysRegistered == Spec => []RestRegistered
<1>1. Init => RestRegistered
  BY DEF Init, RestRegistered
<1>2. Consistent /\ RestRegistered /\ [Next]_vars => RestRegistered'
  BY NextConsistent DEF KeepsRest
<1> QED
  BY <1>1, <1>2, AlwaysConsistent, PTL DEF Spec

(***************************************************************************)
(* The variables keep their types; no index leaves its word.               *)
(***************************************************************************)
THEOREM TypeCorrect == Spec => []TypeOK
<1>1. Consistent => TypeOK
  BY DEF Consistent
<1> QED
  BY <1>1, AlwaysConsistent, PTL

(***************************************************************************)
(* The registry holds allocated nodes under their present hash, and no two *)
(* equivalent ones: DAWG_replace_or_register never lets a registered node  *)
(* change under its key.                                                   *)
(***************************************************************************)
THEOREM RegistryAlwaysValid == Spec => []RegistryValid
<1>1. Consistent => RegistryValid
  BY DEF Consistent
<1> QED
  BY <1>1, AlwaysConsistent, PTL

(***************************************************************************)
(* What DAWG_replace_or_register changes or frees is shared with nothing.  *)
(***************************************************************************)
THEOREM TailNeverShared == Spec => []UnsharedTail
<1>1. Consistent /\ RestRegistered => UnsharedTail
  BY DEF Consistent, UnsharedTail
<1> QED
  BY <1>1, AlwaysConsistent, RestAlwaysRegistered, PTL

(***************************************************************************)
(* No pointer to a freed node is ever kept.                                *)
(***************************************************************************)
THEOREM NeverDangling == Spec => []NoDangling
<1>1. Consistent => NoDangling
  BY DEF Consistent
<1> QED
  BY <1>1, AlwaysConsistent, PTL

(***************************************************************************)
(* Every allocated node stays reachable, so that DAWG_clear frees them all.*)
(***************************************************************************)
THEOREM NeverLeaking == Spec => []NoLeak
<1>1. Consistent => NoLeak
  BY DEF Consistent
<1> QED
  BY <1>1, AlwaysConsistent, PTL

(***************************************************************************)
(* The registry is only used while it has a table.                         *)
(***************************************************************************)
THEOREM RegistryAlwaysReady == Spec => []RegistryReady
<1>1. Consistent => RegistryReady
  <2> SUFFICES ASSUME Consistent,
                      (pc = "suffix" /\ i < Len(word)) \/ (pc = "minimize" /\ stack # <<>>)
               PROVE  reg_ready
    BY DEF RegistryReady
  <2>1. state # "CLOSED"
    <3>1. CASE pc = "suffix"
      BY <3>1 DEF Consistent, ObjectState
    <3>2. CASE pc = "minimize" /\ stack # <<>>
      BY <3>2, MinimizeFacts
    <3> QED
      BY <3>1, <3>2
  <2> QED
    BY <2>1 DEF Consistent, ObjectState
<1> QED
  BY <1>1, AlwaysConsistent, PTL

-----------------------------------------------------------------------------
(***************************************************************************)
(* Runs in two graphs                                                      *)
(***************************************************************************)

(***************************************************************************)
(* R relates the nodes of two graphs so that edges lead to related nodes.  *)
(***************************************************************************)
Simulates(R, g, g2) ==
  \A x, y : \A l \in Letter :
    <<x, y>> \in R => <<GetChild(g, x, l), GetChild(g2, y, l)>> \in R

LEMMA RelatedRuns ==
  ASSUME NEW R, NEW g, NEW g2, NEW root, NEW root2, NEW w \in Seq(Letter),
         <<root, root2>> \in R, Simulates(R, g, g2)
  PROVE  \A k \in 0..Len(w) : <<Run(g, root, w)[k], Run(g2, root2, w)[k]>> \in R
<1> DEFINE v == Run(g, root, w)
           u == Run(g2, root2, w)
           Bad == {k \in 0..Len(w) : <<v[k], u[k]>> \notin R}
<1>w. Len(w) \in Nat /\ \A k \in 1..Len(w) : w[k] \in Letter
  BY LenProperties, ElementOfSeq
<1>v. /\ v[0] = root /\ \A k \in 1..Len(w) : v[k] = GetChild(g, v[k - 1], w[k])
      /\ u[0] = root2 /\ \A k \in 1..Len(w) : u[k] = GetChild(g2, u[k - 1], w[k])
  BY <1>w, RunStep
<1> HIDE DEF v, u
<1> SUFFICES ASSUME Bad # {} PROVE FALSE
  BY DEF v, u
<1>1. PICK k \in Bad : \A y \in Bad : k <= y
  <2> Bad \subseteq Nat
    BY <1>w
  <2> QED
    BY LeastNatural
<1>2. k # 0
  BY <1>1, <1>v
<1>3. k - 1 \in 0..Len(w) /\ k \in 1..Len(w) /\ k - 1 \notin Bad
  BY <1>1, <1>2, <1>w
<1>4. <<v[k - 1], u[k - 1]>> \in R /\ w[k] \in Letter
  BY <1>3, <1>w
<1>5. <<GetChild(g, v[k - 1], w[k]), GetChild(g2, u[k - 1], w[k])>> \in R
  BY <1>4 DEF Simulates
<1>6. <<v[k], u[k]>> \in R
  BY <1>3, <1>5, <1>v
<1> QED
  BY <1>1, <1>6

LEMMA RelatedTargets ==
  ASSUME NEW R, NEW g, NEW g2, NEW root, NEW root2, NEW w \in Seq(Letter),
         <<root, root2>> \in R, Simulates(R, g, g2)
  PROVE  <<Target(g, root, w), Target(g2, root2, w)>> \in R
<1>1. Len(w) \in 0..Len(w)
  BY LenProperties
<1> QED
  BY <1>1, RelatedRuns DEF Target

(***************************************************************************)
(* Related nodes carry the same marker, so that the words are the same.    *)
(***************************************************************************)
SameMarkers(R, e, e2) ==
  \A x, y : <<x, y>> \in R => ((x # NULL /\ e[x]) <=> (y # NULL /\ e2[y]))

LEMMA SameWords ==
  ASSUME NEW R, NEW g, NEW g2, NEW e, NEW e2, NEW root, NEW root2,
         NEW w \in Seq(Letter),
         <<root, root2>> \in R, Simulates(R, g, g2), SameMarkers(R, e, e2)
  PROVE  Accepts(g, e, root, w) <=> Accepts(g2, e2, root2, w)
<1>1. <<Target(g, root, w), Target(g2, root2, w)>> \in R
  BY RelatedTargets
<1> QED
  BY <1>1 DEF SameMarkers, Accepts

(***************************************************************************)
(* A run stays in a graph that has no dangling edges.                      *)
(***************************************************************************)
NoneLeave(g, root, N) ==
  /\ NULL \notin N /\ root \in N \cup {NULL}
  /\ \A n \in N, l \in Letter : g[n][l] \in N \cup {NULL}

LEMMA RunWithin ==
  ASSUME NEW g, NEW root, NEW N, NEW w \in Seq(Letter), NoneLeave(g, root, N)
  PROVE  \A k \in 0..Len(w) : Run(g, root, w)[k] \in N \cup {NULL}
<1> DEFINE R == {<<x, x>> : x \in N \cup {NULL}}
<1>1. \A x, y : <<x, y>> \in R <=> x = y /\ x \in N \cup {NULL}
  OBVIOUS
<1> HIDE DEF R
<1>2. Simulates(R, g, g)
  BY <1>1 DEF Simulates, GetChild, NoneLeave
<1>3. <<root, root>> \in R
  BY <1>1 DEF NoneLeave
<1>4. \A k \in 0..Len(w) : <<Run(g, root, w)[k], Run(g, root, w)[k]>> \in R
  BY <1>2, <1>3, RelatedRuns
<1> QED
  BY <1>1, <1>4

(***************************************************************************)
(* No run goes on from a node without edges.                               *)
(***************************************************************************)
LEMMA NothingBelow ==
  ASSUME NEW g, NEW root, \A l \in Letter : GetChild(g, root, l) = NULL,
         NEW w \in Seq(Letter), Len(w) # 0
  PROVE  Target(g, root, w) = NULL
<1> DEFINE v == Run(g, root, w)
           Bad == {k \in 1..Len(w) : v[k] # NULL}
<1>w. Len(w) \in Nat /\ \A k \in 1..Len(w) : w[k] \in Letter
  BY LenProperties, ElementOfSeq
<1>v. v[0] = root /\ \A k \in 1..Len(w) : v[k] = GetChild(g, v[k - 1], w[k])
  BY <1>w, RunStep
<1> HIDE DEF v
<1> SUFFICES ASSUME Bad # {} PROVE FALSE
  <2>1. Len(w) \in 1..Len(w)
    BY <1>w
  <2> QED
    BY <2>1 DEF v, Target
<1>1. PICK k \in Bad : \A y \in Bad : k <= y
  <2> Bad \subseteq Nat
    BY <1>w
  <2> QED
    BY LeastNatural
<1>2. CASE k = 1
  BY <1>1, <1>2, <1>v, <1>w
<1>3. CASE k # 1
  <2>1. k - 1 \in 1..Len(w) /\ k - 1 \notin Bad
    BY <1>1, <1>3, <1>w
  <2> QED
    BY <2>1, <1>1, <1>v DEF GetChild
<1> QED
  BY <1>2, <1>3

-----------------------------------------------------------------------------
(***************************************************************************)
(* The words that lead to the tail                                         *)
(***************************************************************************)

(***************************************************************************)
(* W leads over nodes that no other edge leads to.                         *)
(***************************************************************************)
OnlyWay(g, root, N, W) ==
  /\ W \in Seq(Letter)
  /\ NoneLeave(g, root, N) /\ root \in N
  /\ \A k \in 0..Len(W) : Run(g, root, W)[k] \in N
  /\ \A k \in 0..Len(W), n \in N, l \in Letter :
       g[n][l] = Run(g, root, W)[k]
         => k > 0 /\ n = Run(g, root, W)[k - 1] /\ l = W[k]

LEMMA OneWordLeads ==
  ASSUME NEW g, NEW root, NEW N, NEW W, OnlyWay(g, root, N, W),
         NEW w \in Seq(Letter), NEW m \in 0..Len(W),
         Target(g, root, w) = Run(g, root, W)[m]
  PROVE  Len(w) = m /\ \A k \in 1..m : w[k] = W[k]
<1> DEFINE v == Run(g, root, w)
           r == Run(g, root, W)
           n == Len(w)
           Bad == {j \in Nat : j <= n /\ j <= m /\ v[n - j] # r[m - j]}
<1>w. /\ n \in Nat /\ \A k \in 1..n : w[k] \in Letter
      /\ W \in Seq(Letter) /\ Len(W) \in Nat /\ m \in Nat /\ m <= Len(W)
  BY LenProperties, ElementOfSeq DEF OnlyWay
<1>v. /\ v[0] = root /\ \A k \in 1..n : v[k] = GetChild(g, v[k - 1], w[k])
      /\ r[0] = root /\ v[n] = r[m]
  BY <1>w, RunStep DEF Target
<1>x. \A k \in 0..n : v[k] \in N \cup {NULL}
  BY RunWithin DEF OnlyWay
<1>r. /\ \A k \in 0..m : r[k] \in N
      /\ \A k \in 0..m : \A y \in N, l \in Letter :
           g[y][l] = r[k] => k > 0 /\ y = r[k - 1] /\ l = W[k]
  <2>1. \A k \in 0..m : k \in 0..Len(W)
    BY <1>w
  <2> QED
    BY <2>1 DEF OnlyWay
<1>N. NULL \notin N
  BY DEF OnlyWay, NoneLeave
<1> HIDE DEF v, r, n
(***************************************************************************)
(* One letter back from a node of the tail.                                *)
(***************************************************************************)
<1>b. ASSUME NEW k \in 1..n, NEW j \in 0..m, v[k] = r[j]
      PROVE  j > 0 /\ v[k - 1] = r[j - 1] /\ w[k] = W[j]
  <2>1. v[k] \in N /\ v[k] = GetChild(g, v[k - 1], w[k]) /\ w[k] \in Letter
    BY <1>b, <1>r, <1>v, <1>w DEF n
  <2>2. v[k - 1] # NULL
    BY <2>1, <1>N DEF GetChild
  <2>3. k - 1 \in 0..n
    BY <1>w
  <2>4. v[k - 1] \in N
    BY <2>2, <2>3, <1>x
  <2>5. g[v[k - 1]][w[k]] = r[j]
    BY <2>1, <2>2, <1>b DEF GetChild
  <2> QED
    BY <2>1, <2>4, <2>5, <1>r
<1>1. Bad = {}
  <2> SUFFICES ASSUME Bad # {} PROVE FALSE
    OBVIOUS
  <2>1. PICK j \in Bad : \A y \in Bad : j <= y
    <3> Bad \subseteq Nat
      OBVIOUS
    <3> QED
      BY LeastNatural
  <2>2. j # 0
    <3>1. n - 0 = n /\ m - 0 = m
      BY <1>w
    <3> QED
      BY <2>1, <3>1, <1>v
  <2>3. j - 1 \in Nat /\ j - 1 \notin Bad /\ j - 1 <= n /\ j - 1 <= m
    <3>1. j \in Nat /\ j <= n /\ j <= m
      BY <2>1
    <3>2. j - 1 \in Nat /\ j - 1 <= n /\ j - 1 <= m /\ ~(j <= j - 1)
      BY <3>1, <2>2, <1>w
    <3> HIDE DEF Bad
    <3> QED
      BY <3>2, <2>1
  <2>4. v[n - (j - 1)] = r[m - (j - 1)]
    BY <2>3
  <2>5. /\ n - (j - 1) \in 1..n /\ m - (j - 1) \in 0..m
        /\ (n - (j - 1)) - 1 = n - j /\ (m - (j - 1)) - 1 = m - j
    BY <2>1, <2>2, <1>w
  <2>6. v[(n - (j - 1)) - 1] = r[(m - (j - 1)) - 1]
    BY <2>4, <2>5, <1>b
  <2> QED
    BY <2>1, <2>5, <2>6
<1>a. \A j \in Nat : j <= n /\ j <= m => v[n - j] = r[m - j]
  BY <1>1
<1>2. n = m
  <2>1. CASE n < m
    <3>1. n - n = 0 /\ m - n \in 1..m /\ m - n \in 0..m
      BY <1>w, <2>1
    <3>2. v[0] = r[m - n]
      <4>1. n \in Nat /\ n <= n /\ n <= m
        BY <1>w, <2>1
      <4>2. v[n - n] = r[m - n]
        BY <4>1, <1>a
      <4> QED
        BY <4>2, <3>1
    <3>3. \A k \in 1..m : r[k] = GetChild(g, r[k - 1], W[k]) /\ W[k] \in Letter
      <4>1. \A k \in 1..m : k \in 1..Len(W)
        BY <1>w
      <4> QED
        BY <4>1, <1>w, RunStep, ElementOfSeq DEF r
    <3>4. (m - n) - 1 \in 0..m
      BY <3>1, <1>w
    <3>5. r[(m - n) - 1] \in N
      BY <3>4, <1>r
    <3>6. g[r[(m - n) - 1]][W[m - n]] = r[0] /\ W[m - n] \in Letter
      BY <3>1, <3>2, <3>3, <3>5, <1>v, <1>N DEF GetChild
    <3>7. 0 \in 0..m
      BY <1>w
    <3> QED
      BY <3>5, <3>6, <3>7, <1>r
  <2>2. CASE m < n
    <3>1. m - m = 0 /\ n - m \in 1..n /\ 0 \in 0..m
      BY <1>w, <2>2
    <3>2. v[n - m] = r[m - m]
      <4>1. m \in Nat /\ m <= n /\ m <= m
        BY <1>w, <2>2
      <4> QED
        BY <4>1, <1>a
    <3>3. v[n - m] = r[0]
      BY <3>1, <3>2
    <3> QED
      BY <3>1, <3>3, <1>b
  <2> QED
    BY <2>1, <2>2, <1>w
<1>3. ASSUME NEW k \in 1..m
      PROVE  w[k] = W[k]
  <2>1. m - k \in Nat /\ m - k <= n /\ m - k <= m /\ m - (m - k) = k /\ n - (m - k) = k
    BY <1>2, <1>w
  <2>2. v[k] = r[k]
    <3>1. v[n - (m - k)] = r[m - (m - k)]
      BY <2>1, <1>a
    <3> QED
      BY <2>1, <3>1
  <2>3. k \in 1..n /\ k \in 0..m
    BY <1>2, <1>w
  <2> QED
    BY <2>2, <2>3, <1>b
<1> QED
  BY <1>2, <1>3 DEF n

(***************************************************************************)
(* The tail of a consistent object is such a way.                          *)
(***************************************************************************)
LEMMA GraphClosed ==
  ASSUME Consistent
  PROVE  NoneLeave(next, q0, live)
BY NullAssumption DEF Consistent, TypeOK, NoDangling, NoneLeave

LEMMA TailIsOnlyWay ==
  ASSUME Consistent, q0 # NULL, state # "CLOSED"
  PROVE  OnlyWay(next, q0, live, TailWord)
<1>1. TailWord \in Seq(Letter)
  BY TailWordIsWord
<1>2. q0 \in live
  BY DEF Consistent, ObjectState
<1>3. TailUnshared
  BY DEF Consistent
<1>4. \A k \in 0..Len(TailWord) : Run(next, q0, TailWord)[k] \in live
  BY <1>3 DEF TailUnshared, TailNode
<1>5. \A k \in 0..Len(TailWord), n \in live, l \in Letter :
        next[n][l] = Run(next, q0, TailWord)[k]
          => k > 0 /\ n = Run(next, q0, TailWord)[k - 1] /\ l = TailWord[k]
  BY <1>3 DEF TailUnshared, TailNode
<1> QED
  BY <1>1, <1>2, <1>4, <1>5, GraphClosed DEF OnlyWay

-----------------------------------------------------------------------------
(***************************************************************************)
(* What the steps do to the words                                          *)
(***************************************************************************)

(***************************************************************************)
(* A step that keeps the runs: the nodes a word leads to before and after  *)
(* it correspond, with their markers, wherever the runs start.             *)
(***************************************************************************)
RunsKept ==
  \E R : /\ \A n \in live' : <<n, n>> \in R
         /\ Simulates(R, next, next') /\ SameMarkers(R, eow, eow')
         /\ \A x, y : <<x, y>> \in R => (x = NULL <=> y = NULL)

LEMMA KeptWords ==
  ASSUME RunsKept, NEW n \in live', NEW w \in Seq(Letter)
  PROVE  /\ Accepts(next, eow, n, w) <=> Accepts(next', eow', n, w)
         /\ Target(next, n, w) = NULL <=> Target(next', n, w) = NULL
<1>1. PICK R : /\ <<n, n>> \in R
               /\ Simulates(R, next, next') /\ SameMarkers(R, eow, eow')
               /\ \A x, y : <<x, y>> \in R => (x = NULL <=> y = NULL)
  BY DEF RunsKept
<1>2. Accepts(next, eow, n, w) <=> Accepts(next', eow', n, w)
  BY <1>1, SameWords
<1>3. <<Target(next, n, w), Target(next', n, w)>> \in R
  BY <1>1, RelatedTargets
<1> QED
  BY <1>1, <1>2, <1>3

LEMMA SameGraphRunsKept ==
  ASSUME UNCHANGED <<q0, next, eow>>
  PROVE  \A w \in Seq(Letter) :
           /\ Accepts(next', eow', q0', w) <=> Accepts(next, eow, q0, w)
           /\ Target(next', q0', w) = Target(next, q0, w)
OBVIOUS

(***************************************************************************)
(* Replace: the runs over the freed child go over its replacement, which   *)
(* has the same marker and the same edges, and no edge back to the child.  *)
(***************************************************************************)
LEMMA ReplaceKeepsRuns ==
  ASSUME Consistent, Replace
  PROVE  RunsKept /\ q0' = q0 /\ q0 \in live' /\ live' \subseteq live
<1> DEFINE L == Len(TailWord)
           item == stack[Len(stack)]
           child == item.child
           parent == item.parent
           label == item.label
<1>p. pc = "minimize" /\ stack # <<>> /\ q0' = q0
  BY DEF Replace
<1>a. PICK r \in Lookup(child) :
        /\ next' = [Redirected(item, r) EXCEPT ![child] = NoEdges]
        /\ eow' = [eow EXCEPT ![child] = FALSE]
        /\ live' = live \ {child}
  BY DEF Replace, WithoutNode
<1>t. /\ q0 # NULL /\ state # "CLOSED" /\ L \in Nat /\ L > 0
      /\ child = TailNode[L] /\ label \in Letter
      /\ {parent, child} \subseteq live /\ {parent, child} \subseteq Node
      /\ parent # child
  BY <1>p, TopOfStack
<1>r. /\ r \in live /\ r \in Node
      /\ next[r] = next[child] /\ eow[r] = eow[child]
      /\ r # child /\ r # parent
      /\ next[parent][label] = child
      /\ \A n \in live, l \in Letter : next[n][l] = child => n = parent /\ l = label
      /\ \A k \in 0..(L - 1) : TailNode[k] # child
  BY <1>p, ReplaceFacts
<1> HIDE DEF child, parent, label
<1>y. /\ next \in [Node -> [Letter -> Node \cup {NULL}]] /\ eow \in [Node -> BOOLEAN]
      /\ live \subseteq Node /\ NULL \notin Node
  BY NullAssumption DEF Consistent, TypeOK
<1>g. next' = [[next EXCEPT ![parent][label] = r] EXCEPT ![child] = NoEdges]
  BY <1>a DEF Redirected, child, parent, label
<1>n. /\ next'[parent][label] = r
      /\ \A n \in Node \ {child}, l \in Letter :
           n # parent \/ l # label => next'[n][l] = next[n][l]
      /\ \A n \in Node \ {child} : eow'[n] = eow[n]
  <2>1. next'[parent][label] = r
    BY <1>g, <1>y, <1>t
  <2>2. \A n \in Node \ {child}, l \in Letter :
          n # parent \/ l # label => next'[n][l] = next[n][l]
    BY <1>g, <1>y, <1>t
  <2>3. \A n \in Node \ {child} : eow'[n] = eow[n]
    BY <1>a, <1>y DEF child
  <2> QED
    BY <2>1, <2>2, <2>3
<1>q. q0 \in live /\ q0 # child
  <2>1. 0 \in 0..(L - 1)
    BY <1>t
  <2>2. q0 # child
    BY <2>1, <1>r, <1>t, TailFacts
  <2> QED
    BY <2>2, <1>t DEF Consistent, ObjectState
<1>c. \A n \in live, l \in Letter : next[n][l] \in live \cup {NULL}
  BY DEF Consistent, NoDangling
<1> DEFINE R == {<<x, x>> : x \in (live \ {child}) \cup {NULL}} \cup {<<child, r>>}
<1>R. \A x, y : <<x, y>> \in R <=>
        \/ x = y /\ x \in live /\ x # child
        \/ x = NULL /\ y = NULL
        \/ x = child /\ y = r
  BY <1>t, <1>y
<1> HIDE DEF R
<1>l. live' = live \ {child}
  BY <1>a DEF child
<1>1. \A n \in live' : <<n, n>> \in R
  BY <1>R, <1>l
<1>2. ASSUME NEW x, NEW y, <<x, y>> \in R, NEW l \in Letter
      PROVE  <<GetChild(next, x, l), GetChild(next', y, l)>> \in R
  <2>1. CASE x = NULL /\ y = NULL
    BY <2>1, <1>R DEF GetChild
  <2>2. CASE x = child /\ y = r
    <3>1. GetChild(next, x, l) = next[child][l] /\ GetChild(next', y, l) = next'[r][l]
      BY <2>2, <1>t, <1>r, <1>y DEF GetChild
    <3>2. next'[r][l] = next[child][l]
      BY <1>n, <1>r
    <3>3. next[child][l] # child /\ next[child][l] \in live \cup {NULL}
      BY <1>c, <1>r, <1>t
    <3> QED
      BY <3>1, <3>2, <3>3, <1>R
  <2>3. CASE x = y /\ x \in live /\ x # child
    <3>1. GetChild(next, x, l) = next[x][l] /\ GetChild(next', y, l) = next'[x][l]
      BY <2>3, <1>y DEF GetChild
    <3>2. CASE x = parent /\ l = label
      BY <3>1, <3>2, <1>n, <1>r, <1>R
    <3>3. CASE x # parent \/ l # label
      <4>1. next'[x][l] = next[x][l]
        BY <3>3, <2>3, <1>n, <1>y
      <4>2. next[x][l] # child /\ next[x][l] \in live \cup {NULL}
        BY <3>3, <2>3, <1>c, <1>r
      <4> QED
        BY <3>1, <4>1, <4>2, <1>R
    <3> QED
      BY <3>2, <3>3
  <2> QED
    BY <1>2, <1>R, <2>1, <2>2, <2>3
<1>3. Simulates(R, next, next')
  BY <1>2 DEF Simulates
<1>4. SameMarkers(R, eow, eow')
  <2> SUFFICES ASSUME NEW x, NEW y, <<x, y>> \in R
               PROVE  (x # NULL /\ eow[x]) <=> (y # NULL /\ eow'[y])
    BY DEF SameMarkers
  <2>1. CASE x = NULL /\ y = NULL
    BY <2>1
  <2>2. CASE x = child /\ y = r
    <3>1. eow'[r] = eow[r] /\ x # NULL /\ y # NULL
      BY <2>2, <1>n, <1>r, <1>t, <1>y
    <3> QED
      BY <3>1, <2>2, <1>r, Zenon
  <2>3. CASE x = y /\ x \in live /\ x # child
    <3>1. eow'[x] = eow[x]
      BY <2>3, <1>n, <1>y
    <3> QED
      BY <3>1, <2>3, Zenon
  <2> QED
    BY <1>R, <2>1, <2>2, <2>3
<1>5. \A x, y : <<x, y>> \in R => (x = NULL <=> y = NULL)
  BY <1>R, <1>r, <1>t, <1>y
<1> QED
  BY <1>1, <1>3, <1>4, <1>5, <1>l, <1>q, <1>p DEF RunsKept

(***************************************************************************)
(* AddSuffix: the words over the new edge lead to the new node, which has  *)
(* no marker and no edges; only the first letters of the new word do.      *)
(***************************************************************************)
LEMMA NewNode ==
  ASSUME Consistent, AddSuffix
  PROVE  /\ pc = "suffix" /\ pc' = "suffix" /\ q0' = q0 /\ i \in Nat /\ i' = i + 1
         /\ i + 1 <= Len(word) /\ Len(word) \in Nat
         /\ cur' \in Node /\ cur' \notin live /\ live' = live \cup {cur'}
         /\ cur \in live /\ word[i + 1] \in Letter
         /\ next[cur][word[i + 1]] = NULL /\ next'[cur][word[i + 1]] = cur'
         /\ \A l \in Letter : next'[cur'][l] = NULL
         /\ \A m \in live, l \in Letter :
              m # cur \/ l # word[i + 1] => next'[m][l] = next[m][l]
         /\ eow'[cur'] = FALSE /\ \A m \in live : eow'[m] = eow[m]
<1> DEFINE a == word[i + 1]
<1>p. /\ pc = "suffix" /\ i < Len(word) /\ i' = i + 1 /\ pc' = pc /\ q0' = q0
  BY DEF AddSuffix
<1>n. PICK n \in Fresh(live \cup leaked) :
        /\ next' = [next EXCEPT ![n] = NoEdges, ![cur][a] = n]
        /\ eow' = [eow EXCEPT ![n] = FALSE]
        /\ live' = live \cup {n}
        /\ cur' = n
  BY DEF AddSuffix
<1>y. /\ next \in [Node -> [Letter -> Node \cup {NULL}]] /\ eow \in [Node -> BOOLEAN]
      /\ live \subseteq Node /\ word \in Seq(Letter) /\ Len(word) \in Nat
      /\ i \in 0..Len(word) /\ i \in Nat
  BY DEF Consistent, TypeOK
<1>w. /\ i + 1 \in 1..Len(word) /\ i + 1 <= Len(word) /\ a \in Letter
  <2>1. i + 1 \in 1..Len(word)
    BY <1>p, <1>y
  <2> QED
    BY <2>1, <1>y, ElementOfSeq
<1> HIDE DEF a
<1>c. /\ q0 # NULL /\ state # "CLOSED" /\ cur = TailNode[i] /\ BoundWord = word
  BY <1>p DEF Consistent, ObjectState, CallState, BoundWord
<1>d. TailWord = SubSeq(word, 1, i) /\ Len(TailWord) = i
  <2>1. TailWord = SubSeq(word, 1, i)
    BY <1>p DEF TailWord
  <2> QED
    BY <2>1, <1>y, FirstLetters
<1>i. i \in 0..Len(TailWord)
  BY <1>d, <1>y
<1>g. cur \in live /\ cur \in Node
  BY <1>i, <1>c, TailFacts
<1>h. n \in Node /\ n \notin live /\ n # cur
  <2>1. live \cup leaked \in SUBSET Node
    BY DEF Consistent, TypeOK
  <2>2. n \in Node \ (live \cup leaked)
    BY <2>1, FreshAssumption
  <2> QED
    BY <2>2, <1>g
<1>z. next[cur][a] = NULL
  BY <1>i, <1>w, <1>c, <1>p DEF Consistent, TailBounds, a
<1>0. NoEdges \in [Letter -> Node \cup {NULL}] /\ \A l \in Letter : NoEdges[l] = NULL
  BY DEF NoEdges
<1>1. next'[cur][a] = n
  BY <1>n, <1>y, <1>h, <1>g, <1>w
<1>2. \A l \in Letter : next'[n][l] = NULL
  BY <1>0, <1>n, <1>y, <1>h, <1>g, <1>w
<1>3. \A m \in live, l \in Letter : m # cur \/ l # a => next'[m][l] = next[m][l]
  BY <1>n, <1>y, <1>h, <1>g, <1>w
<1>4. eow'[n] = FALSE /\ \A m \in live : eow'[m] = eow[m]
  BY <1>n, <1>y, <1>h
<1>5. n = cur' /\ live' = live \cup {cur'}
  BY <1>n
<1> QED
  BY <1>p, <1>y, <1>w, <1>g, <1>h, <1>z, <1>1, <1>2, <1>3, <1>4, <1>5 DEF a

LEMMA AddSuffixWords ==
  ASSUME Consistent, AddSuffix
  PROVE  /\ \A n \in live, w \in Seq(Letter) :
              Accepts(next, eow, n, w) <=> Accepts(next', eow', n, w)
         /\ q0' = q0 /\ q0 \in live
         /\ \A w \in Seq(Letter) :
              Target(next', q0', w) # NULL => Target(next, q0, w) # NULL \/ Len(w) = i + 1
<1> DEFINE a == word[i + 1]
           R == {<<x, x>> : x \in live \cup {NULL}} \cup {<<NULL, cur'>>}
<1>f. /\ pc = "suffix" /\ pc' = "suffix" /\ q0' = q0 /\ i \in Nat /\ i' = i + 1
      /\ cur' \in Node /\ cur' \notin live /\ live' = live \cup {cur'}
      /\ cur \in live /\ a \in Letter
      /\ next[cur][a] = NULL /\ next'[cur][a] = cur'
      /\ \A l \in Letter : next'[cur'][l] = NULL
      /\ \A m \in live, l \in Letter : m # cur \/ l # a => next'[m][l] = next[m][l]
      /\ eow'[cur'] = FALSE /\ \A m \in live : eow'[m] = eow[m]
  BY NewNode
<1>y. live \subseteq Node /\ NULL \notin Node
  BY NullAssumption DEF Consistent, TypeOK
<1>c. /\ \A n \in live, l \in Letter : next[n][l] \in live \cup {NULL}
      /\ q0 \in live /\ state # "CLOSED"
  BY <1>f DEF Consistent, NoDangling, ObjectState
<1>R. \A x, y : <<x, y>> \in R <=> \/ x = y /\ x \in live
                                   \/ x = NULL /\ y = NULL
                                   \/ x = NULL /\ y = cur'
  OBVIOUS
<1> HIDE DEF R, a
<1>1. ASSUME NEW x, NEW y, <<x, y>> \in R, NEW l \in Letter
      PROVE  <<GetChild(next, x, l), GetChild(next', y, l)>> \in R
  <2>1. CASE x = NULL /\ y = NULL
    BY <2>1, <1>R DEF GetChild
  <2>2. CASE x = NULL /\ y = cur'
    BY <2>2, <1>R, <1>f DEF GetChild
  <2>3. CASE x = y /\ x \in live
    <3>1. GetChild(next, x, l) = next[x][l] /\ GetChild(next', y, l) = next'[x][l]
      BY <2>3, <1>y DEF GetChild
    <3>2. CASE x = cur /\ l = a
      BY <3>1, <3>2, <1>f, <1>R
    <3>3. CASE x # cur \/ l # a
      <4>1. next'[x][l] = next[x][l] /\ next[x][l] \in live \cup {NULL}
        BY <3>3, <2>3, <1>f, <1>c
      <4> QED
        BY <3>1, <4>1, <1>R
    <3> QED
      BY <3>2, <3>3
  <2> QED
    BY <1>1, <1>R, <2>1, <2>2, <2>3
<1>2. Simulates(R, next, next')
  BY <1>1 DEF Simulates
<1>3. SameMarkers(R, eow, eow')
  <2> SUFFICES ASSUME NEW x, NEW y, <<x, y>> \in R
               PROVE  (x # NULL /\ eow[x]) <=> (y # NULL /\ eow'[y])
    BY DEF SameMarkers
  <2>1. CASE x = NULL /\ y = NULL
    BY <2>1
  <2>2. CASE x = NULL /\ y = cur'
    BY <2>2, <1>f, Zenon
  <2>3. CASE x = y /\ x \in live
    <3>1. eow'[x] = eow[x]
      BY <2>3, <1>f
    <3> QED
      BY <3>1, <2>3, Zenon
  <2> QED
    BY <1>R, <2>1, <2>2, <2>3
<1>4. <<q0, q0'>> \in R
  BY <1>R, <1>f, <1>c
<1>5. ASSUME NEW n \in live, NEW w \in Seq(Letter)
      PROVE  Accepts(next, eow, n, w) <=> Accepts(next', eow', n, w)
  <2>1. <<n, n>> \in R
    BY <1>R
  <2> QED
    BY <2>1, <1>2, <1>3, SameWords
<1>6. Consistent'
  BY AddSuffixConsistent
<1>t. /\ TailWord' \in Seq(Letter) /\ i + 1 \in 0..Len(TailWord')
      /\ Len(TailWord') = i + 1 /\ cur' = TailNode'[i + 1]
  <2>1. word' = word /\ word \in Seq(Letter) /\ i + 1 \in 0..Len(word)
    BY <1>f, NewNode DEF AddSuffix, Consistent, TypeOK
  <2>2. TailWord' = SubSeq(word, 1, i + 1)
    BY <2>1, <1>f DEF TailWord
  <2>3. cur' = TailNode'[i']
    BY <1>6, <1>f DEF Consistent, CallState
  <2> QED
    BY <2>1, <2>2, <2>3, <1>f, FirstLetters
<1>7. OnlyWay(next', q0', live', TailWord')
  <2>1. q0' # NULL /\ state' # "CLOSED" /\ q0' \in live'
    BY <1>c, <1>f, <1>y DEF AddSuffix, summary
  <2>2. TailUnshared' /\ NoDangling' /\ live' \subseteq Node
    BY <1>6 DEF Consistent, TypeOK
  <2>3. NoneLeave(next', q0', live')
    BY <2>1, <2>2, <1>y DEF NoneLeave, NoDangling
  <2>4. \A k \in 0..Len(TailWord') : Run(next', q0', TailWord')[k] \in live'
    BY <2>1, <2>2 DEF TailUnshared, TailNode
  <2>5. \A k \in 0..Len(TailWord'), n \in live', l \in Letter :
          next'[n][l] = Run(next', q0', TailWord')[k]
            => k > 0 /\ n = Run(next', q0', TailWord')[k - 1] /\ l = TailWord'[k]
    BY <2>1, <2>2 DEF TailUnshared, TailNode
  <2> QED
    BY <2>1, <2>3, <2>4, <2>5, <1>t DEF OnlyWay
<1>8. ASSUME NEW w \in Seq(Letter), Target(next', q0', w) # NULL, Target(next, q0, w) = NULL
      PROVE  Len(w) = i + 1
  <2>1. <<Target(next, q0, w), Target(next', q0', w)>> \in R
    BY <1>2, <1>4, RelatedTargets
  <2>2. Target(next', q0', w) = cur'
    BY <2>1, <1>8, <1>R, <1>y
  <2>3. Target(next', q0', w) = Run(next', q0', TailWord')[i + 1]
    BY <2>2, <1>t DEF TailNode
  <2> QED
    BY <2>3, <1>7, <1>t, OneWordLeads
<1> QED
  BY <1>5, <1>8, <1>c, <1>f

(***************************************************************************)
(* The node that is marked at the end is the one only the word leads to.   *)
(***************************************************************************)
LEMMA MarkedWords ==
  ASSUME Consistent, Marks
  PROVE  /\ word \in Seq(Letter) /\ Target(next, q0, word) = cur /\ cur # NULL
         /\ \A w \in Seq(Letter) :
              Accepts(next', eow', q0', w) <=> Accepts(next, eow, q0, w) \/ w = word
<1>p. /\ pc = "suffix" /\ i = Len(word) /\ eow' = [eow EXCEPT ![cur] = TRUE]
      /\ UNCHANGED <<q0, next, live>>
  BY DEF Marks, Marked
<1>w. /\ word \in Seq(Letter) /\ Len(word) \in Nat
      /\ q0 # NULL /\ state # "CLOSED" /\ cur = TailNode[i] /\ TailWord = word
  BY <1>p, EndOfTail
<1>c. cur \in Node /\ cur # NULL /\ Target(next, q0, word) = cur
  BY <1>p, <1>w, EndOfTail DEF Target, TailNode
<1>o. OnlyWay(next, q0, live, word)
  BY <1>w, TailIsOnlyWay
<1>e. eow \in [Node -> BOOLEAN] /\ live \subseteq Node /\ NULL \notin Node
  BY NullAssumption DEF Consistent, TypeOK
<1>1. ASSUME NEW w \in Seq(Letter)
      PROVE  Accepts(next', eow', q0', w) <=> Accepts(next, eow, q0, w) \/ w = word
  <2>1. Target(next', q0', w) = Target(next, q0, w)
    BY <1>p
  <2>2. Target(next, q0, w) \in live \cup {NULL}
    <3>1. Len(w) \in 0..Len(w)
      BY LenProperties
    <3>2. NoneLeave(next, q0, live)
      BY GraphClosed
    <3> QED
      BY <3>1, <3>2, RunWithin DEF Target
  <2>3. CASE Target(next, q0, w) = cur
    <3>1. Len(word) \in 0..Len(word) /\ Target(next, q0, w) = Run(next, q0, word)[Len(word)]
      BY <2>3, <1>w, <1>c DEF Target
    <3>2. Len(w) = Len(word) /\ \A k \in 1..Len(word) : w[k] = word[k]
      BY <3>1, <1>o, OneWordLeads
    <3>3. w = word
      BY <3>2, <1>w, SeqEqual
    <3>4. eow'[cur]
      BY <1>p, <1>e, <1>c
    <3> QED
      BY <3>3, <3>4, <2>1, <2>3, <1>c DEF Accepts
  <2>4. CASE Target(next, q0, w) # cur
    <3>1. w # word
      BY <2>4, <1>c
    <3>2. Target(next, q0, w) # NULL =>
            eow'[Target(next, q0, w)] = eow[Target(next, q0, w)]
      BY <2>2, <2>4, <1>p, <1>e
    <3>3. Accepts(next', eow', q0', w) <=> Accepts(next, eow, q0, w)
      BY <3>2, <2>1, Zenon DEF Accepts
    <3> QED
      BY <3>1, <3>3, Zenon
  <2> QED
    BY <2>3, <2>4
<1> QED
  BY <1>w, <1>c, <1>1

(***************************************************************************)
(* AddWord: the graph of no nodes and the one of only a root have no word. *)
(***************************************************************************)
LEMMA NoRootNoWord ==
  ASSUME NEW g, NEW e, NEW w \in Seq(Letter)
  PROVE  Target(g, NULL, w) = NULL /\ ~Accepts(g, e, NULL, w)
<1>1. \A l \in Letter : GetChild(g, NULL, l) = NULL
  BY DEF GetChild
<1>2. CASE Len(w) # 0
  BY <1>1, <1>2, NothingBelow DEF Accepts
<1>3. CASE Len(w) = 0
  BY <1>3, RunStep DEF Target, Accepts
<1> QED
  BY <1>2, <1>3

LEMMA AddWordWords ==
  ASSUME Consistent, NEW new \in Word, AddWord(new)
  PROVE  /\ \A w \in Seq(Letter) :
              Accepts(next, eow, q0, w) <=> Accepts(next', eow', q0', w)
         /\ \A w \in Seq(Letter) :
              Target(next', q0', w) # NULL => Target(next, q0, w) # NULL \/ Len(w) = 0
<1>1. CASE q0 # NULL
  <2>1. UNCHANGED graph
    BY <1>1 DEF AddWord
  <2> QED
    BY <2>1, SameGraphRunsKept DEF graph
<1>2. CASE q0 = NULL
  <2>1. PICK n \in Fresh(live \cup leaked) :
          /\ q0' = n /\ next' = [next EXCEPT ![n] = NoEdges]
          /\ eow' = [eow EXCEPT ![n] = FALSE]
    BY <1>2 DEF AddWord
  <2>2. /\ next \in [Node -> [Letter -> Node \cup {NULL}]] /\ eow \in [Node -> BOOLEAN]
        /\ n \in Node
    BY FreshAssumption DEF Consistent, TypeOK
  <2>3. eow'[n] = FALSE /\ \A l \in Letter : GetChild(next', q0', l) = NULL
    BY <2>1, <2>2 DEF GetChild, NoEdges
  <2> SUFFICES ASSUME NEW w \in Seq(Letter)
               PROVE  /\ Accepts(next, eow, q0, w) <=> Accepts(next', eow', q0', w)
                      /\ Target(next', q0', w) # NULL => Len(w) = 0
    OBVIOUS
  <2>4. ~Accepts(next, eow, q0, w)
    BY <1>2, NoRootNoWord
  <2>5. CASE Len(w) # 0
    BY <2>3, <2>4, <2>5, NothingBelow DEF Accepts
  <2>6. CASE Len(w) = 0
    <3>1. Target(next', q0', w) = n
      BY <2>6, <2>1, RunStep DEF Target
    <3> QED
      BY <3>1, <2>3, <2>4, <2>6 DEF Accepts
  <2> QED
    BY <2>5, <2>6
<1> QED
  BY <1>1, <1>2

-----------------------------------------------------------------------------
(***************************************************************************)
(* Calls                                                                   *)
(***************************************************************************)

(***************************************************************************)
(* The word of an addition under way is one of the clients' and not less   *)
(* than the one before; and a DAWG with a root is no longer empty when a   *)
(* call returns.                                                           *)
(***************************************************************************)
InOrder ==
  /\ pc # "idle" /\ caller = "add" =>
       word \in Word /\ LessEq(prev_word, word) /\ state # "CLOSED"
  /\ (pc = "idle" /\ q0 # NULL) \/ caller = "close" => state # "EMPTY"

LEMMA InitInOrder == Init => InOrder
BY DEF Init, InOrder

LEMMA AddedInOrder ==
  ASSUME Added
  PROVE  InOrder'
BY DEF Added, InOrder

LEMMA NextInOrder ==
  ASSUME Consistent, InOrder, [Next]_vars
  PROVE  InOrder'
<1>1. ASSUME NEW w \in Word, AddWord(w) PROVE InOrder'
  <2>1. w \in Seq(Nat) /\ prev_word \in Seq(Nat)
    BY WordAssumption, LettersAreNaturals DEF Consistent, TypeOK
  <2>2. LessEq(prev_word, w)
    BY <2>1, <1>1, StringCmpOrder DEF AddWord
  <2>3. /\ caller' = "add" /\ pc' = "skip" /\ word' = w
        /\ prev_word' = prev_word /\ state' = state /\ state # "CLOSED"
    BY <1>1 DEF AddWord, summary, Consistent, CallState
  <2> QED
    BY <2>2, <2>3 DEF InOrder
<1>2. ASSUME NEW w \in Word, RejectLess(w) \/ RejectFrozen(w) PROVE InOrder'
  BY <1>2 DEF RejectLess, RejectFrozen, Return, InOrder, graph, summary
<1>3. CASE Close
  BY <1>3 DEF Close, InOrder, summary
<1>4. CASE CloseNothing \/ Clear
  BY <1>4 DEF CloseNothing, Clear, Return, InOrder, graph, summary
<1>5. CASE SkipPrefix \/ EndOfPrefix \/ Replace \/ Register \/ Minimized \/ AddSuffix
  <2>1. /\ pc # "idle" /\ pc' # "idle"
        /\ UNCHANGED <<caller, word, prev_word, state>>
    BY <1>5 DEF SkipPrefix, EndOfPrefix, Replace, Register, Minimized, AddSuffix, summary
  <2> QED
    BY <2>1 DEF InOrder
<1>6. CASE EndAdd
  BY <1>6, EndAddIsAdded, AddedInOrder
<1>7. CASE EndClose
  BY <1>7 DEF EndClose, Return, InOrder
<1>8. CASE UNCHANGED vars
  BY <1>8 DEF vars, locals, graph, summary, InOrder
<1> QED
  BY <1>1, <1>2, <1>3, <1>4, <1>5, <1>6, <1>7, <1>8 DEF Next, Call, Step

(***************************************************************************)
(* The order is total: a word DAWG_add_word refuses is less than the last. *)
(***************************************************************************)
LEMMA OrderIsTotal ==
  ASSUME NEW s \in Seq(Nat), NEW t \in Seq(Nat), ~LessEq(s, t)
  PROVE  Less(t, s)
<1> DEFINE M == {k \in 1..Len(s) : k <= Len(t) /\ s[k] # t[k]}
<1>n. Len(s) \in Nat /\ Len(t) \in Nat
  BY LenProperties
<1>1. CASE M = {}
  <2>1. \A k \in 1..Len(s) : k <= Len(t) => s[k] = t[k]
    BY <1>1
  <2>2. ~(Len(s) < Len(t))
    <3> SUFFICES ASSUME Len(s) < Len(t) PROVE FALSE
      OBVIOUS
    <3>1. AgreeBelow(s, t, Len(s) + 1)
      BY <2>1, <1>n DEF AgreeBelow
    <3> QED
      BY <3>1 DEF LessEq, Less
  <2>3. Len(s) # Len(t)
    <3> SUFFICES ASSUME Len(s) = Len(t) PROVE FALSE
      OBVIOUS
    <3>1. s = t
      BY <2>1, <1>n, SeqEqual
    <3> QED
      BY <3>1 DEF LessEq
  <2>4. Len(t) < Len(s) /\ AgreeBelow(t, s, Len(t) + 1)
    BY <2>1, <2>2, <2>3, <1>n DEF AgreeBelow
  <2> QED
    BY <2>4 DEF Less
<1>2. CASE M # {}
  <2>1. PICK k \in M : \A y \in M : k <= y
    <3> M \subseteq Nat
      OBVIOUS
    <3> QED
      BY <1>2, LeastNatural
  <2>2. /\ k \in 1..Len(s) /\ k \in 1..Len(t) /\ s[k] # t[k]
        /\ \A j \in 1..(k - 1) : s[j] = t[j]
    <3>1. k \in 1..Len(s) /\ k \in 1..Len(t) /\ s[k] # t[k]
      BY <1>n
    <3>2. ASSUME NEW j \in 1..(k - 1) PROVE s[j] = t[j]
      <4>0. k \in Nat /\ k <= Len(s) /\ k <= Len(t) /\ j \in Nat /\ 1 <= j /\ j < k
        <5>1. k \in 1..Len(s) /\ k \in 1..Len(t)
          BY <3>1
        <5> HIDE DEF M
        <5> QED
          BY <5>1, <1>n
      <4>1. j \in 1..Len(s) /\ j <= Len(t) /\ ~(k <= j)
        <5> HIDE DEF M
        <5> QED
          BY <4>0, <1>n
      <4>2. j \notin M
        <5> HIDE DEF M
        <5> QED
          BY <4>1, <2>1
      <4> QED
        BY <4>1, <4>2
    <3> QED
      BY <3>1, <3>2
  <2>3. s[k] \in Nat /\ t[k] \in Nat
    BY <2>2, ElementOfSeq
  <2>4. ~(s[k] < t[k])
    <3> SUFFICES ASSUME s[k] < t[k] PROVE FALSE
      OBVIOUS
    <3>1. AgreeBelow(s, t, k)
      BY <2>2 DEF AgreeBelow
    <3>2. k <= Len(t)
      BY <2>2, <1>n
    <3>3. Less(s, t)
      BY <2>2, <3>1, <3>2 DEF Less
    <3> QED
      BY <3>3 DEF LessEq
  <2>5. t[k] < s[k]
    BY <2>2, <2>3, <2>4
  <2>6. AgreeBelow(t, s, k)
    BY <2>2 DEF AgreeBelow
  <2>7. k <= Len(s)
    BY <2>2, <1>n
  <2> QED
    BY <2>2, <2>5, <2>6, <2>7 DEF Less
<1> QED
  BY <1>1, <1>2

-----------------------------------------------------------------------------
(***************************************************************************)
(* The words a client sees                                                 *)
(***************************************************************************)

(***************************************************************************)
(* The steps in the middle of a call, its start and what is not a step.    *)
(***************************************************************************)
Unseen ==
  \/ \E w \in Word : AddWord(w)
  \/ Close \/ SkipPrefix \/ EndOfPrefix \/ Replace \/ Register \/ Minimized \/ AddSuffix
  \/ UNCHANGED vars

LEMMA UnseenWords ==
  ASSUME Consistent, Unseen
  PROVE  /\ UNCHANGED <<count, longest_word, state, prev_word, ret>>
         /\ \A w \in Seq(Letter) :
              Accepts(next, eow, q0, w) <=> Accepts(next', eow', q0', w)
<1>1. UNCHANGED <<count, longest_word, state, prev_word, ret>>
  BY DEF Unseen, AddWord, Close, SkipPrefix, EndOfPrefix, Replace, Register, Minimized,
         AddSuffix, vars, summary
<1>2. ASSUME NEW w \in Seq(Letter)
      PROVE  Accepts(next, eow, q0, w) <=> Accepts(next', eow', q0', w)
  <2>1. CASE \E new \in Word : AddWord(new)
    BY <2>1, AddWordWords
  <2>2. CASE Replace
    BY <2>2, ReplaceKeepsRuns, KeptWords
  <2>3. CASE AddSuffix
    BY <2>3, AddSuffixWords
  <2>4. CASE Close \/ SkipPrefix \/ EndOfPrefix \/ Register \/ Minimized \/ UNCHANGED vars
    <3>1. UNCHANGED <<q0, next, eow>>
      BY <2>4 DEF Close, SkipPrefix, EndOfPrefix, Register, Minimized, vars, graph
    <3> QED
      BY <3>1, SameGraphRunsKept
  <2> QED
    BY <2>1, <2>2, <2>3, <2>4 DEF Unseen
<1> QED
  BY <1>1, <1>2

LEMMA LangOf ==
  /\ \A w : w \in Lang <=> w \in Universe /\ Accepts(next, eow, q0, w)
  /\ \A w : w \in Lang' <=> w \in Universe /\ Accepts(next', eow', q0', w)
  /\ \A w \in Universe : w \in Seq(Letter)
BY UniverseAssumption DEF Lang

LEMMA UnseenLang ==
  ASSUME Consistent, Unseen
  PROVE  Lang' = Lang
<1>1. \A w \in Seq(Letter) : Accepts(next, eow, q0, w) <=> Accepts(next', eow', q0', w)
  BY UnseenWords
<1>2. ASSUME NEW w PROVE w \in Lang' <=> w \in Lang
  BY <1>1, LangOf
<1> QED
  BY <1>2, Zenon DEF Lang

LEMMA MarkedLang ==
  ASSUME Consistent, InOrder, Marks
  PROVE  /\ word \in Word /\ LessEq(prev_word, word) /\ state # "CLOSED"
         /\ Lang' = Lang \cup {word} /\ (eow[cur] <=> word \in Lang)
<1>1. pc = "suffix" /\ caller = "add"
  BY DEF Marks, Consistent, CallState
<1>2. word \in Word /\ LessEq(prev_word, word) /\ state # "CLOSED"
  BY <1>1 DEF InOrder
<1>3. word \in Universe
  BY <1>2, WordAssumption
<1>4. /\ Target(next, q0, word) = cur /\ cur # NULL
      /\ \A w \in Seq(Letter) :
           Accepts(next', eow', q0', w) <=> Accepts(next, eow, q0, w) \/ w = word
  BY MarkedWords
<1>5. \A w : w \in Lang' <=> w \in Lang \cup {word}
  BY <1>3, <1>4, LangOf
<1>6. eow[cur] <=> word \in Lang
  BY <1>3, <1>4, LangOf, Zenon DEF Accepts
<1>7. Lang' = Lang \cup {word}
  BY <1>5, Zenon
<1> QED
  BY <1>2, <1>6, <1>7

(***************************************************************************)
(* No edge leads on from NULL.                                             *)
(***************************************************************************)
LEMMA StaysNull ==
  ASSUME NEW g, NEW root, NEW w \in Seq(Letter), NEW m \in 0..Len(w),
         Run(g, root, w)[m] = NULL
  PROVE  Target(g, root, w) = NULL
<1> DEFINE v == Run(g, root, w)
           Bad == {k \in Nat : m <= k /\ k <= Len(w) /\ v[k] # NULL}
<1>1. Len(w) \in Nat /\ m \in Nat /\ m <= Len(w)
  BY LenProperties
<1>2. \A k \in 1..Len(w) : v[k] = GetChild(g, v[k - 1], w[k])
  BY <1>1, RunStep
<1>3. v[m] = NULL /\ Target(g, root, w) = v[Len(w)]
  BY DEF Target
<1> HIDE DEF v
<1>4. ASSUME Bad # {} PROVE FALSE
  <2>1. PICK k \in Bad : \A j \in Bad : k <= j
    BY <1>4, LeastNatural
  <2>2. k # m /\ k - 1 \in Nat /\ m <= k - 1 /\ k - 1 <= Len(w) /\ k \in 1..Len(w)
    BY <2>1, <1>1, <1>3
  <2>3. v[k - 1] = NULL
    BY <2>1, <2>2
  <2>4. v[k] = NULL
    BY <2>2, <2>3, <1>2 DEF GetChild
  <2> QED
    BY <2>1, <2>4
<1> QED
  BY <1>1, <1>3, <1>4

(***************************************************************************)
(* When a suffix is added the word is not there yet: the first edge of the *)
(* suffix is missing.                                                      *)
(***************************************************************************)
LEMMA SuffixIsNew ==
  Consistent /\ pc = "suffix" /\ i < Len(word) => word \notin Lang
<1> SUFFICES ASSUME Consistent, pc = "suffix", i < Len(word)
             PROVE  word \notin Lang
  OBVIOUS
<1>1. /\ word \in Seq(Letter) /\ Len(word) \in Nat /\ i \in Nat /\ i + 1 \in 1..Len(word)
      /\ word[i + 1] \in Letter
  BY LenProperties, ElementOfSeq DEF Consistent, TypeOK
<1>2. q0 # NULL /\ state # "CLOSED"
  BY DEF Consistent, ObjectState
<1>3. TailWord = SubSeq(word, 1, i) /\ Len(TailWord) = i /\ \A k \in 1..i : TailWord[k] = word[k]
  <2>1. TailWord = SubSeq(word, 1, i)
    BY DEF TailWord
  <2>2. i \in 0..Len(word)
    BY <1>1
  <2> QED
    BY <2>1, <2>2, <1>1, FirstLetters
<1>4. cur = TailNode[i] /\ cur # NULL
  BY <1>1, <1>2, <1>3, TailFacts DEF Consistent, CallState
<1>5. next[cur][word[i + 1]] = NULL
  <2>1. TailBounds /\ i \in 0..Len(TailWord)
    BY <1>1, <1>3 DEF Consistent
  <2> QED
    BY <2>1, <1>1, <1>2, <1>4 DEF TailBounds
<1>6. SameEdges(next, next, q0, TailWord, word, i)
  BY <1>1, <1>3 DEF SameEdges
<1>7. Run(next, q0, word)[i] = cur
  <2>1. Len(TailWord) \in Nat /\ i \in 0..i
    BY <1>1, <1>3
  <2>2. \A k \in 0..i : Run(next, q0, word)[k] = Run(next, q0, TailWord)[k]
    BY <2>1, <1>1, <1>6, RunKept
  <2> QED
    BY <2>1, <2>2, <1>4 DEF TailNode
<1>8. Run(next, q0, word)[i + 1] = NULL
  <2>1. Run(next, q0, word)[i + 1] = GetChild(next, Run(next, q0, word)[i + 1 - 1], word[i + 1])
    BY <1>1, RunStep
  <2>2. i + 1 - 1 = i
    BY <1>1
  <2> QED
    BY <2>1, <2>2, <1>5, <1>7 DEF GetChild
<1>9. Target(next, q0, word) = NULL
  <2>1. i + 1 \in 0..Len(word)
    BY <1>1
  <2> QED
    BY <2>1, <1>1, <1>8, StaysNull
<1> QED
  BY <1>9 DEF Lang, Accepts

LEMMA NoRootLang ==
  /\ q0 = NULL => Lang = {}
  /\ q0' = NULL => Lang' = {}
<1>1. ASSUME q0 = NULL PROVE Lang = {}
  BY <1>1, LangOf, NoRootNoWord, Zenon
<1>2. ASSUME q0' = NULL PROVE Lang' = {}
  BY <1>2, LangOf, NoRootNoWord, Zenon
<1> QED
  BY <1>1, <1>2

LEMMA SameGraphLang ==
  ASSUME UNCHANGED <<q0, next, eow>>
  PROVE  Lang' = Lang
BY DEF Lang

-----------------------------------------------------------------------------
(***************************************************************************)
(* The theorems                                                            *)
(***************************************************************************)

(***************************************************************************)
(* The calls that do not erase the set.                                    *)
(***************************************************************************)
CallButClear ==
  \/ \E w \in Word : AddWord(w) \/ RejectLess(w) \/ RejectFrozen(w)
  \/ Close
  \/ CloseNothing

LEMMA StepOperates ==
  ASSUME Consistent, InOrder, CallButClear \/ Step \/ UNCHANGED vars
  PROVE  Client!Operate \/ UNCHANGED <<Lang, state, prev_word, ret>>
<1>1. CASE Unseen
  BY <1>1, UnseenWords, UnseenLang
<1>2. ASSUME NEW w \in Word, RejectLess(w)
      PROVE  Client!Operate
  <2>1. w \in Seq(Nat) /\ prev_word \in Seq(Nat)
    BY WordAssumption, LettersAreNaturals DEF Consistent, TypeOK
  <2>2. StringCmp(prev_word, w) > 0 /\ ~(StringCmp(prev_word, w) <= 0)
    BY <1>2 DEF RejectLess, StringCmp
  <2>3. Less(w, prev_word)
    BY <2>1, <2>2, StringCmpOrder, OrderIsTotal
  <2>4. Lang' = Lang
    BY <1>2, SameGraphLang DEF RejectLess, graph
  <2>5. Client!RejectLess(w)
    BY <1>2, <2>3, <2>4
    DEF RejectLess, Return, DAWG_WORD_LESS, summary, Client!RejectLess, Client!Less, Less,
        Client!AgreeBelow, AgreeBelow
  <2> QED
    BY <2>5 DEF Client!Operate
<1>3. ASSUME NEW w \in Word, RejectFrozen(w)
      PROVE  Client!Operate
  <2>1. Lang' = Lang
    BY <1>3, SameGraphLang DEF RejectFrozen, graph
  <2>2. Client!RejectFrozen
    BY <1>3, <2>1 DEF RejectFrozen, Return, DAWG_FROZEN, summary, Client!RejectFrozen
  <2> QED
    BY <2>2 DEF Client!Operate
<1>4. CASE CloseNothing
  <2>1. Lang' = Lang /\ state = "EMPTY"
    BY <1>4, SameGraphLang DEF CloseNothing, graph, Consistent, ObjectState
  <2>2. Client!CloseNothing
    BY <1>4, <2>1 DEF CloseNothing, Return, summary, Client!CloseNothing
  <2> QED
    BY <2>2 DEF Client!Operate
<1>5. CASE EndAdd
  <2>1. /\ word \in Word /\ LessEq(prev_word, word) /\ state # "CLOSED"
        /\ Lang' = Lang \cup {word} /\ (eow[cur] <=> word \in Lang)
    BY <1>5, EndAddIsAdded, MarkedLang DEF Added
  <2>2. Client!LessEq(prev_word, word)
    BY <2>1 DEF LessEq, Less, AgreeBelow, Client!LessEq, Client!Less, Client!AgreeBelow
  <2>3. ret' = IF word \in Lang THEN 0 ELSE 1
    <3>1. ret' = IF eow[cur] THEN 0 ELSE 1
      BY <1>5 DEF EndAdd, Return
    <3> QED
      BY <3>1, <2>1, Zenon
  <2>4. state' = "ACTIVE" /\ prev_word' = word
    BY <1>5 DEF EndAdd
  <2>5. Client!Add(word)
    BY <2>1, <2>2, <2>3, <2>4 DEF Client!Add
  <2> QED
    BY <2>1, <2>5 DEF Client!Operate
<1>6. CASE EndClose
  <2>1. Lang' = Lang /\ state # "EMPTY"
    BY <1>6, SameGraphLang DEF EndClose, graph, InOrder
  <2>2. Client!Close
    BY <1>6, <2>1 DEF EndClose, Return, NoPrevious, Client!Close
  <2> QED
    BY <2>2 DEF Client!Operate
<1> QED
  BY <1>1, <1>2, <1>3, <1>4, <1>5, <1>6 DEF CallButClear, Step, Unseen

LEMMA StepIsClient ==
  ASSUME Consistent, InOrder, [Next]_vars
  PROVE  [Client!Next]_(<<Lang, state, prev_word, ret>>)
<1>1. CASE Clear
  BY <1>1, NoRootLang DEF Clear, Return, NoPrevious, Client!Clear, Client!Next
<1>2. CASE CallButClear \/ Step \/ UNCHANGED vars
  BY <1>2, StepOperates DEF Client!Next
<1> QED
  BY <1>1, <1>2 DEF Next, Call, CallButClear

LEMMA AlwaysInOrder == Spec => [](Consistent /\ InOrder)
<1>1. Consistent /\ InOrder /\ [Next]_vars => (Consistent /\ InOrder)'
  BY NextConsistent, NextInOrder
<1> QED
  BY <1>1, InitConsistent, InitInOrder, PTL DEF Spec

(***************************************************************************)
(* DAWG_add_word, DAWG_close and DAWG_clear keep a set of words: whatever  *)
(* is shared, freed and redirected in the graph, a word that was added is  *)
(* in it until clear(), and no other word is.                              *)
(***************************************************************************)
THEOREM WordSetImplemented == Spec => ImplementsWordSet
<1>1. Consistent /\ InOrder /\ [Next]_vars
        => [Client!Next]_(<<Lang, state, prev_word, ret>>)
  BY StepIsClient
<1>2. Init => Client!Init
  BY NoRootLang DEF Init, Client!Init
<1> QED
  BY <1>1, <1>2, AlwaysInOrder, PTL DEF Spec, ImplementsWordSet, Client!Spec, Client!vars

-----------------------------------------------------------------------------
(***************************************************************************)
(* The summary                                                             *)
(***************************************************************************)

(***************************************************************************)
(* Paths are no longer than longest_word, but for the suffix under         *)
(* construction; SummaryExact follows from these at every step.            *)
(***************************************************************************)
PathsShort ==
  \A w \in Seq(Letter) :
    Target(next, q0, w) # NULL =>
      Len(w) <= longest_word \/ (pc = "suffix" /\ Len(w) <= i)

LongestIsWord ==
  /\ Lang = {} => longest_word = 0
  /\ Lang # {} => \E w \in Lang : Len(w) = longest_word

CountIsExact == IsFiniteSet(Lang) /\ count = Cardinality(Lang)

LEMMA UnseenPaths ==
  ASSUME Consistent, PathsShort, Unseen
  PROVE  PathsShort'
<1>t. longest_word \in Nat /\ i \in Nat /\ longest_word' = longest_word
  BY UnseenWords DEF Consistent, TypeOK
<1> SUFFICES ASSUME NEW w \in Seq(Letter), Target(next', q0', w) # NULL
             PROVE  Len(w) <= longest_word' \/ (pc' = "suffix" /\ Len(w) <= i')
  BY DEF PathsShort
<1>l. Len(w) \in Nat
  BY LenProperties
<1>1. CASE \E new \in Word : AddWord(new)
  <2>1. pc = "idle" /\ (Target(next, q0, w) # NULL \/ Len(w) = 0)
    BY <1>1, AddWordWords DEF AddWord
  <2> QED
    BY <2>1, <1>t, <1>l DEF PathsShort
<1>2. CASE Replace
  <2>1. Target(next, q0, w) # NULL
    BY <1>2, ReplaceKeepsRuns, KeptWords
  <2>2. pc = "minimize"
    BY <1>2 DEF Replace
  <2> QED
    BY <2>1, <2>2, <1>t DEF PathsShort
<1>3. CASE AddSuffix
  <2>1. /\ Target(next, q0, w) # NULL \/ Len(w) = i + 1
        /\ pc = "suffix" /\ pc' = "suffix" /\ i' = i + 1
    BY <1>3, AddSuffixWords, NewNode
  <2> QED
    BY <2>1, <1>t, <1>l DEF PathsShort
<1>4. CASE Close \/ SkipPrefix \/ EndOfPrefix \/ Register \/ Minimized \/ UNCHANGED vars
  <2>1. /\ UNCHANGED <<q0, next, eow>>
        /\ pc = "suffix" => pc' = "suffix" /\ i' = i
    BY <1>4 DEF Close, SkipPrefix, EndOfPrefix, Register, Minimized, vars, graph, locals
  <2>2. Target(next, q0, w) # NULL
    BY <2>1
  <2> QED
    BY <2>1, <2>2, <1>t DEF PathsShort
<1> QED
  BY <1>1, <1>2, <1>3, <1>4 DEF Unseen

LEMMA MarkedCount ==
  ASSUME Consistent, InOrder, CountIsExact, Marks
  PROVE  CountIsExact'
<1>1. count' = IF eow[cur] THEN count ELSE count + 1
  BY DEF Marks, Counted
<1>2. Lang' = Lang \cup {word} /\ (eow[cur] <=> word \in Lang)
  BY MarkedLang
<1>3. IsFiniteSet(Lang) /\ count = Cardinality(Lang)
  BY DEF CountIsExact
<1>4. /\ IsFiniteSet(Lang \cup {word})
      /\ Cardinality(Lang \cup {word})
           = IF word \in Lang THEN Cardinality(Lang) ELSE Cardinality(Lang) + 1
  BY <1>3, FS_AddElement
<1>5. count' = IF word \in Lang THEN count ELSE count + 1
  BY <1>1, <1>2, Zenon
<1> QED
  BY <1>2, <1>3, <1>4, <1>5 DEF CountIsExact

LEMMA AddedSummary ==
  ASSUME Consistent, InOrder, PathsShort, LongestIsWord, CountIsExact, Added
  PROVE  PathsShort' /\ LongestIsWord' /\ CountIsExact'
<1>1. /\ i = Len(word) /\ Marks /\ UNCHANGED <<q0, next>>
      /\ longest_word' = IF Len(word) > longest_word THEN Len(word) ELSE longest_word
  BY DEF Added, Marks
<1>t. longest_word \in Nat /\ Len(word) \in Nat
  BY LenProperties DEF Consistent, TypeOK
<1>2. Lang' = Lang \cup {word}
  BY <1>1, MarkedLang
<1>3. PathsShort'
  <2> SUFFICES ASSUME NEW w \in Seq(Letter), Target(next', q0', w) # NULL
               PROVE  Len(w) <= longest_word'
    BY DEF PathsShort
  <2>1. Len(w) <= longest_word \/ Len(w) <= Len(word)
    BY <1>1 DEF PathsShort
  <2>2. Len(w) \in Nat
    BY LenProperties
  <2> QED
    BY <2>1, <2>2, <1>1, <1>t
<1>4. LongestIsWord'
  <2>1. CASE Len(word) > longest_word
    BY <2>1, <1>1, <1>2 DEF LongestIsWord
  <2>2. CASE ~(Len(word) > longest_word)
    <3>1. longest_word' = longest_word
      BY <2>2, <1>1
    <3>2. CASE Lang = {}
      <4>1. Len(word) = longest_word'
        BY <3>1, <3>2, <2>2, <1>t DEF LongestIsWord
      <4> QED
        BY <4>1, <1>2 DEF LongestIsWord
    <3>3. CASE Lang # {}
      BY <3>1, <3>3, <1>2 DEF LongestIsWord
    <3> QED
      BY <3>2, <3>3
  <2> QED
    BY <2>1, <2>2
<1>5. CountIsExact'
  BY <1>1, MarkedCount
<1> QED
  BY <1>3, <1>4, <1>5

LEMMA ReturnSummary ==
  ASSUME PathsShort, LongestIsWord, CountIsExact, UNCHANGED <<q0, next, eow>>,
         UNCHANGED <<count, longest_word>>, pc # "suffix"
  PROVE  PathsShort' /\ LongestIsWord' /\ CountIsExact'
<1>1. Lang' = Lang
  BY SameGraphLang
<1> QED
  BY <1>1 DEF PathsShort, LongestIsWord, CountIsExact

LEMMA EmptySummary ==
  ASSUME q0' = NULL, count' = 0, longest_word' = 0
  PROVE  PathsShort' /\ LongestIsWord' /\ CountIsExact'
<1>1. Lang' = {}
  BY NoRootLang
<1>2. \A w \in Seq(Letter) : Target(next', q0', w) = NULL
  BY NoRootNoWord
<1>3. IsFiniteSet({}) /\ Cardinality({}) = 0
  BY FS_EmptySet
<1> QED
  BY <1>1, <1>2, <1>3 DEF PathsShort, LongestIsWord, CountIsExact

Summarized == Consistent /\ InOrder /\ PathsShort /\ LongestIsWord /\ CountIsExact

LEMMA InitSummarized == Init => Summarized
<1> SUFFICES ASSUME Init PROVE Summarized
  OBVIOUS
<1>1. Lang = {} /\ \A w \in Seq(Letter) : Target(next, q0, w) = NULL
  BY NoRootLang, NoRootNoWord DEF Init
<1>2. IsFiniteSet({}) /\ Cardinality({}) = 0
  BY FS_EmptySet
<1>3. PathsShort /\ LongestIsWord /\ CountIsExact
  BY <1>1, <1>2 DEF Init, PathsShort, LongestIsWord, CountIsExact
<1> QED
  BY <1>3, InitConsistent, InitInOrder DEF Summarized

LEMMA NextSummarized == Summarized /\ [Next]_vars => Summarized'
<1> SUFFICES ASSUME Summarized, [Next]_vars PROVE Summarized'
  OBVIOUS
<1>0. Consistent /\ InOrder /\ PathsShort /\ LongestIsWord /\ CountIsExact
  BY DEF Summarized
<1>1. CASE Unseen
  <2>1. Lang' = Lang /\ UNCHANGED <<count, longest_word>>
    BY <1>0, <1>1, UnseenWords, UnseenLang
  <2>2. LongestIsWord' /\ CountIsExact'
    BY <2>1, <1>0 DEF LongestIsWord, CountIsExact
  <2> QED
    BY <2>2, <1>0, <1>1, UnseenPaths, NextConsistent, NextInOrder DEF Summarized
<1>2. CASE (\E w \in Word : RejectLess(w) \/ RejectFrozen(w)) \/ CloseNothing \/ EndClose
  <2>1. /\ UNCHANGED <<q0, next, eow>> /\ UNCHANGED <<count, longest_word>>
        /\ pc # "suffix"
    BY <1>2 DEF RejectLess, RejectFrozen, CloseNothing, EndClose, graph, summary
  <2>2. PathsShort' /\ LongestIsWord' /\ CountIsExact'
    BY <2>1, <1>0, ReturnSummary
  <2> QED
    BY <2>2, <1>0, NextConsistent, NextInOrder DEF Summarized
<1>3. CASE Clear
  <2>1. PathsShort' /\ LongestIsWord' /\ CountIsExact'
    BY <1>3, EmptySummary DEF Clear
  <2> QED
    BY <2>1, <1>0, NextConsistent, NextInOrder DEF Summarized
<1>4. CASE EndAdd
  <2>1. PathsShort' /\ LongestIsWord' /\ CountIsExact'
    BY <1>0, <1>4, EndAddIsAdded, AddedSummary
  <2> QED
    BY <2>1, <1>0, NextConsistent, NextInOrder DEF Summarized
<1> QED
  BY <1>1, <1>2, <1>3, <1>4 DEF Next, Call, Step, Unseen

LEMMA AlwaysSummarized == Spec => []Summarized
BY InitSummarized, NextSummarized, PTL DEF Spec

(***************************************************************************)
(* Between calls count is the number of words in the automaton, no path is *)
(* longer than longest_word, which buffers are sized by, and one word is   *)
(* as long (dawg.h).                                                       *)
(***************************************************************************)
THEOREM SummaryAlwaysExact == Spec => []SummaryExact
<1>1. Summarized => SummaryExact
  <2> SUFFICES ASSUME Summarized, pc = "idle"
               PROVE  /\ count = Cardinality(Lang)
                      /\ \A w \in Universe :
                           Target(next, q0, w) # NULL => Len(w) <= longest_word
                      /\ Lang # {} => \E w \in Lang : Len(w) = longest_word
    BY Zenon DEF SummaryExact
  <2>1. PathsShort /\ LongestIsWord /\ CountIsExact
    BY DEF Summarized
  <2>2. \A w \in Universe : w \in Seq(Letter)
    BY UniverseAssumption
  <2> QED
    BY <2>1, <2>2 DEF PathsShort, LongestIsWord, CountIsExact
<1> QED
  BY <1>1, AlwaysSummarized, PTL

-----------------------------------------------------------------------------
(***************************************************************************)
(* Words in pieces                                                         *)
(***************************************************************************)

Follow(v, u) == v \o u

IsJoined(w, v, u) ==
  /\ w \in Seq(Letter) /\ Len(w) = Len(v) + Len(u)
  /\ Len(v) \in Nat /\ Len(u) \in Nat
  /\ \A k \in 1..Len(v) : w[k] = v[k]
  /\ \A k \in 1..Len(u) : w[Len(v) + k] = u[k]

LEMMA Pieces ==
  ASSUME NEW v \in Seq(Letter), NEW u \in Seq(Letter), NEW w, w = Follow(v, u)
  PROVE  IsJoined(w, v, u)
<1>1. /\ w \in Seq(Letter) /\ Len(w) = Len(v) + Len(u)
      /\ \A k \in 1..(Len(v) + Len(u)) : w[k] = IF k <= Len(v) THEN v[k] ELSE u[k - Len(v)]
  BY ConcatProperties DEF Follow
<1>2. Len(v) \in Nat /\ Len(u) \in Nat
  BY LenProperties
<1>3. ASSUME NEW k \in 1..Len(v) PROVE w[k] = v[k]
  <2>1. k \in 1..(Len(v) + Len(u)) /\ k <= Len(v)
    BY <1>2
  <2> QED
    BY <2>1, <1>1
<1>4. ASSUME NEW k \in 1..Len(u) PROVE w[Len(v) + k] = u[k]
  <2>1. /\ Len(v) + k \in 1..(Len(v) + Len(u)) /\ ~(Len(v) + k <= Len(v))
        /\ (Len(v) + k) - Len(v) = k
    BY <1>2
  <2> QED
    BY <2>1, <1>1
<1> QED
  BY <1>1, <1>2, <1>3, <1>4 DEF IsJoined

(***************************************************************************)
(* A run goes on where its first part has come to.                         *)
(***************************************************************************)
LEMMA RunInPieces ==
  ASSUME NEW g, NEW root, NEW v \in Seq(Letter), NEW u \in Seq(Letter)
  PROVE  Target(g, root, Follow(v, u)) = Target(g, Target(g, root, v), u)
<1>0. PICK T : T = Target(g, root, v)
  OBVIOUS
<1> DEFINE a == Run(g, root, v)
           b == Run(g, T, u)
<1>1. PICK w : w = Follow(v, u)
  OBVIOUS
<1>2. PICK m : m = Len(v)
  OBVIOUS
<1>3. PICK n : n = Len(u)
  OBVIOUS
<1>w. /\ w \in Seq(Letter) /\ Len(w) = m + n /\ m \in Nat /\ n \in Nat
      /\ \A k \in 1..m : w[k] = v[k]
      /\ \A k \in 1..n : w[m + k] = u[k]
  <2>1. IsJoined(w, v, u)
    BY <1>1, Pieces
  <2> QED
    BY <1>2, <1>3, <2>1 DEF IsJoined
<1>a. /\ a[0] = root /\ \A k \in 1..m : a[k] = GetChild(g, a[k - 1], v[k])
      /\ T = a[m]
  <2>1. Len(v) \in Nat
    BY LenProperties
  <2>2. /\ a[0] = root /\ \A k \in 1..Len(v) : a[k] = GetChild(g, a[k - 1], v[k])
    BY <2>1, RunStep
  <2> QED
    BY <1>0, <1>2, <2>2 DEF Target
<1>b. /\ b[0] = T /\ \A k \in 1..n : b[k] = GetChild(g, b[k - 1], u[k])
  <2>1. Len(u) \in Nat
    BY LenProperties
  <2>2. /\ b[0] = T /\ \A k \in 1..Len(u) : b[k] = GetChild(g, b[k - 1], u[k])
    BY <2>1, RunStep
  <2> QED
    BY <1>3, <2>2
<1> HIDE DEF a, b
<1> DEFINE h == [k \in 0..(m + n) |-> IF k <= m THEN a[k] ELSE b[k - m]]
<1>4. ASSUME NEW k \in 1..(m + n)
      PROVE  h[k] = GetChild(g, h[k - 1], w[k])
  <2>1. CASE k <= m
    <3>1. k \in 1..m /\ k - 1 \in 0..(m + n) /\ k - 1 <= m /\ k \in 0..(m + n)
      BY <2>1, <1>w
    <3>2. h[k] = a[k] /\ h[k - 1] = a[k - 1]
      BY <3>1, <2>1
    <3> HIDE DEF h
    <3> QED
      BY <3>1, <3>2, <1>a, <1>w
  <2>2. CASE k > m
    <3>1. /\ k - m \in 1..n /\ k - 1 \in 0..(m + n) /\ m + (k - m) = k
          /\ k \in 0..(m + n) /\ ~(k <= m)
      BY <2>2, <1>w
    <3>2. h[k] = b[k - m]
      BY <3>1
    <3>3. h[k - 1] = b[(k - m) - 1]
      <4>1. CASE k = m + 1
        <5>1. k - 1 = m /\ (k - m) - 1 = 0 /\ m \in 0..(m + n)
          BY <4>1, <1>w
        <5>2. h[m] = a[m]
          BY <5>1, <1>w
        <5> HIDE DEF h
        <5> QED
          BY <5>1, <5>2, <1>a, <1>b
      <4>2. CASE k # m + 1
        BY <4>2, <2>2, <3>1, <1>w
      <4> QED
        BY <4>1, <4>2
    <3> HIDE DEF h
    <3>4. b[k - m] = GetChild(g, b[(k - m) - 1], u[k - m])
      BY <3>1, <1>b
    <3>5. w[k] = u[k - m]
      <4>1. w[m + (k - m)] = u[k - m]
        BY <3>1, <1>w
      <4> QED
        BY <4>1, <3>1
    <3> QED
      BY <3>2, <3>3, <3>4, <3>5
  <2> QED
    BY <2>1, <2>2, <1>w
<1>5. h[0] = root
  BY <1>w, <1>a
<1>6. h[m + n] = b[n]
  <2>1. CASE n = 0
    BY <2>1, <1>w, <1>a, <1>b
  <2>2. CASE n # 0
    BY <2>2, <1>w
  <2> QED
    BY <2>1, <2>2
<1> HIDE DEF h
<1>7. Follows(h, g, root, w, m + n)
  BY <1>4, <1>5, <1>w DEF Follows
<1>8. Run(g, root, w)[m + n] = h[m + n]
  <2>1. m + n \in 0..(m + n) /\ Len(w) \in Nat
    BY <1>w
  <2> QED
    BY <2>1, <1>7, RunUnique
<1> QED
  BY <1>0, <1>1, <1>3, <1>6, <1>8, <1>w DEF Target, b

LEMMA OneLetter ==
  ASSUME NEW g, NEW root, NEW l \in Letter
  PROVE  <<l>> \in Seq(Letter) /\ Len(<<l>>) = 1
         /\ Target(g, root, <<l>>) = GetChild(g, root, l)
<1>1. <<l>> \in Seq(Letter) /\ Len(<<l>>) = 1 /\ <<l>>[1] = l
  OBVIOUS
<1>2. PICK w : w = <<l>>
  OBVIOUS
<1>3. Len(w) \in Nat
  BY <1>1, <1>2
<1>4. /\ Run(g, root, w)[0] = root
      /\ \A k \in 1..Len(w) : Run(g, root, w)[k] = GetChild(g, Run(g, root, w)[k - 1], w[k])
  BY <1>3, RunStep
<1>5. Len(w) = 1 /\ w[1] = l
  BY <1>1, <1>2
<1>6. Run(g, root, w)[1] = GetChild(g, root, l)
  BY <1>4, <1>5
<1> QED
  BY <1>1, <1>2, <1>6, <1>5 DEF Target

LEMMA NoLetter ==
  ASSUME NEW g, NEW e, NEW root
  PROVE  <<>> \in Seq(Letter) /\ Len(<<>>) = 0 /\ Target(g, root, <<>>) = root
         /\ (root # NULL => (Accepts(g, e, root, <<>>) <=> e[root]))
<1>1. <<>> \in Seq(Letter) /\ Len(<<>>) = 0
  OBVIOUS
<1>2. Target(g, root, <<>>) = root
  BY <1>1, RunStep DEF Target
<1> QED
  BY <1>1, <1>2, Zenon DEF Accepts

LEMMA AcceptsInPieces ==
  ASSUME NEW g, NEW e, NEW root, NEW v \in Seq(Letter), NEW u \in Seq(Letter)
  PROVE  Accepts(g, e, root, Follow(v, u)) <=> Accepts(g, e, Target(g, root, v), u)
BY RunInPieces DEF Accepts

-----------------------------------------------------------------------------
(***************************************************************************)
(* What the nodes accept are ends of words                                 *)
(***************************************************************************)

(***************************************************************************)
(* Nothing leaks, so some letters lead to every node.                      *)
(***************************************************************************)
LEMMA NodeReached ==
  ASSUME TypeOK, NoDangling, NoLeak, NEW n \in live
  PROVE  \E v \in Seq(Letter) : Target(next, q0, v) = n
<1> DEFINE S == {m \in live : \E v \in Seq(Letter) : Target(next, q0, v) = m}
<1>1. q0 # NULL => q0 \in S
  <2>1. <<>> \in Seq(Letter) /\ Target(next, q0, <<>>) = q0
    BY NoLetter
  <2> QED
    BY <2>1 DEF NoDangling
<1>2. ASSUME NEW m \in S, NEW l \in Letter, next[m][l] # NULL
      PROVE  next[m][l] \in S
  <2>1. PICK v \in Seq(Letter) : Target(next, q0, v) = m
    OBVIOUS
  <2>2. m # NULL /\ next[m][l] \in live
    BY <1>2, NullAssumption DEF NoDangling, TypeOK
  <2>3. PICK u : u = <<l>>
    OBVIOUS
  <2>4. u \in Seq(Letter) /\ Target(next, m, u) = GetChild(next, m, l)
    BY <2>3, OneLetter
  <2>5. Target(next, q0, Follow(v, u)) = next[m][l]
    BY <2>1, <2>2, <2>4, RunInPieces DEF GetChild
  <2>6. Follow(v, u) \in Seq(Letter)
    BY <2>4, Pieces DEF IsJoined
  <2> QED
    BY <2>2, <2>5, <2>6
<1>3. S \in ClosedSets(next, q0, live)
  <2> HIDE DEF S
  <2>1. S \in SUBSET live
    BY DEF S
  <2> QED
    BY <2>1, <1>1, <1>2 DEF ClosedSets
<1>4. live \subseteq S
  <2>1. live = Reachable(next, q0, live)
    BY DEF NoLeak
  <2> QED
    BY <2>1, <1>3, AllReached
<1> QED
  BY <1>4

WordsAdded == \A w \in Seq(Letter) : Accepts(next, eow, q0, w) => w \in Word

LEMMA NextWordsAdded ==
  ASSUME Summarized, WordsAdded, [Next]_vars
  PROVE  WordsAdded'
<1>0. Consistent /\ InOrder
  BY DEF Summarized
<1>1. CASE Unseen
  BY <1>0, <1>1, UnseenWords DEF WordsAdded
<1>2. CASE (\E w \in Word : RejectLess(w) \/ RejectFrozen(w)) \/ CloseNothing \/ EndClose
  <2>1. UNCHANGED <<q0, next, eow>>
    BY <1>2 DEF RejectLess, RejectFrozen, CloseNothing, EndClose, graph
  <2> QED
    BY <2>1, SameGraphRunsKept DEF WordsAdded
<1>3. CASE Clear
  <2>1. q0' = NULL
    BY <1>3 DEF Clear
  <2> QED
    BY <2>1, NoRootNoWord DEF WordsAdded
<1>4. CASE EndAdd
  BY <1>0, <1>4, EndAddIsAdded, MarkedWords, MarkedLang DEF Added, WordsAdded
<1> QED
  BY <1>1, <1>2, <1>3, <1>4 DEF Next, Call, Step, Unseen

(***************************************************************************)
(* The rest of a word behind some of its letters is among what is observed.*)
(***************************************************************************)
LEMMA RestOfWord ==
  ASSUME NEW v \in Seq(Letter), NEW u \in Seq(Letter), Follow(v, u) \in Word
  PROVE  u \in Universe
<1>1. PICK w : w = Follow(v, u)
  OBVIOUS
<1>2. IsJoined(w, v, u)
  BY <1>1, Pieces
<1>3. PICK m : m = Len(v)
  OBVIOUS
<1>4. PICK n : n = Len(u)
  OBVIOUS
<1>5. /\ w \in Seq(Letter) /\ Len(w) = m + n /\ m \in Nat /\ n \in Nat
      /\ \A k \in 1..n : u[k] = w[m + k]
  BY <1>2, <1>3, <1>4 DEF IsJoined
<1>6. PICK t : t = SubSeq(w, m + 1, Len(w))
  OBVIOUS
<1>7. /\ t \in Seq(Letter) /\ Len(t) = n
      /\ \A k \in 1..n : t[k] = w[m + k]
  <2>1. m + 1 \in 1..(Len(w) + 1) /\ Len(w) \in 0..Len(w) /\ Len(w) - (m + 1) + 1 = n
    BY <1>5
  <2>2. /\ t \in Seq(Letter)
        /\ Len(t) = IF m + 1 <= Len(w) THEN Len(w) - (m + 1) + 1 ELSE 0
        /\ \A k \in 1..(Len(w) - (m + 1) + 1) : t[k] = w[(m + 1) + k - 1]
    BY <1>5, <1>6, <2>1, SubSeqProperties
  <2>3. Len(t) = n
    BY <2>1, <2>2, <1>5
  <2>4. \A k \in 1..n : (m + 1) + k - 1 = m + k
    BY <1>5
  <2> QED
    BY <2>1, <2>2, <2>3, <2>4
<1>8. t = u
  BY <1>4, <1>5, <1>7, SeqEqual
<1>9. t \in Universe
  <2>1. w \in Word /\ m \in 0..Len(w)
    BY <1>1, <1>5
  <2>2. SubSeq(w, m + 1, Len(w)) \in Universe
    BY <2>1, SuffixAssumption
  <2> QED
    BY <2>2, <1>6
<1> QED
  BY <1>8, <1>9

LEMMA NodeAccepts ==
  ASSUME TypeOK, NoDangling, NoLeak, WordsAdded, NEW n \in live, NEW u \in Seq(Letter),
         Accepts(next, eow, n, u)
  PROVE  u \in RightLanguage(n)
<1>1. PICK v \in Seq(Letter) : Target(next, q0, v) = n
  BY NodeReached
<1>2. Accepts(next, eow, q0, Follow(v, u))
  BY <1>1, AcceptsInPieces
<1>3. Follow(v, u) \in Seq(Letter)
  BY Pieces DEF IsJoined
<1>4. u \in Universe
  BY <1>2, <1>3, RestOfWord DEF WordsAdded
<1> QED
  BY <1>4 DEF RightLanguage

-----------------------------------------------------------------------------
(***************************************************************************)
(* Nodes without twins accept different words                              *)
(***************************************************************************)

Lives(g, e, n) == \E u \in Seq(Letter) : Accepts(g, e, n, u)

LEMMA FirstLetterThenRest ==
  ASSUME NEW g, NEW e, NEW n, n # NULL, NEW l \in Letter, NEW u \in Seq(Letter)
  PROVE  \E w \in Seq(Letter) :
           /\ Len(w) = 1 + Len(u) /\ Target(g, n, w) = Target(g, g[n][l], u)
           /\ Accepts(g, e, n, w) <=> Accepts(g, e, g[n][l], u)
<1>1. PICK v : v = <<l>>
  OBVIOUS
<1>2. v \in Seq(Letter) /\ Len(v) = 1 /\ Target(g, n, v) = g[n][l]
  BY <1>1, OneLetter DEF GetChild
<1>3. PICK w : w = Follow(v, u)
  OBVIOUS
<1>4. w \in Seq(Letter) /\ Len(w) = 1 + Len(u)
  <2>1. v \in Seq(Letter)
    BY <1>2
  <2>2. IsJoined(w, v, u)
    BY <2>1, <1>3, Pieces
  <2> QED
    BY <2>2, <1>2 DEF IsJoined
<1>5. Target(g, n, w) = Target(g, g[n][l], u)
  BY <1>2, <1>3, RunInPieces
<1>6. Accepts(g, e, n, w) <=> Accepts(g, e, g[n][l], u)
  BY <1>2, <1>3, AcceptsInPieces
<1> QED
  BY <1>4, <1>5, <1>6

LEMMA ParentLives ==
  ASSUME NEW g, NEW e, NEW n, n # NULL, NEW l \in Letter, Lives(g, e, g[n][l])
  PROVE  Lives(g, e, n)
BY FirstLetterThenRest DEF Lives

AllLive(g, e, D) == \A n \in D : Lives(g, e, n)

NoTwins(g, e, D) == \A p, q \in D : e[p] = e[q] /\ g[p] = g[q] => p = q

PathsWithin(g, n, m) == \A u \in Seq(Letter) : Target(g, n, u) # NULL => Len(u) <= m

SameWordsAt(g, e, p, q) ==
  \A u \in Seq(Letter) : Accepts(g, e, p, u) <=> Accepts(g, e, q, u)

(***************************************************************************)
(* What the children of nodes with the same words have in common.          *)
(***************************************************************************)
LEMMA SameWordsBelow ==
  ASSUME NEW g, NEW e, NEW p, NEW q, p # NULL, q # NULL, NEW l \in Letter,
         SameWordsAt(g, e, p, q)
  PROVE  SameWordsAt(g, e, g[p][l], g[q][l])
<1> SUFFICES ASSUME NEW u \in Seq(Letter)
             PROVE  Accepts(g, e, g[p][l], u) <=> Accepts(g, e, g[q][l], u)
  BY DEF SameWordsAt
<1>1. PICK v : v = <<l>>
  OBVIOUS
<1>2. /\ v \in Seq(Letter) /\ Target(g, p, v) = g[p][l] /\ Target(g, q, v) = g[q][l]
  BY <1>1, OneLetter DEF GetChild
<1>3. Follow(v, u) \in Seq(Letter)
  BY <1>2, Pieces DEF IsJoined
<1> QED
  BY <1>2, <1>3, AcceptsInPieces DEF SameWordsAt

(***************************************************************************)
(* In a set of nodes D closed under children, where every node accepts a   *)
(* word and equivalent nodes are equal, nodes with the same words are      *)
(* equal: by induction on the length of their paths.                       *)
(***************************************************************************)
LEMMA NodesDiffer ==
  ASSUME NEW g, NEW e, NEW D, NEW B \in Nat,
         g \in [Node -> [Letter -> Node \cup {NULL}]], e \in [Node -> BOOLEAN],
         D \subseteq Node,
         \A n \in D, l \in Letter : g[n][l] \in D \cup {NULL},
         AllLive(g, e, D), NoTwins(g, e, D),
         \A n \in D : PathsWithin(g, n, B),
         NEW p0 \in D, NEW q0a \in D, SameWordsAt(g, e, p0, q0a)
  PROVE  p0 = q0a
<1> SUFFICES ASSUME p0 # q0a PROVE FALSE
  OBVIOUS
<1> DEFINE Twins(m, p, q) == PathsWithin(g, p, m) /\ SameWordsAt(g, e, p, q) /\ p # q
           S == {m \in Nat : \E p, q \in D : Twins(m, p, q)}
<1>1. B \in S
  OBVIOUS
<1>2. PICK m \in S : \A y \in S : m <= y
  <2>1. S \subseteq Nat /\ S # {}
    BY <1>1
  <2> HIDE DEF S
  <2> QED
    BY <2>1, LeastNatural
<1>3. PICK p \in D, q \in D : Twins(m, p, q)
  BY <1>2
<1>4. m \in Nat /\ \A k \in Nat : k < m => \A a, b \in D : ~Twins(k, a, b)
  <2>1. m \in Nat
    BY <1>2
  <2>2. ASSUME NEW k \in Nat, k < m, NEW a \in D, NEW b \in D, Twins(k, a, b) PROVE FALSE
    <3>1. k \in S
      BY <2>2
    <3> HIDE DEF S
    <3> QED
      BY <3>1, <2>1, <2>2, <1>2
  <2> QED
    BY <2>1, <2>2
<1> HIDE DEF S
<1>5. p \in Node /\ q \in Node /\ p # NULL /\ q # NULL
  BY NullAssumption
<1>6. SameWordsAt(g, e, p, q) /\ PathsWithin(g, p, m) /\ p # q
  BY <1>3
<1>7. e[p] = e[q]
  <2>1. PICK u : u = <<>>
    OBVIOUS
  <2>2. u \in Seq(Letter)
    BY <2>1, NoLetter
  <2>3. (Accepts(g, e, p, u) <=> e[p]) /\ (Accepts(g, e, q, u) <=> e[q])
    BY <2>1, <1>5, NoLetter
  <2>4. Accepts(g, e, p, u) <=> Accepts(g, e, q, u)
    BY <2>2, <1>6 DEF SameWordsAt
  <2>5. e[p] \in BOOLEAN /\ e[q] \in BOOLEAN
    BY <1>5
  <2>6. e[p] <=> e[q]
    BY <2>3, <2>4, Zenon
  <2>7. CASE e[p]
    <3>1. e[p] = TRUE /\ e[q] = TRUE
      BY <2>5, <2>6, <2>7
    <3> QED
      BY <3>1
  <2>8. CASE ~e[p]
    <3>1. e[p] = FALSE /\ e[q] = FALSE
      BY <2>5, <2>6, <2>8
    <3> QED
      BY <3>1
  <2> QED
    BY <2>7, <2>8
<1>8. ASSUME NEW l \in Letter PROVE g[p][l] = g[q][l]
  <2>1. SameWordsAt(g, e, g[p][l], g[q][l])
    BY <1>5, <1>6, SameWordsBelow
  <2>2. g[p][l] \in D \cup {NULL} /\ g[q][l] \in D \cup {NULL}
    OBVIOUS
  <2>3. ASSUME NEW n \in D PROVE ~SameWordsAt(g, e, n, NULL) /\ ~SameWordsAt(g, e, NULL, n)
    <3>1. PICK u \in Seq(Letter) : Accepts(g, e, n, u)
      BY DEF AllLive, Lives
    <3>2. ~Accepts(g, e, NULL, u)
      BY NoRootNoWord
    <3> QED
      BY <3>1, <3>2 DEF SameWordsAt
  <2>4. CASE g[p][l] = NULL \/ g[q][l] = NULL
    BY <2>1, <2>2, <2>3, <2>4
  <2>5. CASE g[p][l] # NULL /\ g[q][l] # NULL
    <3>1. PICK c : c = g[p][l]
      OBVIOUS
    <3>2. PICK d : d = g[q][l]
      OBVIOUS
    <3>3. c \in D /\ d \in D /\ SameWordsAt(g, e, c, d)
      BY <3>1, <3>2, <2>1, <2>2, <2>5
    <3>4. ASSUME NEW u \in Seq(Letter), Target(g, c, u) # NULL
          PROVE  1 <= m /\ Len(u) <= m - 1
      <4>0. \E w \in Seq(Letter) :
              /\ Len(w) = 1 + Len(u) /\ Target(g, p, w) = Target(g, g[p][l], u)
              /\ Accepts(g, e, p, w) <=> Accepts(g, e, g[p][l], u)
        BY <1>5, FirstLetterThenRest
      <4>1. PICK w \in Seq(Letter) : Len(w) = 1 + Len(u) /\ Target(g, p, w) = Target(g, c, u)
        BY <3>1, <4>0, Zenon
      <4>2. Len(w) <= m
        BY <4>1, <3>4, <1>6 DEF PathsWithin
      <4>3. Len(u) \in Nat
        BY LenProperties
      <4> QED
        BY <4>1, <4>2, <4>3, <1>4
    <3>5. 1 <= m
      <4>1. PICK u \in Seq(Letter) : Accepts(g, e, c, u)
        BY <3>3 DEF AllLive, Lives
      <4>2. Target(g, c, u) # NULL
        BY <4>1 DEF Accepts
      <4> QED
        BY <3>4, <4>2
    <3>6. m - 1 \in Nat /\ m - 1 < m
      BY <3>5, <1>4
    <3>7. PathsWithin(g, c, m - 1)
      BY <3>4 DEF PathsWithin
    <3>8. ~Twins(m - 1, c, d)
      BY <3>3, <3>6, <1>4
    <3> QED
      BY <3>1, <3>2, <3>3, <3>7, <3>8
  <2> QED
    BY <2>4, <2>5
<1>9. g[p] = g[q]
  <2>1. g[p] \in [Letter -> Node \cup {NULL}] /\ g[q] \in [Letter -> Node \cup {NULL}]
    BY <1>5
  <2> QED
    BY <2>1, <1>8
<1> QED
  BY <1>6, <1>7, <1>9, Zenon DEF NoTwins

(***************************************************************************)
(* Where a word leads depends on the first node by its edges only.         *)
(***************************************************************************)
LEMMA SameFirstStep ==
  ASSUME NEW g, NEW p, NEW q, \A l \in Letter : GetChild(g, p, l) = GetChild(g, q, l),
         NEW w \in Seq(Letter), Len(w) # 0
  PROVE  Target(g, p, w) = Target(g, q, w)
<1>1. PICK m : m = Len(w)
  OBVIOUS
<1>2. m \in Nat /\ m # 0 /\ \A k \in 1..m : w[k] \in Letter
  BY <1>1, ElementOfSeq, LenProperties
<1>3. PICK b : b = Run(g, q, w)
  OBVIOUS
<1>4. b[0] = q /\ \A k \in 1..m : b[k] = GetChild(g, b[k - 1], w[k])
  BY <1>1, <1>2, <1>3, RunStep
<1> DEFINE h == [k \in 0..m |-> IF k = 0 THEN p ELSE b[k]]
<1>5. h[0] = p /\ \A k \in 1..m : h[k] = b[k]
  BY <1>2
<1>6. ASSUME NEW k \in 1..m PROVE h[k] = GetChild(g, h[k - 1], w[k])
  <2>1. h[k] = b[k] /\ b[k] = GetChild(g, b[k - 1], w[k]) /\ w[k] \in Letter
    BY <1>2, <1>4, <1>5
  <2>2. CASE k = 1
    <3>1. k - 1 = 0
      BY <2>2
    <3> HIDE DEF h
    <3> QED
      BY <2>1, <3>1, <1>4, <1>5
  <2>3. CASE k # 1
    <3>1. k - 1 \in 1..m
      BY <2>3, <1>2
    <3> HIDE DEF h
    <3> QED
      BY <2>1, <3>1, <1>5
  <2> QED
    BY <2>2, <2>3
<1> HIDE DEF h
<1>7. Follows(h, g, p, w, m)
  BY <1>1, <1>2, <1>5, <1>6 DEF Follows
<1>8. Run(g, p, w)[m] = h[m]
  <2>1. m \in 0..m /\ Len(w) \in Nat
    BY <1>1, <1>2
  <2> QED
    BY <2>1, <1>7, RunUnique
<1>9. m \in 1..m
  BY <1>2
<1> QED
  BY <1>1, <1>3, <1>5, <1>8, <1>9 DEF Target

(***************************************************************************)
(* No path leads back to where it started: there would be paths of any     *)
(* length.                                                                 *)
(***************************************************************************)
LEMMA NoCycle ==
  ASSUME TypeOK, NoDangling, NoLeak, PathsShort, pc # "suffix",
         NEW r \in live, NEW u \in Seq(Letter), Target(next, r, u) = r
  PROVE  Len(u) = 0
<1> SUFFICES ASSUME Len(u) # 0 PROVE FALSE
  OBVIOUS
<1>0. r # NULL /\ longest_word \in Nat /\ Len(u) \in Nat
  BY NullAssumption, LenProperties DEF TypeOK
<1> DEFINE Away(v, k) == v \in Seq(Letter) /\ Target(next, q0, v) = r /\ longest_word - Len(v) = k
           S == {k \in Nat : \E v : Away(v, k)}
<1>1. ASSUME NEW v \in Seq(Letter), Target(next, q0, v) = r
      PROVE  Len(v) \in Nat /\ longest_word - Len(v) \in S
  <2>1. Len(v) \in Nat
    BY LenProperties
  <2>2. Len(v) <= longest_word
    BY <1>0, <1>1 DEF PathsShort
  <2>3. longest_word - Len(v) \in Nat
    BY <2>1, <2>2, <1>0
  <2> QED
    BY <2>1, <2>3, <1>1
<1>2. S # {} /\ S \subseteq Nat
  BY <1>1, NodeReached
<1>3. PICK k \in S : \A y \in S : k <= y
  <2> HIDE DEF S
  <2> QED
    BY <1>2, LeastNatural
<1>4. PICK v \in Seq(Letter) : Target(next, q0, v) = r /\ longest_word - Len(v) = k
  BY <1>3
<1> HIDE DEF S
<1>5. PICK w : w = Follow(v, u)
  OBVIOUS
<1>6. w \in Seq(Letter) /\ Len(w) = Len(v) + Len(u)
  BY <1>5, Pieces DEF IsJoined
<1>7. Target(next, q0, w) = r
  BY <1>4, <1>5, RunInPieces
<1>8. longest_word - Len(w) \in S
  BY <1>1, <1>6, <1>7
<1>9. k <= longest_word - Len(w)
  BY <1>3, <1>8
<1>10. Len(v) \in Nat /\ longest_word - Len(v) = k
  BY <1>4, LenProperties
<1> QED
  BY <1>0, <1>6, <1>9, <1>10

(***************************************************************************)
(* Nothing that the root leads to has the edges of the root: what leads to *)
(* it would lead back to it.                                               *)
(***************************************************************************)
LEMMA RootHasNoTwin ==
  ASSUME Consistent, PathsShort, pc # "suffix", NEW r \in live, r # q0
  PROVE  next[r] # next[q0]
<1> SUFFICES ASSUME next[r] = next[q0] PROVE FALSE
  OBVIOUS
<1>0. /\ r # NULL /\ q0 # NULL /\ TypeOK /\ NoDangling /\ NoLeak
  BY NullAssumption DEF Consistent, ObjectState, TypeOK
<1>1. PICK v \in Seq(Letter) : Target(next, q0, v) = r
  BY <1>0, NodeReached
<1>2. Len(v) # 0
  <2>1. SUFFICES ASSUME Len(v) = 0 PROVE FALSE
    OBVIOUS
  <2>2. v = <<>>
    BY <2>1, EmptySeq
  <2> QED
    BY <2>2, <1>1, NoLetter
<1>3. Target(next, r, v) = r
  <2>1. \A l \in Letter : GetChild(next, r, l) = GetChild(next, q0, l)
    BY <1>0 DEF GetChild
  <2>2. Target(next, r, v) = Target(next, q0, v)
    BY <2>1, <1>2, SameFirstStep
  <2> QED
    BY <2>2, <1>1
<1> QED
  BY <1>0, <1>2, <1>3, NoCycle

-----------------------------------------------------------------------------
(***************************************************************************)
(* Why there are no dead ends.  What is registered, or closed, accepts a   *)
(* word, and so does the end of the tail, of which all of the tail is      *)
(* above; a closed DAWG has no equivalent nodes.                           *)
(***************************************************************************)
EmptyPrev == state = "EMPTY" => prev_word = <<>>

FinishedLive == \A n \in live : Registered(n) \/ state = "CLOSED" => Lives(next, eow, n)

EndLives ==
  q0 # NULL /\ state = "ACTIVE" /\ pc # "suffix" =>
    Lives(next, eow, TailNode[Len(TailWord)])

ClosedDiffer == state = "CLOSED" => NoTwins(next, eow, live)

Finished == EmptyPrev /\ FinishedLive /\ EndLives /\ ClosedDiffer

Ready == Summarized /\ RestRegistered /\ WordsAdded /\ Finished

LEMMA NextEmptyPrev ==
  ASSUME EmptyPrev, [Next]_vars
  PROVE  EmptyPrev'
<1>1. CASE UNCHANGED summary
  BY <1>1 DEF summary, EmptyPrev
<1>2. CASE UNCHANGED vars
  BY <1>2 DEF vars, summary, EmptyPrev
<1>3. CASE EndAdd \/ EndClose
  BY <1>3 DEF EndAdd, EndClose, EmptyPrev
<1>4. CASE Clear
  BY <1>4 DEF Clear, NoPrevious, EmptyPrev
<1> QED
  BY <1>1, <1>2, <1>3, <1>4
  DEF Next, Call, Step, AddWord, RejectLess, RejectFrozen, Close, CloseNothing, SkipPrefix,
      EndOfPrefix, Replace, Register, Minimized, AddSuffix

(***************************************************************************)
(* The steps that leave the nodes and the registry alone.                  *)
(***************************************************************************)
Still ==
  \/ \E w \in Word : RejectLess(w) \/ RejectFrozen(w) \/ (AddWord(w) /\ UNCHANGED graph)
  \/ CloseNothing \/ Close \/ SkipPrefix \/ EndOfPrefix \/ Minimized \/ UNCHANGED vars

LEMMA StillTail ==
  ASSUME Consistent, Still, pc' # "suffix"
  PROVE  TailWord' = TailWord /\ pc # "suffix"
<1>w. prev_word \in Seq(Letter) /\ Len(prev_word) \in Nat
  BY LenProperties DEF Consistent, TypeOK
<1>1. CASE \E w \in Word : RejectLess(w) \/ RejectFrozen(w)
  BY <1>1 DEF RejectLess, RejectFrozen, Return, summary, TailWord
<1>2. CASE CloseNothing
  BY <1>2 DEF CloseNothing, Return, summary, TailWord
<1>3. CASE \E w \in Word : AddWord(w)
  BY <1>3 DEF AddWord, summary, TailWord
<1>4. CASE SkipPrefix
  BY <1>4 DEF SkipPrefix, summary, TailWord
<1>5. CASE Minimized
  BY <1>5 DEF Minimized
<1>6. CASE UNCHANGED vars
  BY <1>6 DEF vars, summary, locals, TailWord
<1>7. CASE EndOfPrefix
  <2>1. /\ pc = "skip" /\ pc' = "minimize" /\ stack' = StackOf(cur, prev_word, i)
        /\ i' = i /\ prev_word' = prev_word
    BY <1>7 DEF EndOfPrefix, summary
  <2>2. /\ q0 # NULL /\ state # "CLOSED" /\ TailWord = prev_word
        /\ i \in Nat /\ i <= Len(prev_word) /\ cur = TailNode[i]
    BY <2>1, AtPrefix
  <2>3. Len(stack') = Len(prev_word) - i
    BY <2>1, <2>2, StackIsTail
  <2>4. i + (Len(prev_word) - i) = Len(prev_word)
    BY <2>2, <1>w
  <2>5. TailWord' = SubSeq(prev_word, 1, Len(prev_word))
    BY <2>1, <2>3, <2>4 DEF TailWord
  <2> QED
    BY <2>1, <2>2, <2>5, <1>w, SubSeqFull
<1>8. CASE Close
  <2>1. /\ pc = "idle" /\ q0 # NULL /\ pc' = "minimize" /\ stack' = StackOf(q0, prev_word, 0)
        /\ i' = i /\ prev_word' = prev_word
    BY <1>8 DEF Close, summary
  <2>2. i = 0 /\ TailWord = prev_word
    BY <2>1 DEF Consistent, CallState, TailWord
  <2>3. CASE state = "CLOSED"
    <3>1. prev_word = <<>>
      BY <2>3 DEF Consistent, ObjectState
    <3>2. TailWord' = SubSeq(prev_word, 1, 0 + Len(stack'))
      BY <2>1, <2>2 DEF TailWord
    <3>3. stack' = <<>>
      <4> DEFINE run == Run(next, q0, SubSeq(prev_word, 1, 0))
                 item(k) == [parent |-> run[k - 1], label |-> prev_word[0 + k], child |-> run[k]]
      <4>1. Len(prev_word) = 0 /\ Len(prev_word) - 0 = 0
        BY <3>1
      <4>2. stack' = [k \in 1..0 |-> item(k)]
        BY <2>1, <4>1 DEF StackOf
      <4> HIDE DEF item
      <4> QED
        BY <4>2
    <3>4. TailWord' = SubSeq(prev_word, 1, Len(prev_word))
      BY <3>1, <3>2, <3>3
    <3> QED
      BY <2>1, <2>2, <3>4, <1>w, SubSeqFull
  <2>4. CASE state # "CLOSED"
    <3>1. q0 = TailNode[0] /\ 0 \in Nat /\ 0 <= Len(prev_word)
      BY <2>1, <2>4, <1>w, TailFacts
    <3>2. Len(stack') = Len(prev_word) - 0
      BY <2>1, <2>2, <2>4, <3>1, StackIsTail
    <3>3. 0 + (Len(prev_word) - 0) = Len(prev_word)
      BY <1>w
    <3>4. TailWord' = SubSeq(prev_word, 1, Len(prev_word))
      BY <2>1, <2>2, <3>2, <3>3 DEF TailWord
    <3> QED
      BY <2>1, <2>2, <3>4, <1>w, SubSeqFull
  <2> QED
    BY <2>3, <2>4
<1> QED
  BY <1>1, <1>2, <1>3, <1>4, <1>5, <1>6, <1>7, <1>8 DEF Still

LEMMA StillFinished ==
  ASSUME Consistent, Finished, Still, EmptyPrev'
  PROVE  Finished'
<1>1. UNCHANGED <<q0, next, eow, live, reg, state>>
  BY DEF Still, RejectLess, RejectFrozen, AddWord, CloseNothing, Close, SkipPrefix, EndOfPrefix,
         Minimized, vars, graph, registry, summary
<1>2. FinishedLive' /\ ClosedDiffer'
  BY <1>1 DEF Finished, FinishedLive, ClosedDiffer, Registered
<1>3. EndLives'
  <2> SUFFICES ASSUME q0 # NULL, state = "ACTIVE", pc' # "suffix"
               PROVE  Lives(next, eow, TailNode'[Len(TailWord')])
    BY <1>1 DEF EndLives
  <2>1. TailWord' = TailWord /\ pc # "suffix"
    BY StillTail
  <2>2. TailNode' = TailNode
    BY <2>1, <1>1 DEF TailNode
  <2> QED
    BY <2>1, <2>2 DEF Finished, EndLives
<1> QED
  BY <1>2, <1>3 DEF Finished

(***************************************************************************)
(* The first root: nothing is registered yet.                              *)
(***************************************************************************)
LEMMA NewRootFinished ==
  ASSUME Consistent, NEW w \in Word, AddWord(w), q0 = NULL, EmptyPrev'
  PROVE  Finished'
<1>1. reg' = {} /\ state' = "EMPTY"
  BY DEF AddWord, registry, summary, Consistent, ObjectState
<1> QED
  BY <1>1 DEF Finished, FinishedLive, EndLives, ClosedDiffer, Registered

(***************************************************************************)
(* Replacing and registering keep what the nodes accept, and the parent of *)
(* a node that accepts a word does.                                        *)
(***************************************************************************)
LEMMA ActiveTail ==
  ASSUME Consistent, EmptyPrev, EndLives, pc = "minimize", stack # <<>>
  PROVE  state = "ACTIVE" /\ Lives(next, eow, stack[Len(stack)].child)
<1>1. /\ q0 # NULL /\ state # "CLOSED" /\ Len(TailWord) \in Nat /\ Len(TailWord) > 0
      /\ Len(TailWord) <= Len(prev_word)
      /\ stack[Len(stack)].child = TailNode[Len(TailWord)]
  BY TopOfStack
<1>2. prev_word # <<>>
  <2>1. ~(Len(prev_word) = 0)
    <3>1. Len(prev_word) \in Nat
      BY LenProperties DEF Consistent, TypeOK
    <3> QED
      BY <3>1, <1>1
  <2> QED
    BY <2>1, EmptySeq
<1>3. state = "ACTIVE"
  BY <1>1, <1>2 DEF EmptyPrev, Consistent, TypeOK
<1> QED
  BY <1>1, <1>3 DEF EndLives

LEMMA RegisterFinished ==
  ASSUME Consistent, Finished, Register, EmptyPrev'
  PROVE  Finished'
<1> DEFINE child == stack[Len(stack)].child
           parent == stack[Len(stack)].parent
           label == stack[Len(stack)].label
           L == Len(TailWord)
<1>1. /\ pc = "minimize" /\ stack # <<>> /\ UNCHANGED <<q0, next, eow, live, state>>
      /\ reg' = reg \cup {Entry(child, eow, next)} /\ stack' = Popped
      /\ UNCHANGED <<q0, prev_word, pc, i>>
  BY DEF Register, graph, summary
<1>2. state = "ACTIVE" /\ Lives(next, eow, child)
  BY <1>1, ActiveTail DEF Finished
<1>3. /\ q0 # NULL /\ L \in Nat /\ L > 0 /\ parent = TailNode[L - 1] /\ child = TailNode[L]
      /\ label = TailWord[L]
  BY <1>1, TopOfStack
<1>4. FinishedLive'
  <2> SUFFICES ASSUME NEW n \in live, Registered(n)' PROVE Lives(next, eow, n)
    BY <1>1, <1>2 DEF FinishedLive, Registered
  <2>1. Registered(n) \/ n = child
    BY <1>1 DEF Registered, Entry
  <2> QED
    BY <2>1, <1>2 DEF Finished, FinishedLive
<1>5. EndLives'
  <2>1. /\ Len(TailWord') = L - 1 /\ TailNode'[L - 1] = TailNode[L - 1]
    <3>1. /\ Len(TailWord') = L - 1 /\ \A k \in 0..(L - 1) : TailNode'[k] = TailNode[k]
      BY <1>1, PoppedTail
    <3>2. L - 1 \in 0..(L - 1)
      BY <1>3
    <3> QED
      BY <3>1, <3>2
  <2>2. parent # NULL /\ next[parent][label] = child /\ label \in Letter
    <3>1. q0 # NULL /\ state # "CLOSED" /\ label \in Letter /\ parent \in Node
      BY <1>1, TopOfStack
    <3>2. L \in 1..L
      BY <1>3
    <3>3. TailNode[L] = next[TailNode[L - 1]][TailWord[L]]
      BY <3>1, <3>2, TailFacts
    <3> QED
      BY <3>1, <3>3, <1>3, NullAssumption
  <2> HIDE DEF child, parent, label
  <2>3. Lives(next, eow, parent)
    BY <1>2, <2>2, ParentLives
  <2> QED
    BY <2>1, <2>3, <1>1, <1>3 DEF EndLives
<1>6. ClosedDiffer'
  BY <1>1, <1>2 DEF ClosedDiffer
<1> QED
  BY <1>4, <1>5, <1>6 DEF Finished

LEMMA ReplaceFinished ==
  ASSUME Consistent, Finished, Replace, EmptyPrev'
  PROVE  Finished'
<1> DEFINE item == stack[Len(stack)]
           child == item.child
           parent == item.parent
           label == item.label
           L == Len(TailWord)
<1>1. /\ pc = "minimize" /\ stack # <<>> /\ stack' = Popped
      /\ UNCHANGED <<q0, prev_word, pc, i, state>>
  BY DEF Replace, summary
<1>2. PICK r \in Lookup(child) :
        /\ reg' = Rekeyed(parent, Redirected(item, r))
        /\ next' = [Redirected(item, r) EXCEPT ![child] = NoEdges]
        /\ live' = live \ {child}
  BY DEF Replace, WithoutNode
<1>3. /\ r \in live /\ r # child /\ r # parent /\ Registered(r) /\ reg' = reg
      /\ \A k \in 0..(L - 1) : TailNode[k] # child
      /\ \A k \in 0..(L - 2) : TailNode[k] # parent
  <2>1. Registered(r)
    BY <1>2 DEF Lookup, Registered
  <2> QED
    BY <2>1, <1>1, <1>2, ReplaceFacts
<1>4. state = "ACTIVE"
  BY <1>1, ActiveTail DEF Finished
<1>5. /\ q0 # NULL /\ L \in Nat /\ L > 0 /\ parent = TailNode[L - 1] /\ child = TailNode[L]
      /\ label \in Letter /\ {parent, child} \subseteq live /\ {parent, child} \subseteq Node
      /\ parent # child
  BY <1>1, TopOfStack
<1>6. RunsKept /\ live' \subseteq live
  BY ReplaceKeepsRuns
<1>7. next \in [Node -> [Letter -> Node \cup {NULL}]]
  BY DEF Consistent, TypeOK
<1>8. ASSUME NEW n \in live', Lives(next, eow, n) PROVE Lives(next', eow', n)
  BY <1>6, <1>8, KeptWords DEF Lives
<1>9. FinishedLive'
  <2> SUFFICES ASSUME NEW n \in live', Registered(n)' PROVE Lives(next', eow', n)
    BY <1>1, <1>4 DEF FinishedLive
  <2>1. Registered(n)
    BY <1>3 DEF Registered
  <2>2. Lives(next, eow, n)
    BY <2>1, <1>6 DEF Finished, FinishedLive
  <2> QED
    BY <2>2, <1>8
<1>10. Lives(next', eow', parent)
  <2>1. r \in live' /\ Lives(next, eow, r)
    BY <1>2, <1>3 DEF Finished, FinishedLive
  <2>2. next'[parent][label] = r
    <3> HIDE DEF item
    <3>1. r \in Node /\ NoEdges \in [Letter -> Node \cup {NULL}]
      BY <1>3 DEF Consistent, TypeOK, NoEdges
    <3> QED
      BY <3>1, <1>2, <1>5, <1>7 DEF Redirected
  <2>3. parent # NULL
    BY <1>5, NullAssumption
  <2>4. Lives(next', eow', next'[parent][label])
    BY <2>1, <2>2, <1>8
  <2> HIDE DEF item
  <2> QED
    BY <2>3, <2>4, <1>5, ParentLives
<1>11. EndLives'
  <2>1. ASSUME NEW k \in 0..(L - 2), NEW l \in Letter
        PROVE  next'[TailNode[k]][l] = next[TailNode[k]][l]
    <3>1. k \in 0..(L - 1) /\ k \in 0..L
      BY <1>5
    <3>2. TailNode[k] \in Node /\ TailNode[k] # parent /\ TailNode[k] # child
      <4>1. state # "CLOSED"
        BY <1>4
      <4>2. TailNode[k] \in Node
        BY <4>1, <3>1, <1>5, TailFacts
      <4> QED
        BY <4>2, <3>1, <1>3
    <3> HIDE DEF item
    <3> QED
      BY <3>2, <1>2, <1>5, <1>7 DEF Redirected
  <2>2. /\ Len(TailWord') = L - 1 /\ \A k \in 0..(L - 1) : TailNode'[k] = TailNode[k]
    BY <1>1, <2>1, PoppedTail
  <2>3. L - 1 \in 0..(L - 1)
    BY <1>5
  <2>4. TailNode'[Len(TailWord')] = parent
    BY <2>2, <2>3, <1>5
  <2> HIDE DEF item
  <2> QED
    BY <2>4, <1>10 DEF EndLives
<1>12. ClosedDiffer'
  BY <1>1, <1>4 DEF ClosedDiffer
<1> QED
  BY <1>9, <1>11, <1>12 DEF Finished

(***************************************************************************)
(* The new node of a suffix is not finished yet.                           *)
(***************************************************************************)
LEMMA AddSuffixFinished ==
  ASSUME Consistent, Finished, AddSuffix, EmptyPrev'
  PROVE  Finished'
<1>1. pc = "suffix" /\ pc' = "suffix" /\ state' = state /\ live' = live \cup {cur'}
      /\ cur' \notin live
  BY NewNode DEF AddSuffix, summary
<1>2. state # "CLOSED"
  BY <1>1 DEF Consistent, ObjectState
<1>3. ASSUME NEW n, Registered(n)' PROVE Registered(n) /\ n \in live
  <2>1. PICK g : reg' = Rekeyed(cur, g)
    BY DEF AddSuffix
  <2>2. \A item \in Rekeyed(cur, g) : \E other \in reg : other.key = item.key
    BY DEF Rekeyed, Entry
  <2>3. Registered(n)
    BY <1>3, <2>1, <2>2 DEF Registered
  <2> QED
    BY <2>3 DEF Consistent, RegistryValid, Registered
<1>4. FinishedLive'
  <2> SUFFICES ASSUME NEW n, Registered(n)' PROVE Lives(next', eow', n)
    BY <1>1, <1>2 DEF FinishedLive
  <2>1. n \in live /\ Lives(next, eow, n)
    BY <1>3 DEF Finished, FinishedLive
  <2> QED
    BY <2>1, AddSuffixWords DEF Lives
<1> QED
  BY <1>1, <1>2, <1>4 DEF Finished, EndLives, ClosedDiffer

(***************************************************************************)
(* The node that the new word ends at is marked, and is the new end of the *)
(* tail.                                                                   *)
(***************************************************************************)
LEMMA EndAddFinished ==
  ASSUME Consistent, Finished, EndAdd, EmptyPrev'
  PROVE  Finished'
<1>1. /\ pc = "suffix" /\ i = Len(word) /\ eow' = [eow EXCEPT ![cur] = TRUE] /\ state' = "ACTIVE"
      /\ prev_word' = word /\ pc' = "idle" /\ UNCHANGED <<q0, next, live, reg>>
  BY DEF EndAdd, Marked, Return, registry
<1>2. eow \in [Node -> BOOLEAN] /\ live \subseteq Node /\ cur \in Node \cup {NULL}
  BY DEF Consistent, TypeOK
<1>3. /\ word \in Seq(Letter) /\ Target(next, q0, word) = cur /\ cur # NULL
  BY EndAddIsAdded, MarkedWords DEF Added
<1>4. FinishedLive'
  <2> SUFFICES ASSUME NEW n \in live, Registered(n) PROVE Lives(next, eow', n)
    BY <1>1 DEF FinishedLive, Registered
  <2>1. PICK u \in Seq(Letter) : Accepts(next, eow, n, u)
    BY DEF Finished, FinishedLive, Lives
  <2>2. Target(next, n, u) \in live \cup {NULL}
    <3>1. NoneLeave(next, n, live)
      BY GraphClosed DEF NoneLeave
    <3>2. Len(u) \in 0..Len(u)
      BY LenProperties
    <3> QED
      BY <3>1, <3>2, RunWithin DEF Target
  <2>3. Accepts(next, eow', n, u)
    BY <2>1, <2>2, <1>1, <1>2 DEF Accepts
  <2> QED
    BY <2>3 DEF Lives
<1>5. EndLives'
  <2>1. TailNode'[Len(TailWord')] = cur
    BY <1>1, <1>3 DEF TailNode, TailWord, Target
  <2>2. eow'[cur]
    BY <1>1, <1>2, <1>3
  <2>3. Lives(next, eow', cur)
    BY <2>2, <1>3, NoLetter DEF Lives
  <2> QED
    BY <2>1, <2>3, <1>1 DEF EndLives
<1> QED
  BY <1>1, <1>4, <1>5 DEF Finished, ClosedDiffer

(***************************************************************************)
(* When the whole tail is minimized only the root is not registered, and   *)
(* nothing else has its edges.                                             *)
(***************************************************************************)
LEMMA EndCloseFinished ==
  ASSUME Consistent, RestRegistered, InOrder, PathsShort, Finished, EndClose, EmptyPrev'
  PROVE  Finished'
<1>1. /\ pc = "minimize" /\ stack = <<>> /\ caller = "close" /\ state' = "CLOSED"
      /\ UNCHANGED <<q0, next, eow, live>>
  BY DEF EndClose, graph
<1>2. CASE state = "CLOSED"
  BY <1>1, <1>2 DEF Finished, FinishedLive, EndLives, ClosedDiffer
<1>3. CASE state # "CLOSED"
  <2>1. state = "ACTIVE" /\ q0 # NULL
    BY <1>1, <1>3 DEF InOrder, Consistent, TypeOK, ObjectState
  <2>2. Len(TailWord) = 0 /\ TailNode[0] = q0
    <3>1. i = 0 /\ Len(stack) = 0
      BY <1>1 DEF Consistent, CallState
    <3>2. Len(TailWord) = i + Len(stack)
      BY <1>1, MinimizeFacts
    <3> QED
      BY <3>1, <3>2, <1>3, <2>1, TailFacts
  <2>3. ASSUME NEW n \in live, n # q0 PROVE Registered(n)
    <3>1. ~Registered(n) => \E k \in 0..Len(TailWord) : n = TailNode[k]
      BY <1>3, <2>1 DEF RestRegistered
    <3> QED
      BY <3>1, <2>2, <2>3
  <2>4. ASSUME NEW n \in live PROVE Lives(next, eow, n)
    <3>1. CASE n = q0
      BY <3>1, <2>1, <2>2, <1>1 DEF Finished, EndLives
    <3>2. CASE n # q0
      BY <3>2, <2>3 DEF Finished, FinishedLive
    <3> QED
      BY <3>1, <3>2
  <2>5. ASSUME NEW p \in live, NEW q \in live, eow[p] = eow[q], next[p] = next[q]
        PROVE  p = q
    <3>1. CASE p # q0 /\ q # q0
      <4>1. PICK item \in reg : item.key = p
        BY <3>1, <2>3 DEF Registered
      <4>2. PICK other \in reg : other.key = q
        BY <3>1, <2>3 DEF Registered
      <4>3. Equivalent(item.key, other.key)
        BY <4>1, <4>2, <2>5 DEF Equivalent
      <4>4. item = other
        BY <4>3 DEF Consistent, RegistryValid
      <4> QED
        BY <4>1, <4>2, <4>4
    <3>2. CASE p = q0 /\ q # q0
      BY <3>2, <2>5, <1>1, RootHasNoTwin
    <3>3. CASE p # q0 /\ q = q0
      BY <3>3, <2>5, <1>1, RootHasNoTwin
    <3>4. CASE p = q0 /\ q = q0
      BY <3>4
    <3> QED
      BY <3>1, <3>2, <3>3, <3>4
  <2>6. FinishedLive' /\ ClosedDiffer'
    BY <2>4, <2>5, <1>1 DEF FinishedLive, ClosedDiffer, NoTwins
  <2> QED
    BY <2>6, <1>1 DEF Finished, EndLives
<1> QED
  BY <1>2, <1>3

LEMMA ClearFinished ==
  ASSUME Consistent, Clear, EmptyPrev'
  PROVE  Finished'
<1>1. live' = {} /\ q0' = NULL /\ state' = "EMPTY"
  BY DEF Clear, Consistent, NoLeak
<1> QED
  BY <1>1 DEF Finished, FinishedLive, EndLives, ClosedDiffer

LEMMA InitReady == Init => Ready
<1> SUFFICES ASSUME Init PROVE Ready
  OBVIOUS
<1>1. WordsAdded
  BY NoRootNoWord DEF Init, WordsAdded
<1>2. Finished
  BY DEF Init, Finished, EmptyPrev, FinishedLive, EndLives, ClosedDiffer
<1>3. RestRegistered
  BY DEF Init, RestRegistered
<1> QED
  BY <1>1, <1>2, <1>3, InitSummarized DEF Ready

LEMMA NextReady == Ready /\ [Next]_vars => Ready'
<1> SUFFICES ASSUME Ready, [Next]_vars PROVE Ready'
  OBVIOUS
<1>0. /\ Summarized /\ RestRegistered /\ WordsAdded /\ Finished
      /\ Consistent /\ InOrder /\ PathsShort
  BY DEF Ready, Summarized
<1>e. EmptyPrev'
  BY <1>0, NextEmptyPrev DEF Finished
<1>1. Finished'
  <2>1. CASE Still
    BY <2>1, <1>0, <1>e, StillFinished
  <2>2. ASSUME NEW w \in Word, AddWord(w) PROVE Finished'
    <3>1. CASE q0 = NULL
      BY <2>2, <3>1, <1>0, <1>e, NewRootFinished
    <3>2. CASE q0 # NULL
      <4>1. UNCHANGED graph
        BY <2>2, <3>2 DEF AddWord
      <4>2. Still
        BY <2>2, <4>1 DEF Still
      <4> QED
        BY <4>2, <2>1
    <3> QED
      BY <3>1, <3>2
  <2>3. CASE Replace
    BY <2>3, <1>0, <1>e, ReplaceFinished
  <2>4. CASE Register
    BY <2>4, <1>0, <1>e, RegisterFinished
  <2>5. CASE AddSuffix
    BY <2>5, <1>0, <1>e, AddSuffixFinished
  <2>6. CASE EndAdd
    BY <2>6, <1>0, <1>e, EndAddFinished
  <2>7. CASE EndClose
    BY <2>7, <1>0, <1>e, EndCloseFinished
  <2>8. CASE Clear
    BY <2>8, <1>0, <1>e, ClearFinished
  <2> QED
    BY <2>1, <2>2, <2>3, <2>4, <2>5, <2>6, <2>7, <2>8 DEF Next, Call, Step, Still
<1>2. RestRegistered'
  BY <1>0, NextConsistent DEF KeepsRest
<1> QED
  BY <1>0, <1>1, <1>2, NextSummarized, NextWordsAdded DEF Ready

LEMMA AlwaysReady == Spec => []Ready
BY InitReady, NextReady, PTL DEF Spec

-----------------------------------------------------------------------------
(***************************************************************************)
(* The theorems                                                            *)
(***************************************************************************)

(***************************************************************************)
(* Every node of the tail is above its end.                                *)
(***************************************************************************)
LEMMA TailLives ==
  ASSUME Consistent, q0 # NULL, state # "CLOSED",
         Lives(next, eow, TailNode[Len(TailWord)]), NEW j \in 0..Len(TailWord)
  PROVE  Lives(next, eow, TailNode[j])
<1> DEFINE L == Len(TailWord)
           P == TailNode
           Dead == {m \in Nat : m <= L /\ ~Lives(next, eow, P[L - m])}
<1>w. /\ L \in Nat /\ \A k \in 1..L : TailWord[k] \in Letter
  BY TailWordIsWord, ElementOfSeq
<1>1. /\ \A k \in 0..L : P[k] # NULL
      /\ \A k \in 1..L : P[k] = next[P[k - 1]][TailWord[k]]
  BY TailFacts
<1>2. Lives(next, eow, P[L]) /\ j \in 0..L
  OBVIOUS
<1> HIDE DEF L, P
<1> SUFFICES ASSUME Dead # {} PROVE FALSE
  <2>1. L - j \in Nat /\ L - j <= L /\ L - (L - j) = j
    BY <1>w, <1>2
  <2>2. L - j \notin Dead => Lives(next, eow, P[L - (L - j)])
    BY <2>1
  <2> HIDE DEF Dead
  <2>3. Dead = {} => Lives(next, eow, P[j])
    BY <2>1, <2>2
  <2> QED
    BY <2>3 DEF P
<1>3. PICK m \in Dead : \A y \in Dead : m <= y
  <2>1. Dead \subseteq Nat
    OBVIOUS
  <2> HIDE DEF Dead
  <2> QED
    BY <2>1, LeastNatural
<1>4. m \in Nat /\ m <= L /\ ~Lives(next, eow, P[L - m])
  BY <1>3
<1>5. m # 0
  <2>1. L - 0 = L
    BY <1>w
  <2> QED
    BY <2>1, <1>2, <1>4
<1>6. m - 1 \in Nat /\ m - 1 <= L /\ ~(m <= m - 1)
  BY <1>4, <1>5, <1>w
<1>7. Lives(next, eow, P[L - (m - 1)])
  <2>1. m - 1 \notin Dead
    <3> HIDE DEF Dead
    <3> QED
      BY <1>3, <1>6
  <2> QED
    BY <2>1, <1>6
<1>8. L - (m - 1) \in 1..L /\ (L - (m - 1)) - 1 = L - m /\ L - m \in 0..L
  BY <1>4, <1>5, <1>w
<1>9. P[L - (m - 1)] = next[P[(L - (m - 1)) - 1]][TailWord[L - (m - 1)]]
  BY <1>1, <1>8
<1>10. P[L - m] # NULL /\ TailWord[L - (m - 1)] \in Letter
  BY <1>1, <1>8, <1>w
<1>11. Lives(next, eow, next[P[L - m]][TailWord[L - (m - 1)]])
  BY <1>7, <1>8, <1>9
<1> QED
  BY <1>4, <1>10, <1>11, ParentLives

(***************************************************************************)
(* Between calls a word ends below every node: nodes that are registered,  *)
(* or closed, are finished, and the others are on the tail.                *)
(***************************************************************************)
LEMMA NodesLive ==
  ASSUME Ready, pc = "idle", NEW n \in live
  PROVE  Lives(next, eow, n)
<1>1. Consistent /\ RestRegistered /\ InOrder /\ Finished
  BY DEF Ready, Summarized
<1>2. CASE Registered(n) \/ state = "CLOSED"
  BY <1>1, <1>2 DEF Finished, FinishedLive
<1>3. CASE ~Registered(n) /\ state # "CLOSED"
  <2>1. q0 # NULL
    BY <1>1 DEF Consistent, ObjectState
  <2>2. state = "ACTIVE"
    BY <2>1, <1>3, <1>1 DEF InOrder, Consistent, TypeOK
  <2>3. PICK k \in 0..Len(TailWord) : n = TailNode[k]
    BY <2>1, <1>3, <1>1 DEF RestRegistered
  <2>4. Lives(next, eow, TailNode[Len(TailWord)])
    BY <2>1, <2>2, <1>1 DEF Finished, EndLives
  <2> QED
    BY <2>1, <2>3, <2>4, <1>3, <1>1, TailLives
<1> QED
  BY <1>2, <1>3

(***************************************************************************)
(* Nodes that are finished: registered, or anywhere in a closed DAWG.      *)
(***************************************************************************)
Done == {n \in live : Registered(n) \/ state = "CLOSED"}

LEMMA DoneClosed ==
  ASSUME Ready, NEW n \in Done, NEW l \in Letter
  PROVE  next[n][l] \in Done \cup {NULL}
<1>0. Consistent /\ RestRegistered /\ n \in live
  BY DEF Ready, Summarized, Done
<1>1. next[n][l] \in live \cup {NULL}
  BY <1>0 DEF Consistent, NoDangling
<1> SUFFICES ASSUME next[n][l] \in live, ~Registered(next[n][l]), state # "CLOSED" PROVE FALSE
  BY <1>1 DEF Done
<1>2. Registered(n) /\ q0 # NULL
  BY <1>0 DEF Done, Consistent, ObjectState
<1>3. PICK k \in 0..Len(TailWord) : next[n][l] = TailNode[k]
  BY <1>0, <1>2 DEF RestRegistered
<1>4. k > 0 /\ n = TailNode[k - 1]
  BY <1>0, <1>2, <1>3 DEF Consistent, TailUnshared
<1>5. k - 1 \in 0..Len(TailWord)
  BY <1>0, <1>4, TailWordIsWord
<1> QED
  BY <1>0, <1>2, <1>4, <1>5 DEF Consistent, TailUnshared

(***************************************************************************)
(* Paths from a node are no longer than paths from the root.               *)
(***************************************************************************)
LEMMA PathsBounded ==
  ASSUME Ready, NEW n \in live
  PROVE  longest_word + i \in Nat /\ PathsWithin(next, n, longest_word + i)
<1>0. Consistent /\ PathsShort /\ longest_word \in Nat /\ i \in Nat
  BY DEF Ready, Summarized, Consistent, TypeOK
<1>1. PICK v \in Seq(Letter) : Target(next, q0, v) = n
  BY <1>0, NodeReached DEF Consistent
<1> SUFFICES ASSUME NEW u \in Seq(Letter), Target(next, n, u) # NULL
             PROVE  Len(u) <= longest_word + i
  BY <1>0 DEF PathsWithin
<1>2. PICK w : w = Follow(v, u)
  OBVIOUS
<1>3. w \in Seq(Letter) /\ Len(w) = Len(v) + Len(u) /\ Len(v) \in Nat /\ Len(u) \in Nat
  BY <1>2, Pieces DEF IsJoined
<1>4. Target(next, q0, w) # NULL
  BY <1>1, <1>2, RunInPieces
<1>5. Len(w) <= longest_word \/ Len(w) <= i
  BY <1>0, <1>3, <1>4 DEF PathsShort
<1> QED
  BY <1>0, <1>3, <1>5

(***************************************************************************)
(* The automaton is minimal: in a closed DAWG no two nodes accept the same *)
(* words, and before that no two registered ones do, whatever hash         *)
(* function files the nodes and whichever addresses malloc reuses.         *)
(***************************************************************************)
THEOREM AlwaysMinimal == Spec => []Minimal
<1>1. Ready => Minimal
  <2> SUFFICES ASSUME Ready, NEW p \in live, NEW q \in live, p # q,
                      state = "CLOSED" \/ (Registered(p) /\ Registered(q)),
                      RightLanguage(p) = RightLanguage(q)
               PROVE  FALSE
    BY DEF Minimal
  <2>1. Consistent /\ WordsAdded /\ Finished
    BY DEF Ready, Summarized
  <2>2. p \in Done /\ q \in Done /\ Done \subseteq live /\ Done \subseteq Node
    BY <2>1 DEF Done, Consistent, TypeOK
  <2>3. SameWordsAt(next, eow, p, q)
    BY <2>1, NodeAccepts DEF SameWordsAt, RightLanguage, Consistent
  <2>4. AllLive(next, eow, Done)
    BY <2>1 DEF AllLive, Done, Finished, FinishedLive
  <2>5. NoTwins(next, eow, Done)
    <3>1. CASE state = "CLOSED"
      BY <3>1, <2>1, <2>2 DEF Finished, ClosedDiffer, NoTwins
    <3>2. CASE state # "CLOSED"
      <4> SUFFICES ASSUME NEW a \in Done, NEW b \in Done, eow[a] = eow[b], next[a] = next[b]
                   PROVE  a = b
        BY DEF NoTwins
      <4>1. PICK item \in reg : item.key = a
        BY <3>2 DEF Done, Registered
      <4>2. PICK other \in reg : other.key = b
        BY <3>2 DEF Done, Registered
      <4>3. Equivalent(item.key, other.key)
        BY <4>1, <4>2 DEF Equivalent
      <4>4. item = other
        BY <4>3, <2>1 DEF Consistent, RegistryValid
      <4> QED
        BY <4>1, <4>2, <4>4
    <3> QED
      BY <3>1, <3>2
  <2>6. PICK B : B = longest_word + i
    OBVIOUS
  <2>7. B \in Nat /\ \A n \in Done : PathsWithin(next, n, B)
    BY <2>2, <2>6, PathsBounded
  <2>8. \A n \in Done, l \in Letter : next[n][l] \in Done \cup {NULL}
    BY DoneClosed
  <2>9. next \in [Node -> [Letter -> Node \cup {NULL}]] /\ eow \in [Node -> BOOLEAN]
    BY <2>1 DEF Consistent, TypeOK
  <2>10. p = q
    BY <2>2, <2>3, <2>4, <2>5, <2>7, <2>8, <2>9, NodesDiffer
  <2> QED
    BY <2>10
<1> QED
  BY <1>1, AlwaysReady, PTL

-----------------------------------------------------------------------------
(***************************************************************************)
(* The graph that the methods read                                         *)
(***************************************************************************)

(***************************************************************************)
(* What the proof needs of the graph: that words end below all its nodes.  *)
(***************************************************************************)
Readable ==
  TypeOK /\ NoDangling /\ NoLeak /\ WordsAdded /\ AllLive(next, eow, live)

LEMMA LettersJoined ==
  ASSUME NEW l \in Letter, NEW u \in Seq(Letter), NEW w, w = Follow(<<l>>, u)
  PROVE  w \in Seq(Letter) /\ w # <<>> /\ Head(w) = l /\ Tail(w) = u
<1>1. PICK v : v = <<l>>
  OBVIOUS
<1>2. v \in Seq(Letter) /\ Len(v) = 1 /\ v[1] = l
  BY <1>1
<1>3. /\ w \in Seq(Letter) /\ Len(w) = 1 + Len(u) /\ Len(u) \in Nat /\ w[1] = l
      /\ \A k \in 1..Len(u) : w[1 + k] = u[k]
  <2>1. IsJoined(w, v, u)
    BY <1>1, <1>2, Pieces
  <2> QED
    BY <2>1, <1>2 DEF IsJoined
<1>4. w # <<>>
  BY <1>3
<1>5. Head(w) = w[1] /\ Tail(w) \in Seq(Letter) /\ Len(Tail(w)) = Len(w) - 1
      /\ \A k \in 1..Len(Tail(w)) : Tail(w)[k] = w[k + 1]
  BY <1>3, <1>4, HeadTailProperties
<1>6. Len(Tail(w)) = Len(u)
  BY <1>3, <1>5
<1>7. \A k \in 1..Len(u) : Tail(w)[k] = u[k]
  BY <1>3, <1>5, <1>6
<1>8. Tail(w) = u
  BY <1>5, <1>6, <1>7, SeqEqual
<1> QED
  BY <1>3, <1>4, <1>5, <1>8

LEMMA LettersApart ==
  ASSUME NEW w \in Seq(Letter), w # <<>>
  PROVE  Head(w) \in Letter /\ Tail(w) \in Seq(Letter) /\ w = Follow(<<Head(w)>>, Tail(w))
<1>1. /\ Head(w) \in Letter /\ Head(w) = w[1] /\ Tail(w) \in Seq(Letter)
      /\ Len(Tail(w)) = Len(w) - 1
      /\ \A k \in 1..Len(Tail(w)) : Tail(w)[k] = w[k + 1]
  BY HeadTailProperties
<1>2. PICK l \in Letter : l = Head(w)
  BY <1>1
<1>3. PICK u \in Seq(Letter) : u = Tail(w)
  BY <1>1
<1>4. PICK v : v = <<l>>
  OBVIOUS
<1>5. v \in Seq(Letter) /\ Len(v) = 1 /\ v[1] = l
  BY <1>4
<1>6. PICK s : s = Follow(v, u)
  OBVIOUS
<1>7. /\ s \in Seq(Letter) /\ Len(s) = 1 + Len(u) /\ Len(u) \in Nat /\ s[1] = l
      /\ \A k \in 1..Len(u) : s[1 + k] = u[k]
  <2>1. IsJoined(s, v, u)
    BY <1>5, <1>6, Pieces
  <2> QED
    BY <2>1, <1>5 DEF IsJoined
<1>8. Len(w) \in Nat /\ Len(s) = Len(w)
  BY <1>1, <1>3, <1>7, LenProperties
<1>9. ASSUME NEW k \in 1..Len(w) PROVE s[k] = w[k]
  <2>1. CASE k = 1
    BY <2>1, <1>1, <1>2, <1>7
  <2>2. CASE k # 1
    <3>1. k - 1 \in 1..Len(u) /\ 1 + (k - 1) = k /\ (k - 1) + 1 = k
      BY <2>2, <1>7, <1>8
    <3>2. PICK j \in 1..Len(u) : j = k - 1 /\ 1 + j = k /\ j + 1 = k
      BY <3>1
    <3>3. \A h \in 1..Len(u) : u[h] = w[h + 1]
      BY <1>1, <1>3
    <3>4. s[k] = u[j] /\ u[j] = w[k]
      BY <3>2, <3>3, <1>7
    <3> QED
      BY <3>4
  <2> QED
    BY <2>1, <2>2
<1>10. s = w
  BY <1>7, <1>8, <1>9, SeqEqual
<1> QED
  BY <1>1, <1>2, <1>3, <1>4, <1>6, <1>10

LEMMA AcceptsFirst ==
  ASSUME NEW n, n # NULL, NEW l \in Letter, NEW u \in Seq(Letter)
  PROVE  Accepts(next, eow, n, Follow(<<l>>, u)) <=> Accepts(next, eow, next[n][l], u)
<1>1. PICK v : v = <<l>>
  OBVIOUS
<1>2. v \in Seq(Letter) /\ Target(next, n, v) = next[n][l]
  BY <1>1, OneLetter DEF GetChild
<1> QED
  BY <1>1, <1>2, AcceptsInPieces

LEMMA InRightLanguage ==
  ASSUME Readable, NEW n \in live, NEW u
  PROVE  u \in RightLanguage(n) <=> u \in Seq(Letter) /\ Accepts(next, eow, n, u)
<1>1. u \in RightLanguage(n) => u \in Seq(Letter) /\ Accepts(next, eow, n, u)
  BY UniverseAssumption DEF RightLanguage
<1>2. u \in Seq(Letter) /\ Accepts(next, eow, n, u) => u \in RightLanguage(n)
  BY NodeAccepts DEF Readable
<1> QED
  BY <1>1, <1>2

(***************************************************************************)
(* A node, read from the words.                                            *)
(***************************************************************************)
LEMMA NodeIsWords ==
  ASSUME Readable, NEW n \in live
  PROVE  ReadAsWords(n)
<1>1. n # NULL /\ n \in Node /\ \A l \in Letter : next[n][l] \in live \cup {NULL}
  BY NullAssumption DEF Readable, TypeOK, NoDangling
<1>2. eow[n] <=> MG!Marker(RightLanguage(n))
  <2>1. <<>> \in Seq(Letter) /\ (Accepts(next, eow, n, <<>>) <=> eow[n])
    BY <1>1, NoLetter
  <2>2. <<>> \in RightLanguage(n) <=> <<>> \in Seq(Letter) /\ Accepts(next, eow, n, <<>>)
    BY InRightLanguage
  <2> QED
    BY <2>1, <2>2, Zenon DEF MG!Marker
<1>3. ASSUME NEW w \in RightLanguage(n), w # <<>>
      PROVE  /\ Head(w) \in Letter /\ next[n][Head(w)] \in live
             /\ Tail(w) \in RightLanguage(next[n][Head(w)])
  <2>1. w \in Seq(Letter) /\ Accepts(next, eow, n, w)
    BY InRightLanguage
  <2>2. PICK l \in Letter : l = Head(w)
    BY <2>1, <1>3, LettersApart
  <2>3. PICK u \in Seq(Letter) : u = Tail(w) /\ w = Follow(<<l>>, u)
    BY <2>1, <2>2, <1>3, LettersApart
  <2>4. Accepts(next, eow, next[n][l], u)
    BY <2>1, <2>3, <1>1, AcceptsFirst
  <2>5. next[n][l] # NULL
    BY <2>4, NoRootNoWord DEF Accepts
  <2>6. next[n][l] \in live
    BY <2>5, <1>1
  <2>7. u \in RightLanguage(next[n][l])
    BY <2>4, <2>6, InRightLanguage
  <2> QED
    BY <2>2, <2>3, <2>6, <2>7
<1>4. ASSUME NEW l \in Letter, next[n][l] # NULL, NEW u \in RightLanguage(next[n][l])
      PROVE  \E w \in RightLanguage(n) : w # <<>> /\ Head(w) = l /\ Tail(w) = u
  <2>1. next[n][l] \in live
    BY <1>1, <1>4
  <2>2. u \in Seq(Letter) /\ Accepts(next, eow, next[n][l], u)
    BY <2>1, InRightLanguage
  <2>3. PICK w : w = Follow(<<l>>, u)
    OBVIOUS
  <2>4. w \in Seq(Letter) /\ w # <<>> /\ Head(w) = l /\ Tail(w) = u
    BY <2>2, <2>3, LettersJoined
  <2>5. Accepts(next, eow, n, w)
    BY <2>2, <2>3, <1>1, AcceptsFirst
  <2>6. w \in RightLanguage(n)
    BY <2>4, <2>5, InRightLanguage
  <2> QED
    BY <2>4, <2>6
<1>5. ASSUME NEW l \in Letter, next[n][l] # NULL
      PROVE  \E u : u \in RightLanguage(next[n][l])
  <2>1. next[n][l] \in live
    BY <1>1, <1>5
  <2>2. PICK u \in Seq(Letter) : Accepts(next, eow, next[n][l], u)
    BY <2>1 DEF Readable, AllLive, Lives
  <2> QED
    BY <2>1, <2>2, InRightLanguage
<1>6. {l \in Letter : next[n][l] # NULL} = MG!Labels(RightLanguage(n))
  <2>1. ASSUME NEW l \in Letter, next[n][l] # NULL PROVE l \in MG!Labels(RightLanguage(n))
    <3>1. PICK w \in RightLanguage(n) : w # <<>> /\ Head(w) = l
      BY <2>1, <1>4, <1>5
    <3> QED
      BY <3>1 DEF MG!Labels
  <2>2. ASSUME NEW l \in MG!Labels(RightLanguage(n)) PROVE l \in Letter /\ next[n][l] # NULL
    <3>1. PICK w \in RightLanguage(n) : w # <<>> /\ Head(w) = l
      BY DEF MG!Labels
    <3>2. l \in Letter /\ next[n][l] \in live
      BY <3>1, <1>3
    <3> QED
      BY <3>2, NullAssumption DEF Readable, TypeOK
  <2> QED
    BY <2>1, <2>2
<1>7. ASSUME NEW l \in Letter, next[n][l] # NULL
      PROVE  RightLanguage(next[n][l]) = MG!Child(RightLanguage(n), l)
  <2>1. PICK R : R = RightLanguage(n)
    OBVIOUS
  <2>2. PICK C : C = RightLanguage(next[n][l])
    OBVIOUS
  <2>3. \A u \in C : \E w \in R : w # <<>> /\ Head(w) = l /\ Tail(w) = u
    BY <2>1, <2>2, <1>4, <1>7
  <2>4. \A w \in R : w # <<>> /\ Head(w) = l => Tail(w) \in C
    BY <2>1, <2>2, <1>3
  <2>5. C = {Tail(w) : w \in {v \in R : v # <<>> /\ Head(v) = l}}
    BY <2>3, <2>4
  <2> QED
    BY <2>1, <2>2, <2>5 DEF MG!Child
<1> QED
  BY <1>2, <1>6, <1>7 DEF ReadAsWords

(***************************************************************************)
(* What is left of w behind p.                                             *)
(***************************************************************************)
RestOf(p, w) == SubSeq(w, Len(p) + 1, Len(w))

(***************************************************************************)
(* The node some letters lead to is what is left of the words behind them. *)
(***************************************************************************)
LEMMA WordsBehind ==
  ASSUME NEW p \in Seq(Letter), NEW w \in Seq(Letter), PrefixOf(p, w),
         NEW u, u = RestOf(p, w)
  PROVE  u \in Seq(Letter) /\ w = Follow(p, u)
<1> USE DEF RestOf
<1>1. Len(p) \in Nat /\ Len(w) \in Nat /\ (Len(p) + 1) - 1 = Len(p)
  BY LenProperties
<1>2. Len(p) <= Len(w) /\ \A k \in 1..Len(p) : p[k] = w[k]
  BY <1>1 DEF PrefixOf, AgreeBelow
<1>3. PICK m \in Nat : m = Len(p)
  BY <1>1
<1>4. PICK n \in Nat : n = Len(w)
  BY <1>1
<1>5. m + 1 \in 1..(n + 1) /\ n \in 0..n /\ n - (m + 1) + 1 = n - m /\ n - m \in Nat
  BY <1>2, <1>3, <1>4
<1>6. /\ u \in Seq(Letter)
      /\ Len(u) = IF m + 1 <= n THEN n - (m + 1) + 1 ELSE 0
      /\ \A k \in 1..(n - (m + 1) + 1) : u[k] = w[(m + 1) + k - 1]
  BY <1>3, <1>4, <1>5, SubSeqProperties
<1>7. Len(u) = n - m
  <2>1. m + 1 <= n \/ n - m = 0
    BY <1>2, <1>3, <1>4
  <2> QED
    BY <2>1, <1>5, <1>6
<1>8. PICK s : s = Follow(p, u)
  OBVIOUS
<1>9. /\ s \in Seq(Letter) /\ Len(s) = m + (n - m)
      /\ \A k \in 1..m : s[k] = p[k]
      /\ \A k \in 1..(n - m) : s[m + k] = u[k]
  <2>1. IsJoined(s, p, u)
    BY <1>6, <1>8, Pieces
  <2> QED
    BY <2>1, <1>3, <1>7 DEF IsJoined
<1>10. Len(s) = Len(w)
  BY <1>4, <1>5, <1>9
<1>11. ASSUME NEW k \in 1..Len(w) PROVE s[k] = w[k]
  <2>1. CASE k <= m
    BY <2>1, <1>2, <1>3, <1>9
  <2>2. CASE ~ (k <= m)
    <3>1. k - m \in 1..(n - m) /\ m + (k - m) = k /\ (m + 1) + (k - m) - 1 = k
      BY <2>2, <1>3, <1>4
    <3> QED
      BY <3>1, <1>5, <1>6, <1>9
  <2> QED
    BY <2>1, <2>2
<1>12. s = w
  BY <1>9, <1>10, <1>11, SeqEqual
<1> QED
  BY <1>6, <1>8, <1>12

LEMMA JoinedBehind ==
  ASSUME NEW p \in Seq(Letter), NEW u \in Seq(Letter), NEW w, w = Follow(p, u)
  PROVE  /\ w \in Seq(Letter) /\ PrefixOf(p, w) /\ u = RestOf(p, w)
         /\ Len(p) \in 0..Len(w) /\ p = SubSeq(w, 1, Len(p))
<1> USE DEF RestOf
<1>1. IsJoined(w, p, u)
  BY Pieces
<1>2. PICK m \in Nat : m = Len(p)
  BY <1>1 DEF IsJoined
<1>3. PICK n \in Nat : n = Len(u)
  BY <1>1 DEF IsJoined
<1>4. /\ w \in Seq(Letter) /\ Len(w) = m + n
      /\ \A k \in 1..m : w[k] = p[k]
      /\ \A k \in 1..n : w[m + k] = u[k]
  BY <1>1, <1>2, <1>3 DEF IsJoined
<1>5. PrefixOf(p, w)
  <2>1. (m + 1) - 1 = m /\ m <= Len(w)
    BY <1>4
  <2> QED
    BY <2>1, <1>2, <1>4 DEF PrefixOf, AgreeBelow
<1>6. PICK r : r = SubSeq(w, m + 1, m + n)
  OBVIOUS
<1>7. r \in Seq(Letter) /\ w = Follow(p, r)
  <2>1. r = RestOf(p, w)
    BY <1>2, <1>4, <1>6
  <2> HIDE DEF RestOf
  <2> QED
    BY <2>1, <1>4, <1>5, WordsBehind
<1>8. PICK z : z = SubSeq(w, 1, m)
  OBVIOUS
<1>9. /\ r \in Seq(Letter) /\ Len(r) = n
      /\ \A k \in 1..n : r[k] = w[m + k]
  <2>1. /\ m + 1 \in 1..(Len(w) + 1) /\ m + n \in 0..Len(w)
        /\ (m + n) - (m + 1) + 1 = n /\ (m + 1 <= m + n <=> n # 0)
    BY <1>4
  <2>2. /\ Len(r) = IF m + 1 <= m + n THEN (m + n) - (m + 1) + 1 ELSE 0
        /\ \A k \in 1..((m + n) - (m + 1) + 1) : r[k] = w[(m + 1) + k - 1]
    BY <2>1, <1>4, <1>6, SubSeqProperties
  <2>3. \A k \in 1..n : (m + 1) + k - 1 = m + k
    BY <1>4
  <2> QED
    BY <2>1, <2>2, <2>3, <1>7
<1>10. r = u
  BY <1>3, <1>4, <1>9, SeqEqual
<1>11. /\ z \in Seq(Letter) /\ Len(z) = m
       /\ \A k \in 1..m : z[k] = w[k]
  <2>1. /\ 1 \in 1..(Len(w) + 1) /\ m \in 0..Len(w)
        /\ m - 1 + 1 = m /\ (1 <= m <=> m # 0)
    BY <1>4
  <2>2. /\ z \in Seq(Letter) /\ Len(z) = IF 1 <= m THEN m - 1 + 1 ELSE 0
        /\ \A k \in 1..(m - 1 + 1) : z[k] = w[1 + k - 1]
    BY <2>1, <1>4, <1>8, SubSeqProperties
  <2>3. \A k \in 1..m : 1 + k - 1 = k
    BY <1>4
  <2> QED
    BY <2>1, <2>2, <2>3
<1>12. z = p
  BY <1>2, <1>4, <1>11, SeqEqual
<1>13. m \in 0..Len(w)
  BY <1>4
<1> QED
  BY <1>2, <1>4, <1>5, <1>6, <1>8, <1>10, <1>12, <1>13

LEMMA NodeBehind ==
  ASSUME Readable, NEW p \in Seq(Letter), NEW n \in live, Target(next, q0, p) = n
  PROVE  MG!Behind(Lang, p) = RightLanguage(n)
<1>1. ASSUME NEW w \in Lang, PrefixOf(p, w)
      PROVE  RestOf(p, w) \in RightLanguage(n)
  <2>1. w \in Seq(Letter) /\ Accepts(next, eow, q0, w)
    BY UniverseAssumption DEF Lang
  <2>2. PICK u : u = RestOf(p, w)
    OBVIOUS
  <2>3. u \in Seq(Letter) /\ w = Follow(p, u)
    BY <2>1, <2>2, <1>1, WordsBehind
  <2>4. Accepts(next, eow, n, u)
    BY <2>1, <2>3, AcceptsInPieces
  <2> QED
    BY <2>2, <2>3, <2>4, InRightLanguage
<1>2. ASSUME NEW u \in RightLanguage(n)
      PROVE  \E w \in Lang : PrefixOf(p, w) /\ u = RestOf(p, w)
  <2>1. u \in Seq(Letter) /\ Accepts(next, eow, n, u)
    BY InRightLanguage
  <2>2. PICK w : w = Follow(p, u)
    OBVIOUS
  <2>3. w \in Seq(Letter) /\ PrefixOf(p, w) /\ u = RestOf(p, w)
    BY <2>1, <2>2, JoinedBehind
  <2>4. Accepts(next, eow, q0, w)
    BY <2>1, <2>2, AcceptsInPieces
  <2>5. w \in Lang
    BY <2>3, <2>4, WordAssumption DEF Readable, WordsAdded, Lang
  <2> QED
    BY <2>3, <2>5
<1>3. PICK R : R = RightLanguage(n)
  OBVIOUS
<1>4. PICK L : L = Lang
  OBVIOUS
<1>5. \A w \in L : PrefixOf(p, w) => RestOf(p, w) \in R
  BY <1>1, <1>3, <1>4
<1>6. \A u \in R : \E w \in L : PrefixOf(p, w) /\ u = RestOf(p, w)
  BY <1>2, <1>3, <1>4
<1>7. \A w : MG!PrefixOf(p, w) <=> PrefixOf(p, w)
  BY DEF MG!PrefixOf, PrefixOf, MG!AgreeBelow, AgreeBelow
<1>8. R = {RestOf(p, w) : w \in {v \in L : PrefixOf(p, v)}}
  BY <1>5, <1>6
<1> QED
  BY <1>3, <1>4, <1>7, <1>8 DEF MG!Behind, RestOf

(***************************************************************************)
(* The nodes are those of the words, and no others.                        *)
(***************************************************************************)
LEMMA NodesAreBelow ==
  ASSUME Readable, q0 # NULL
  PROVE  {RightLanguage(n) : n \in live} = MG!Below(Lang)
<1>1. q0 \in live /\ RightLanguage(q0) = Lang
  BY DEF Readable, NoDangling, RightLanguage, Lang
<1>2. ASSUME NEW w \in Lang, NEW k \in 0..Len(w), NEW p, p = SubSeq(w, 1, k)
      PROVE  \E n \in live : MG!Behind(Lang, p) = RightLanguage(n)
  <2>1. w \in Seq(Letter) /\ Accepts(next, eow, q0, w)
    BY UniverseAssumption DEF Lang
  <2>2. PICK n \in Nat : n = Len(w) /\ k \in 0..n /\ k \in Nat /\ k <= n
    BY <2>1, LenProperties
  <2>3. /\ p \in Seq(Letter) /\ Len(p) = k
        /\ \A j \in 1..k : p[j] = w[j]
    <3>1. /\ 1 \in 1..(n + 1) /\ k \in 0..n /\ k - 1 + 1 = k /\ (1 <= k <=> k # 0)
      BY <2>2
    <3>2. /\ p \in Seq(Letter) /\ Len(p) = IF 1 <= k THEN k - 1 + 1 ELSE 0
          /\ \A j \in 1..(k - 1 + 1) : p[j] = w[1 + j - 1]
      BY <3>1, <2>1, <2>2, <1>2, SubSeqProperties
    <3>3. \A j \in 1..k : 1 + j - 1 = j
      BY <2>2
    <3> QED
      BY <3>1, <3>2, <3>3
  <2>4. PrefixOf(p, w)
    <3>1. (k + 1) - 1 = k
      BY <2>2
    <3> QED
      BY <3>1, <2>2, <2>3 DEF PrefixOf, AgreeBelow
  <2>5. PICK u \in Seq(Letter) : w = Follow(p, u)
    BY <2>1, <2>3, <2>4, WordsBehind
  <2>6. Accepts(next, eow, Target(next, q0, p), u)
    BY <2>1, <2>3, <2>5, AcceptsInPieces
  <2>7. Target(next, q0, p) # NULL
    BY <2>6, NoRootNoWord
  <2>8. Target(next, q0, p) \in live
    <3>1. NoneLeave(next, q0, live)
      BY <1>1, NullAssumption DEF Readable, TypeOK, NoDangling, NoneLeave
    <3>2. Len(p) \in 0..Len(p)
      BY <2>2, <2>3
    <3> QED
      BY <3>1, <3>2, <2>3, <2>7, RunWithin DEF Target
  <2> QED
    BY <2>3, <2>8, NodeBehind
<1>3. ASSUME NEW n \in live
      PROVE  \E w \in Lang : \E k \in 0..Len(w) : RightLanguage(n) = MG!Behind(Lang, SubSeq(w, 1, k))
  <2>1. PICK p \in Seq(Letter) : Target(next, q0, p) = n
    BY NodeReached DEF Readable
  <2>2. PICK u \in Seq(Letter) : Accepts(next, eow, n, u)
    BY DEF Readable, AllLive, Lives
  <2>3. PICK w : w = Follow(p, u)
    OBVIOUS
  <2>4. w \in Seq(Letter) /\ Len(p) \in 0..Len(w) /\ p = SubSeq(w, 1, Len(p))
    BY <2>3, JoinedBehind
  <2>5. Accepts(next, eow, q0, w)
    BY <2>1, <2>2, <2>3, AcceptsInPieces
  <2>6. w \in Lang
    BY <2>4, <2>5, WordAssumption DEF Readable, WordsAdded, Lang
  <2>7. MG!Behind(Lang, p) = RightLanguage(n)
    BY <2>1, NodeBehind
  <2> QED
    BY <2>4, <2>6, <2>7
<1>4. PICK P : P = UNION {{SubSeq(w, 1, k) : k \in 0..Len(w)} : w \in Lang}
  OBVIOUS
<1>5. \A p \in P : \E n \in live : MG!Behind(Lang, p) = RightLanguage(n)
  BY <1>2, <1>4
<1>6. ASSUME NEW n \in live PROVE \E p \in P : RightLanguage(n) = MG!Behind(Lang, p)
  <2>1. PICK w \in Lang : \E k \in 0..Len(w) :
          RightLanguage(n) = MG!Behind(Lang, SubSeq(w, 1, k))
    BY <1>3
  <2>2. PICK k \in 0..Len(w) : RightLanguage(n) = MG!Behind(Lang, SubSeq(w, 1, k))
    BY <2>1
  <2>3. PICK p : p = SubSeq(w, 1, k)
    OBVIOUS
  <2>4. p \in P
    BY <2>3, <1>4
  <2> QED
    BY <2>2, <2>3, <2>4
<1>7. MG!Below(Lang) = {MG!Behind(Lang, p) : p \in P} \cup {Lang}
  BY <1>4 DEF MG!Below
<1> QED
  BY <1>1, <1>5, <1>6, <1>7

(***************************************************************************)
(* A graph that can be read, built or loaded, is that of its words.        *)
(***************************************************************************)
LEMMA ReadableIsGraph ==
  ASSUME pc = "idle" => Readable
  PROVE  GraphOfWords
<1> SUFFICES ASSUME pc = "idle"
             PROVE  /\ q0 = NULL <=> Lang = {}
                    /\ \A n \in live : ReadAsWords(n)
                    /\ q0 # NULL => {RightLanguage(n) : n \in live} = MG!Below(Lang)
  BY DEF GraphOfWords
<1>1. q0 # NULL => Lang # {}
  <2> SUFFICES ASSUME q0 # NULL PROVE Lang # {}
    OBVIOUS
  <2>1. q0 \in live /\ RightLanguage(q0) = Lang
    BY DEF Readable, NoDangling, RightLanguage, Lang
  <2>2. PICK u \in Seq(Letter) : Accepts(next, eow, q0, u)
    BY <2>1 DEF Readable, AllLive, Lives
  <2> QED
    BY <2>1, <2>2, InRightLanguage
<1>2. q0 = NULL => Lang = {}
  BY NoRootLang
<1>3. \A n \in live : ReadAsWords(n)
  BY NodeIsWords
<1>4. q0 # NULL => {RightLanguage(n) : n \in live} = MG!Below(Lang)
  BY NodesAreBelow
<1> QED
  BY <1>1, <1>2, <1>3, <1>4, Zenon

(***************************************************************************)
(* What the methods read between any two calls is the graph MinimalGraph   *)
(* computes from the words, on which the modules of the readers are built: *)
(* its markers, labels, children and nodes.  With Minimal, a closed DAWG   *)
(* is that graph node for node.                                            *)
(***************************************************************************)
THEOREM AlwaysGraphOfWords == Spec => []GraphOfWords
<1>1. Ready => GraphOfWords
  <2> SUFFICES ASSUME Ready, pc = "idle" PROVE Readable
    BY ReadableIsGraph
  <2> QED
    BY NodesLive DEF Ready, Summarized, Consistent, Readable, AllLive
<1> QED
  BY <1>1, AlwaysReady, PTL
=============================================================================
