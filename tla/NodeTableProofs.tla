-------------------------- MODULE NodeTableProofs ---------------------------
(***************************************************************************)
(* Nodes and the registry that holds them, for any nodes, letters, hash    *)
(* function and order of calls.                                            *)
(* The edges: NodeEdges' Consistent is inductive, and every step of        *)
(* NodeEdges is a step of ChildMap or changes nothing a client sees; so    *)
(* it is whatever the hash table does around the calls.                    *)
(* The table: TableConsistent is inductive, and every step of NodeTable is *)
(* a step of KeySet or changes nothing of the set.                         *)
(***************************************************************************)
EXTENDS NodeTable, FiniteSetTheorems, SequenceTheorems, WellFoundedInduction, TLAPS

LEMMA EdgeAt ==
  ASSUME NEW s \in Seq(Edge), NEW j \in 1..Len(s)
  PROVE  /\ s[j] \in Edge
         /\ s[j].letter \in Letter /\ s[j].letter \in Nat /\ s[j].child \in Node
<1>1. s[j] \in Edge
  BY ElementOfSeq
<1> QED
  BY <1>1, LetterAssumption DEF Edge

(***************************************************************************)
(* A sorted array is no longer than there are letters, so n does not wrap. *)
(***************************************************************************)
LEMMA SortedIsShort ==
  ASSUME NEW s \in Seq(Edge), Sorted(s)
  PROVE  Len(s) \in Nat /\ Len(s) <= Cardinality(Letter) /\ Cardinality(Letter) \in Nat
<1> DEFINE f == [j \in 1..Len(s) |-> s[j].letter]
<1>1. Len(s) \in Nat /\ \A j \in 1..Len(s) : s[j] \in Edge
  BY ElementOfSeq, LenProperties
<1>2. f \in [1..Len(s) -> Letter]
  BY <1>1 DEF Edge
<1>3. \A j, k \in 1..Len(s) : j # k => f[j] # f[k]
  <2> SUFFICES ASSUME NEW j \in 1..Len(s), NEW k \in 1..Len(s), j < k
               PROVE  f[j] # f[k]
    BY <1>1
  <2>1. s[j].letter < s[k].letter
    BY DEF Sorted
  <2>2. s[j].letter \in Nat /\ s[k].letter \in Nat
    BY <1>1, LetterAssumption DEF Edge
  <2> QED
    BY <2>1, <2>2
<1>4. f \in Injection(1..Len(s), Letter)
  BY <1>2, <1>3, Zenon DEF Injection, IsInjective
<1>5. IsFiniteSet(Letter)
  BY LetterAssumption
<1>6. Cardinality(1..Len(s)) <= Cardinality(Letter)
  BY <1>4, <1>5, FS_Injection DEF ExistsInjection
<1>7. Cardinality(1..Len(s)) = Len(s)
  <2>1. 1 \in Int /\ Len(s) \in Int
    BY <1>1
  <2>2. Cardinality(1..Len(s)) = IF 1 > Len(s) THEN 0 ELSE Len(s) - 1 + 1
    BY <2>1, FS_Interval, Zenon
  <2> QED
    BY <1>1, <2>2
<1> QED
  BY <1>1, <1>5, <1>6, <1>7, FS_CardinalityType

(***************************************************************************)
(* The child of a letter is that of its edge.                              *)
(***************************************************************************)
LEMMA ChildOfEdge ==
  ASSUME NEW s \in Seq(Edge), Sorted(s), NEW j \in 1..Len(s), NEW l, s[j].letter = l
  PROVE  ChildIn(s, Len(s), l) = s[j].child
<1>1. \A m \in 1..Len(s) : s[m].letter \in Nat
  BY EdgeAt
<1>2. \A m \in 1..Len(s) : s[m].letter = l => m = j
  BY <1>1, LenProperties DEF Sorted
<1> DEFINE m == CHOOSE m \in 1..Len(s) : s[m].letter = l
<1>3. m \in 1..Len(s) /\ s[m].letter = l
  OBVIOUS
<1>4. m = j
  BY <1>2, <1>3
<1> QED
  BY <1>4 DEF ChildIn

LEMMA NoEdgeNoChild ==
  ASSUME NEW s, NEW m, NEW l, \A j \in 1..m : s[j].letter # l
  PROVE  ChildIn(s, m, l) = NULL
BY DEF ChildIn

(***************************************************************************)
(* What a client sees when a sorted array is replaced by another one that  *)
(* has an edge to c under l and the same edges under the other letters.    *)
(***************************************************************************)
KeepsOthers(s, t, l) ==
  \A j \in 1..Len(s) : s[j].letter # l => \E i \in 1..Len(t) : t[i] = s[j]

LEMMA OneChildChanged ==
  ASSUME NEW s \in Seq(Edge), Sorted(s), NEW t \in Seq(Edge), Sorted(t),
         NEW l \in Letter, NEW i \in 1..Len(t), t[i].letter = l,
         KeepsOthers(s, t, l), KeepsOthers(t, s, l),
         NEW x \in Letter
  PROVE  ChildIn(t, Len(t), x) = IF x = l THEN t[i].child ELSE ChildIn(s, Len(s), x)
<1>1. CASE x = l
  BY <1>1, ChildOfEdge
<1>2. CASE x # l /\ \E j \in 1..Len(s) : s[j].letter = x
  <2>1. PICK j \in 1..Len(s) : s[j].letter = x
    BY <1>2
  <2>2. PICK m \in 1..Len(t) : t[m] = s[j]
    BY <1>2, <2>1 DEF KeepsOthers
  <2>3. ChildIn(s, Len(s), x) = s[j].child
    BY <2>1, ChildOfEdge
  <2>4. t[m].letter = x
    BY <2>1, <2>2
  <2>5. ChildIn(t, Len(t), x) = t[m].child
    BY <2>4, ChildOfEdge
  <2> QED
    BY <1>2, <2>2, <2>3, <2>5
<1>3. CASE x # l /\ \A j \in 1..Len(s) : s[j].letter # x
  <2>1. \A m \in 1..Len(t) : t[m].letter # x
    BY <1>3 DEF KeepsOthers
  <2>2. ChildIn(t, Len(t), x) = NULL /\ ChildIn(s, Len(s), x) = NULL
    BY <1>3, <2>1, NoEdgeNoChild, Zenon
  <2> QED
    BY <1>3, <2>2
<1> QED
  BY <1>1, <1>2, <1>3

(***************************************************************************)
(* The array that AddChild builds from what is copied, the new edge and    *)
(* the rest.                                                               *)
(***************************************************************************)
Copied(p, s) == Len(p) <= Len(s) /\ \A j \in 1..Len(p) : p[j] = s[j]

Inserted(s, p, e) == p \o <<e>> \o SubSeq(s, Len(p) + 1, Len(s))

IsInsertion(s, m, e, t) ==
  /\ t \in Seq(Edge) /\ Len(t) = Len(s) + 1
  /\ \A j \in 1..m : t[j] = s[j]
  /\ t[m + 1] = e
  /\ \A j \in (m + 1)..Len(s) : t[j + 1] = s[j]

LEMMA InsertedArray ==
  ASSUME NEW s \in Seq(Edge), NEW p \in Seq(Edge), NEW e \in Edge, NEW t,
         Copied(p, s), t = Inserted(s, p, e)
  PROVE  IsInsertion(s, Len(p), e, t)
<1>1. PICK m : m = Len(p)
  OBVIOUS
<1>2. PICK q : q = p \o <<e>>
  OBVIOUS
<1>3. PICK r : r = SubSeq(s, m + 1, Len(s))
  OBVIOUS
<1>4. m \in Nat /\ Len(s) \in Nat /\ m <= Len(s)
  BY <1>1, LenProperties DEF Copied
<1>5. /\ <<e>> \in Seq(Edge) /\ Len(<<e>>) = 1 /\ <<e>>[1] = e
  OBVIOUS
<1>6. /\ q \in Seq(Edge) /\ Len(q) = m + 1
      /\ \A j \in 1..(m + 1) : q[j] = IF j <= m THEN p[j] ELSE <<e>>[j - m]
  BY <1>1, <1>2, <1>5, ConcatProperties
<1>7. q[m + 1] = e /\ \A j \in 1..m : q[j] = s[j]
  BY <1>1, <1>4, <1>5, <1>6 DEF Copied
<1>8. /\ r \in Seq(Edge) /\ Len(r) = Len(s) - m
      /\ \A j \in 1..(Len(s) - m) : r[j] = s[m + j]
  <2>1. \A j \in (m + 1)..Len(s) : s[j] \in Edge
    BY <1>4, ElementOfSeq
  <2>2. /\ r \in Seq(Edge) /\ Len(r) = IF m + 1 <= Len(s) THEN Len(s) - (m + 1) + 1 ELSE 0
        /\ \A j \in 1..(Len(s) - (m + 1) + 1) : r[j] = s[m + 1 + j - 1]
    BY <1>3, <1>4, <2>1, SubSeqProperties
  <2> QED
    BY <1>4, <2>2
<1>9. t = q \o r
  BY <1>1, <1>2, <1>3 DEF Inserted
<1>10. /\ t \in Seq(Edge) /\ Len(t) = Len(q) + Len(r)
       /\ \A j \in 1..(Len(q) + Len(r)) :
            t[j] = IF j <= Len(q) THEN q[j] ELSE r[j - Len(q)]
  BY <1>6, <1>8, <1>9, ConcatProperties
<1>11. /\ Len(q) + Len(r) = Len(s) + 1
       /\ Len(q) = m + 1
  BY <1>4, <1>6, <1>8
<1>12. \A j \in 1..(Len(s) + 1) : t[j] = IF j <= m + 1 THEN q[j] ELSE r[j - (m + 1)]
  BY <1>10, <1>11, Zenon
<1>13. t \in Seq(Edge) /\ Len(t) = Len(s) + 1
  BY <1>10, <1>11
<1>14. \A j \in 1..m : t[j] = s[j]
  <2> TAKE j \in 1..m
  <2>1. j \in 1..(Len(s) + 1) /\ j <= m + 1
    BY <1>4
  <2>2. t[j] = q[j]
    BY <2>1, <1>12, Zenon
  <2> QED
    BY <2>2, <1>7, Zenon
<1>15. t[m + 1] = e
  <2>1. m + 1 \in 1..(Len(s) + 1) /\ m + 1 <= m + 1
    BY <1>4
  <2>2. t[m + 1] = q[m + 1]
    BY <2>1, <1>12, Zenon
  <2> QED
    BY <2>2, <1>7, Zenon
<1>16. ASSUME NEW j \in (m + 1)..Len(s)
       PROVE  t[j + 1] = s[j]
  <2>1. t[j + 1] = r[(j + 1) - (m + 1)]
    <3>1. j + 1 \in 1..(Len(s) + 1) /\ ~(j + 1 <= m + 1)
      BY <1>4
    <3> QED
      BY <3>1, <1>12, Zenon
  <2>2. j - m \in 1..(Len(s) - m) /\ (j + 1) - (m + 1) = j - m /\ m + (j - m) = j
    BY <1>4
  <2> QED
    BY <2>1, <2>2, <1>8
<1> QED
  BY <1>1, <1>13, <1>14, <1>15, <1>16 DEF IsInsertion

(***************************************************************************)
(* It is sorted when the letter is not there and was put before the first  *)
(* greater one.                                                            *)
(***************************************************************************)
LEMMA InsertedSorted ==
  ASSUME NEW s \in Seq(Edge), Sorted(s), NEW t \in Seq(Edge), NEW m \in 0..Len(s),
         Len(t) = Len(s) + 1,
         \A j \in 1..m : t[j] = s[j] /\ s[j].letter < t[m + 1].letter,
         \A j \in (m + 1)..Len(s) : t[j + 1] = s[j] /\ s[j].letter > t[m + 1].letter
  PROVE  Sorted(t)
<1> SUFFICES ASSUME NEW j \in 1..Len(t), NEW k \in 1..Len(t), j < k
             PROVE  t[j].letter < t[k].letter
  BY DEF Sorted
<1>1. Len(s) \in Nat
  BY LenProperties
<1>2. \A x, y \in 1..Len(s) : x < y => s[x].letter < s[y].letter
  BY DEF Sorted
<1>3. CASE k <= m
  BY <1>1, <1>2, <1>3
<1>4. CASE k = m + 1
  BY <1>1, <1>4
<1>5. CASE k > m + 1
  <2>1. k - 1 \in (m + 1)..Len(s) /\ k - 1 \in 1..Len(s) /\ (k - 1) + 1 = k
    BY <1>1, <1>5
  <2>2. t[k] = s[k - 1] /\ s[k - 1].letter > t[m + 1].letter
    BY <2>1
  <2>3. CASE j <= m
    <3>1. j \in 1..m /\ j \in 1..Len(s) /\ j < k - 1
      BY <1>1, <1>5, <2>3
    <3>2. t[j] = s[j] /\ s[j].letter < s[k - 1].letter
      BY <3>1, <2>1, <1>2
    <3> QED
      BY <3>2, <2>2
  <2>4. CASE j = m + 1
    BY <2>2, <2>4, <2>1, EdgeAt
  <2>5. CASE j > m + 1
    <3>1. j - 1 \in (m + 1)..Len(s) /\ j - 1 \in 1..Len(s) /\ j - 1 < k - 1 /\ (j - 1) + 1 = j
      BY <1>1, <2>5
    <3>2. t[j] = s[j - 1] /\ s[j - 1].letter < s[k - 1].letter
      BY <3>1, <2>1, <1>2
    <3> QED
      BY <3>2, <2>2
  <2> QED
    BY <1>1, <2>3, <2>4, <2>5
<1> QED
  BY <1>1, <1>3, <1>4, <1>5

-----------------------------------------------------------------------------

(***************************************************************************)
(* What Consistent says of the node a call is about.                       *)
(***************************************************************************)
LEMMA ArrayFacts ==
  ASSUME Consistent, NEW k \in Node
  PROVE  /\ next[k] \in Seq(Edge) /\ n[k] = Len(next[k]) /\ n[k] \in Nat
         /\ Sorted(next[k])
         /\ \A j \in 1..n[k] : /\ next[k][j].letter \in Letter
                               /\ next[k][j].letter \in Nat
                               /\ next[k][j].child \in Node
<1>1. next[k] \in Seq(Edge) /\ n[k] = Len(next[k]) /\ n[k] \in Nat /\ Sorted(next[k])
  BY DEF Consistent, TypeOK, SortedEdges
<1> QED
  BY <1>1, EdgeAt

LEMMA ProbeFacts ==
  ASSUME Consistent, Searching
  PROVE  /\ node \in Node /\ letter \in Letter /\ letter \in Nat
         /\ a \in Nat /\ b \in Int /\ 1 <= a /\ b <= n[node]
         /\ c0 \in Nat /\ a <= c0 /\ c0 <= b /\ c0 \in 1..n[node]
         /\ At.letter \in Nat /\ At.letter \in Letter /\ At.child \in Node
<1>1. /\ node \in Node /\ letter \in Letter
      /\ a \in Nat /\ b \in Int /\ 1 <= a /\ a <= b /\ b <= n[node]
  BY DEF Consistent, TypeOK, CallState, SearchState, Searching
<1>2. n[node] \in Nat
  BY <1>1, ArrayFacts
<1>3. c0 \in Nat /\ a <= c0 /\ c0 <= b /\ c0 \in 1..n[node]
  BY <1>1, <1>2 DEF c0
<1>4. letter \in Nat
  BY <1>1, LetterAssumption
<1> QED
  BY <1>1, <1>3, <1>4, ArrayFacts DEF At

(***************************************************************************)
(* Initially, and when a call returns, there is no call to say anything of.*)
(***************************************************************************)
LEMMA InitConsistent == Init => Consistent
<1> SUFFICES ASSUME Init PROVE Consistent
  OBVIOUS
<1>1. <<>> \in Seq(Edge) /\ Len(<<>>) = 0
  OBVIOUS
<1>2. TypeOK
  BY <1>1 DEF Init, TypeOK
<1>3. SortedEdges
  BY <1>1 DEF Init, SortedEdges, Sorted
<1>4. CallState
  BY DEF Init, CallState, SearchState, CopyState
<1> QED
  BY <1>2, <1>3, <1>4 DEF Consistent

LEMMA ReturnConsistent ==
  ASSUME Consistent, NEW call, NEW value, Return(call, value),
         next' \in [Node -> Seq(Edge)], n' \in [Node -> Nat], SortedEdges'
  PROVE  Consistent'
<1>1. <<>> \in Seq(Edge)
  OBVIOUS
<1>2. TypeOK'
  BY <1>1 DEF Return, TypeOK
<1>3. CallState'
  BY DEF Return, CallState, SearchState, CopyState
<1> QED
  BY <1>2, <1>3 DEF Consistent

LEMMA NewNodeConsistent ==
  ASSUME Consistent, NEW k \in Node, NewNode(k)
  PROVE  Consistent'
<1>1. <<>> \in Seq(Edge) /\ Len(<<>>) = 0
  OBVIOUS
<1>2. /\ next' = [next EXCEPT ![k] = <<>>] /\ n' = [n EXCEPT ![k] = 0]
      /\ pc = "idle" /\ UNCHANGED <<pc, node, letter, child, a, b, newnext>>
  BY DEF NewNode, locals
<1>3. TypeOK'
  BY <1>1, <1>2 DEF Consistent, TypeOK
<1>4. SortedEdges'
  BY <1>1, <1>2 DEF Consistent, TypeOK, SortedEdges, Sorted
<1>5. CallState'
  BY <1>2 DEF Consistent, CallState, SearchState, CopyState
<1> QED
  BY <1>3, <1>4, <1>5 DEF Consistent

LEMMA SearchConsistent ==
  ASSUME Consistent, NEW k \in Node, NEW l \in Letter, NEW call,
         Search(call, k, l),
         \/ call = "get_child" /\ UNCHANGED child
         \/ call = "set_child" /\ child' \in Node
  PROVE  Consistent'
<1>1. n[k] \in Nat /\ n[k] \in Int /\ pc = "idle" /\ newnext = <<>>
  BY ArrayFacts DEF Search, Consistent, CallState
<1>2. /\ pc' = call /\ node' = k /\ letter' = l /\ a' = 1 /\ b' = n[k]
      /\ UNCHANGED <<next, n, newnext>>
  BY DEF Search
<1>3. TypeOK'
  BY <1>1, <1>2 DEF Consistent, TypeOK
<1>4. SortedEdges'
  BY <1>2 DEF Consistent, SortedEdges
<1>5. SearchState'
  BY <1>1, <1>2 DEF SearchState
<1>6. CallState'
  BY <1>1, <1>2, <1>5 DEF CallState, CopyState
<1> QED
  BY <1>3, <1>4, <1>6 DEF Consistent

(***************************************************************************)
(* One iteration of the search: what is left out is on the wrong side.     *)
(***************************************************************************)
LEMMA ProbeConsistent ==
  ASSUME Consistent, Probe
  PROVE  Consistent'
<1>1. /\ Searching /\ UNCHANGED <<next, n, pc, node, letter, child, newnext>>
      /\ \/ At.letter > letter /\ b' = c0 - 1 /\ a' = a
         \/ At.letter < letter /\ a' = c0 + 1 /\ b' = b
  BY DEF Probe, Lower, Upper
<1>2. /\ node \in Node /\ letter \in Nat
      /\ a \in Nat /\ b \in Int /\ 1 <= a /\ b <= n[node]
      /\ c0 \in Nat /\ a <= c0 /\ c0 <= b /\ c0 \in 1..n[node]
  BY <1>1, ProbeFacts
<1>3. pc \in {"get_child", "set_child"}
  BY <1>1 DEF Searching
<1>4. \A j \in 1..n[node] : /\ j < a => next[node][j].letter < letter
                            /\ j > b => next[node][j].letter > letter
  BY <1>3 DEF Consistent, CallState, SearchState
<1>5. /\ n[node] = Len(next[node]) /\ Sorted(next[node]) /\ n[node] \in Nat
      /\ \A j \in 1..n[node] : next[node][j].letter \in Nat
  BY <1>2, ArrayFacts
<1>6. \A j \in 1..n[node] : /\ j < c0 => next[node][j].letter < At.letter
                            /\ j > c0 => next[node][j].letter > At.letter
  BY <1>2, <1>5 DEF Sorted, At
<1>7. SearchState'
  <2>1. 1 <= a' /\ a' <= b' + 1 /\ b' <= n[node]
    BY <1>1, <1>2, <1>5
  <2>2. ASSUME NEW j \in 1..n[node]
        PROVE  /\ j < a' => next[node][j].letter < letter
               /\ j > b' => next[node][j].letter > letter
    <3>1. next[node][j].letter \in Nat /\ At.letter \in Nat /\ next[node][c0] = At
      BY <1>2, <1>5 DEF At
    <3>2. CASE At.letter > letter /\ b' = c0 - 1 /\ a' = a
      <4>1. j > b' => j = c0 \/ j > c0
        BY <3>2, <1>2, <1>5
      <4> QED
        BY <3>1, <3>2, <4>1, <1>2, <1>4, <1>6
    <3>3. CASE At.letter < letter /\ a' = c0 + 1 /\ b' = b
      <4>1. j < a' => j = c0 \/ j < c0
        BY <3>3, <1>2, <1>5
      <4> QED
        BY <3>1, <3>3, <4>1, <1>2, <1>4, <1>6
    <3> QED
      BY <1>1, <3>2, <3>3
  <2> QED
    BY <1>1, <2>1, <2>2 DEF SearchState
<1>8. TypeOK'
  BY <1>1, <1>2 DEF Consistent, TypeOK
<1>9. SortedEdges'
  BY <1>1 DEF Consistent, SortedEdges
<1>10. CallState'
  BY <1>1, <1>3, <1>7 DEF Consistent, CallState, CopyState
<1> QED
  BY <1>8, <1>9, <1>10 DEF Consistent

-----------------------------------------------------------------------------

(***************************************************************************)
(* The end of the search with nothing found: every edge is on one side.    *)
(***************************************************************************)
LEMMA NotThere ==
  ASSUME Consistent, pc \in {"get_child", "set_child"}, ~Searching
  PROVE  node \in Node /\ letter \in Letter
         /\ \A j \in 1..n[node] : next[node][j].letter # letter
<1>1. /\ node \in Node /\ letter \in Letter
      /\ a \in Nat /\ b \in Int /\ a > b
      /\ \A j \in 1..n[node] : /\ j < a => next[node][j].letter < letter
                               /\ j > b => next[node][j].letter > letter
  BY DEF Consistent, TypeOK, CallState, SearchState, Searching
<1>2. /\ n[node] \in Nat /\ letter \in Nat
      /\ \A j \in 1..n[node] : next[node][j].letter \in Nat
  BY <1>1, ArrayFacts, LetterAssumption
<1> SUFFICES ASSUME NEW j \in 1..n[node] PROVE next[node][j].letter # letter
  BY <1>1
<1>3. j < a \/ j > b
  BY <1>1, <1>2
<1>4. /\ j < a => next[node][j].letter < letter
      /\ j > b => next[node][j].letter > letter
  BY <1>1, Zenon
<1>5. next[node][j].letter \in Nat /\ letter \in Nat
  BY <1>2
<1> QED
  BY <1>3, <1>4, <1>5

LEMMA StartCopyConsistent ==
  ASSUME Consistent, StartCopy
  PROVE  Consistent'
<1>1. /\ pc = "set_child" /\ ~Searching /\ pc' = "copy"
      /\ UNCHANGED <<next, n, node, letter, child, a, b, newnext>>
  BY DEF StartCopy, locals
<1>2. /\ node \in Node /\ letter \in Letter /\ child \in Node /\ newnext = <<>>
      /\ \A j \in 1..n[node] : next[node][j].letter # letter
  BY <1>1, NotThere DEF Consistent, CallState
<1>3. n[node] \in Nat
  BY <1>2, ArrayFacts
<1>4. TypeOK'
  BY <1>1 DEF Consistent, TypeOK
<1>5. SortedEdges'
  BY <1>1 DEF Consistent, SortedEdges
<1>6. CopyState'
  BY <1>1, <1>2, <1>3 DEF CopyState
<1>7. CallState'
  BY <1>1, <1>2, <1>6 DEF CallState, SearchState
<1> QED
  BY <1>4, <1>5, <1>7 DEF Consistent

(***************************************************************************)
(* What is known when an edge is copied, and when the copy ends.           *)
(***************************************************************************)
LEMMA CopyFacts ==
  ASSUME Consistent, pc = "copy"
  PROVE  /\ node \in Node /\ letter \in Letter /\ letter \in Nat /\ child \in Node
         /\ newnext \in Seq(Edge) /\ Len(newnext) \in Nat
         /\ Len(newnext) <= Len(next[node])
         /\ \A j \in 1..Len(newnext) :
              newnext[j] = next[node][j] /\ next[node][j].letter < letter
         /\ \A j \in 1..Len(next[node]) : next[node][j].letter # letter
<1>1. /\ node \in Node /\ letter \in Letter /\ child \in Node
      /\ newnext \in Seq(Edge) /\ Len(newnext) <= n[node]
      /\ \A j \in 1..Len(newnext) :
           newnext[j] = next[node][j] /\ next[node][j].letter < letter
      /\ \A j \in 1..n[node] : next[node][j].letter # letter
  BY DEF Consistent, TypeOK, CallState, CopyState
<1>2. n[node] = Len(next[node])
  BY <1>1, ArrayFacts
<1> QED
  BY <1>1, <1>2, LenProperties, LetterAssumption

LEMMA CopyLowerConsistent ==
  ASSUME Consistent, CopyLower
  PROVE  Consistent'
<1> DEFINE m == Len(newnext)
<1>1. /\ pc = "copy" /\ m < n[node] /\ next[node][m + 1].letter < letter
      /\ newnext' = Append(newnext, next[node][m + 1])
      /\ UNCHANGED <<next, n, pc, node, letter, child, a, b>>
  BY DEF CopyLower, Before
<1>2. /\ node \in Node /\ newnext \in Seq(Edge) /\ m \in Nat
      /\ \A j \in 1..m : newnext[j] = next[node][j] /\ next[node][j].letter < letter
      /\ \A j \in 1..n[node] : next[node][j].letter # letter
  BY <1>1, CopyFacts, ArrayFacts
<1>3. next[node] \in Seq(Edge) /\ n[node] = Len(next[node]) /\ n[node] \in Nat
  BY <1>2, ArrayFacts
<1>4. next[node][m + 1] \in Edge
  BY <1>1, <1>2, <1>3, ElementOfSeq
<1>5. /\ newnext' \in Seq(Edge) /\ Len(newnext') = m + 1
      /\ \A j \in 1..m : newnext'[j] = newnext[j]
      /\ newnext'[m + 1] = next[node][m + 1]
  BY <1>1, <1>2, <1>4, AppendProperties
<1>6. TypeOK'
  BY <1>1, <1>5 DEF Consistent, TypeOK
<1>7. SortedEdges'
  BY <1>1 DEF Consistent, SortedEdges
<1>8. ASSUME NEW j \in 1..(m + 1)
      PROVE  newnext'[j] = next[node][j] /\ next[node][j].letter < letter
  <2>1. j \in 1..m \/ j = m + 1
    BY <1>2
  <2> QED
    BY <1>1, <1>2, <1>5, <2>1
<1>9. m + 1 <= n[node]
  BY <1>1, <1>2, <1>3
<1>10. CopyState'
  BY <1>1, <1>2, <1>5, <1>8, <1>9 DEF CopyState
<1>11. CallState'
  BY <1>1, <1>10 DEF Consistent, CallState, SearchState
<1> QED
  BY <1>6, <1>7, <1>11 DEF Consistent

(***************************************************************************)
(* The array after the edge that is found is replaced.                     *)
(***************************************************************************)
LEMMA ReplacedArray ==
  ASSUME NEW s \in Seq(Edge), Sorted(s), NEW i \in 1..Len(s),
         NEW e \in Edge, s[i].letter = e.letter,
         NEW t, t = [s EXCEPT ![i] = e]
  PROVE  /\ t \in Seq(Edge) /\ Len(t) = Len(s) /\ Sorted(t) /\ t[i] = e
         /\ KeepsOthers(s, t, e.letter) /\ KeepsOthers(t, s, e.letter)
<1>1. /\ t \in Seq(Edge) /\ Len(t) = Len(s) /\ Len(s) \in Nat
      /\ \A j \in 1..Len(s) : t[j] = IF j = i THEN e ELSE s[j]
  BY ExceptSeq, LenProperties
<1>2. \A j \in 1..Len(s) : t[j].letter = s[j].letter
  BY <1>1
<1>3. Sorted(t)
  <2> SUFFICES ASSUME NEW j \in 1..Len(t), NEW k \in 1..Len(t), j < k
               PROVE  t[j].letter < t[k].letter
    BY DEF Sorted
  <2>1. j \in 1..Len(s) /\ k \in 1..Len(s)
    BY <1>1
  <2>2. s[j].letter < s[k].letter
    BY <2>1, Zenon DEF Sorted
  <2>3. t[j].letter = s[j].letter /\ t[k].letter = s[k].letter
    BY <2>1, <1>2
  <2> QED
    BY <2>2, <2>3, Zenon
<1>4. KeepsOthers(s, t, e.letter)
  BY <1>1, Zenon DEF KeepsOthers
<1>5. KeepsOthers(t, s, e.letter)
  BY <1>1, Zenon DEF KeepsOthers
<1> QED
  BY <1>1, <1>3, <1>4, <1>5

(***************************************************************************)
(* The array after an edge is added: sorted, with the new edge and the old *)
(* ones.                                                                   *)
(***************************************************************************)
LEMMA AddedArray ==
  ASSUME NEW s \in Seq(Edge), Sorted(s), NEW p \in Seq(Edge), NEW e \in Edge, NEW t,
         Len(p) <= Len(s),
         \A j \in 1..Len(p) : p[j] = s[j] /\ s[j].letter < e.letter,
         \A j \in 1..Len(s) : s[j].letter # e.letter,
         ~(Len(p) < Len(s) /\ s[Len(p) + 1].letter < e.letter),
         t = Inserted(s, p, e)
  PROVE  /\ t \in Seq(Edge) /\ Len(t) = Len(s) + 1 /\ Sorted(t)
         /\ Len(p) + 1 \in 1..Len(t) /\ t[Len(p) + 1] = e
         /\ KeepsOthers(s, t, e.letter) /\ KeepsOthers(t, s, e.letter)
<1>1. PICK m : m = Len(p)
  OBVIOUS
<1>2. m \in Nat /\ Len(s) \in Nat /\ m <= Len(s)
  BY <1>1, LenProperties
<1>3. /\ t \in Seq(Edge) /\ Len(t) = Len(s) + 1
      /\ \A j \in 1..m : t[j] = s[j]
      /\ t[m + 1] = e
      /\ \A j \in (m + 1)..Len(s) : t[j + 1] = s[j]
  <2>1. Copied(p, s)
    BY DEF Copied
  <2>2. IsInsertion(s, Len(p), e, t)
    BY <2>1, InsertedArray
  <2> QED
    BY <1>1, <2>2 DEF IsInsertion
<1>4. e.letter \in Nat /\ \A j \in 1..Len(s) : s[j].letter \in Nat
  BY EdgeAt, LetterAssumption DEF Edge
<1>5. \A j, k \in 1..Len(s) : j < k => s[j].letter < s[k].letter
  BY DEF Sorted
<1>6. ASSUME NEW j \in (m + 1)..Len(s)
      PROVE  s[j].letter > e.letter
  <2>1. m + 1 \in 1..Len(s) /\ j \in 1..Len(s) /\ m < Len(s)
    BY <1>2
  <2>2. s[m + 1].letter > e.letter
    BY <1>1, <1>4, <2>1
  <2>3. j = m + 1 \/ s[m + 1].letter < s[j].letter
    BY <1>2, <1>5, <2>1
  <2> QED
    BY <1>4, <2>1, <2>2, <2>3
<1>7. Sorted(t)
  <2>1. \A j \in 1..m : t[j] = s[j] /\ s[j].letter < t[m + 1].letter
    BY <1>1, <1>3
  <2>2. \A j \in (m + 1)..Len(s) : t[j + 1] = s[j] /\ s[j].letter > t[m + 1].letter
    BY <1>3, <1>6
  <2>3. m \in 0..Len(s)
    BY <1>2
  <2> QED
    BY <1>3, <2>1, <2>2, <2>3, InsertedSorted
<1>8. KeepsOthers(s, t, e.letter)
  <2> SUFFICES ASSUME NEW j \in 1..Len(s)
               PROVE  \E i \in 1..Len(t) : t[i] = s[j]
    BY DEF KeepsOthers
  <2>1. CASE j <= m
    <3>1. j \in 1..m /\ j \in 1..Len(t)
      BY <1>2, <1>3, <2>1
    <3> QED
      BY <1>3, <3>1
  <2>2. CASE j > m
    <3>1. j \in (m + 1)..Len(s) /\ j + 1 \in 1..Len(t)
      BY <1>2, <1>3, <2>2
    <3> QED
      BY <1>3, <3>1
  <2> QED
    BY <1>2, <2>1, <2>2
<1>9. KeepsOthers(t, s, e.letter)
  <2> SUFFICES ASSUME NEW j \in 1..Len(t), t[j].letter # e.letter
               PROVE  \E i \in 1..Len(s) : s[i] = t[j]
    BY DEF KeepsOthers
  <2>1. CASE j <= m
    <3>1. j \in 1..m /\ j \in 1..Len(s)
      BY <1>2, <2>1
    <3> QED
      BY <1>3, <3>1
  <2>2. CASE j = m + 1
    BY <1>3, <2>2
  <2>3. CASE j > m + 1
    <3>1. j - 1 \in (m + 1)..Len(s) /\ j - 1 \in 1..Len(s) /\ (j - 1) + 1 = j
      BY <1>2, <1>3, <2>3
    <3>2. t[j] = s[j - 1]
      BY <1>3, <3>1
    <3> QED
      BY <3>1, <3>2
  <2> QED
    BY <1>2, <2>1, <2>2, <2>3
<1>10. m + 1 \in 1..Len(t)
  BY <1>2, <1>3
<1> QED
  BY <1>1, <1>3, <1>7, <1>8, <1>9, <1>10

-----------------------------------------------------------------------------

(***************************************************************************)
(* One array is replaced by another, sorted and with its length in n, that *)
(* differs in the edge of the letter of the call.                          *)
(***************************************************************************)
ArrayChanged ==
  /\ node \in Node /\ letter \in Letter /\ child \in Node
  /\ next'[node] \in Seq(Edge) /\ Sorted(next'[node])
  /\ next' = [next EXCEPT ![node] = next'[node]]
  /\ n' = [n EXCEPT ![node] = Len(next'[node])]
  /\ \E i \in 1..Len(next'[node]) :
       next'[node][i] = [letter |-> letter, child |-> child]
  /\ KeepsOthers(next[node], next'[node], letter)
  /\ KeepsOthers(next'[node], next[node], letter)

LEMMA NewEdge ==
  ASSUME NEW l \in Letter, NEW c \in Node, NEW e, e = [letter |-> l, child |-> c]
  PROVE  e \in Edge /\ e.letter = l /\ e.child = c
BY DEF Edge

LEMMA ReplaceChildChanges ==
  ASSUME Consistent, ReplaceChild
  PROVE  ArrayChanged
<1> DEFINE s == next[node]
           e == [letter |-> letter, child |-> child]
           t == [s EXCEPT ![c0] = e]
<1>1. /\ pc = "set_child" /\ Searching /\ At.letter = letter
      /\ next' = [next EXCEPT ![node] = t] /\ n' = n
  BY DEF ReplaceChild
<1>2. node \in Node /\ letter \in Letter /\ child \in Node /\ c0 \in 1..n[node]
  BY <1>1, ProbeFacts DEF Consistent, CallState
<1>3. s \in Seq(Edge) /\ n[node] = Len(s) /\ Sorted(s)
  BY <1>2, ArrayFacts
<1>4. e \in Edge /\ e.letter = letter
  BY <1>2, NewEdge
<1>5. s[c0].letter = e.letter
  BY <1>1, <1>4 DEF At
<1>6. PICK x : x = t
  OBVIOUS
<1> HIDE DEF e
<1>7. /\ x \in Seq(Edge) /\ Len(x) = Len(s) /\ Sorted(x) /\ x[c0] = e
      /\ KeepsOthers(s, x, e.letter) /\ KeepsOthers(x, s, e.letter)
  BY <1>2, <1>3, <1>4, <1>5, <1>6, ReplacedArray
<1>8. next \in [Node -> Seq(Edge)] /\ n \in [Node -> Nat]
  BY DEF Consistent, TypeOK
<1>9. next'[node] = x /\ next' = [next EXCEPT ![node] = x]
  BY <1>1, <1>2, <1>6, <1>8
<1>10. n' = [n EXCEPT ![node] = Len(x)]
  BY <1>1, <1>2, <1>3, <1>7, <1>8
<1>11. c0 \in 1..Len(x) /\ x[c0] = [letter |-> letter, child |-> child]
  BY <1>2, <1>3, <1>7 DEF e
<1> QED
  BY <1>2, <1>4, <1>7, <1>9, <1>10, <1>11 DEF ArrayChanged

(***************************************************************************)
(* n does not wrap: the new array is sorted, so it has no more edges than  *)
(* there are letters.                                                      *)
(***************************************************************************)
LEMMA AddChildChanges ==
  ASSUME Consistent, AddChild
  PROVE  ArrayChanged
<1> DEFINE s == next[node]
           e == [letter |-> letter, child |-> child]
<1>1. /\ pc = "copy" /\ ~Before
      /\ next' = [next EXCEPT ![node] =
                    newnext \o <<e>> \o SubSeq(s, Len(newnext) + 1, n[node])]
      /\ n' = [n EXCEPT ![node] = OneMore(n[node])]
  BY DEF AddChild
<1>2. /\ node \in Node /\ letter \in Letter /\ child \in Node
      /\ newnext \in Seq(Edge) /\ Len(newnext) <= Len(s)
      /\ \A j \in 1..Len(newnext) : newnext[j] = s[j] /\ s[j].letter < letter
      /\ \A j \in 1..Len(s) : s[j].letter # letter
  BY <1>1, CopyFacts
<1>3. s \in Seq(Edge) /\ n[node] = Len(s) /\ Sorted(s)
  BY <1>2, ArrayFacts
<1>4. e \in Edge /\ e.letter = letter
  BY <1>2, NewEdge
<1>5. PICK x : x = Inserted(s, newnext, e)
  OBVIOUS
<1>6. next \in [Node -> Seq(Edge)] /\ n \in [Node -> Nat]
  BY DEF Consistent, TypeOK
<1>7. next'[node] = x /\ next' = [next EXCEPT ![node] = x]
  <2>1. next' = [next EXCEPT ![node] = Inserted(s, newnext, e)]
    BY <1>1, <1>3 DEF Inserted
  <2> HIDE DEF s, e
  <2> QED
    BY <2>1, <1>2, <1>5, <1>6
<1>8. ~(Len(newnext) < Len(s) /\ s[Len(newnext) + 1].letter < letter)
  BY <1>1, <1>3 DEF Before
<1> HIDE DEF e
<1>9. /\ x \in Seq(Edge) /\ Len(x) = Len(s) + 1 /\ Sorted(x)
      /\ Len(newnext) + 1 \in 1..Len(x) /\ x[Len(newnext) + 1] = e
      /\ KeepsOthers(s, x, letter) /\ KeepsOthers(x, s, letter)
  <2> HIDE DEF s
  <2>1. \A j \in 1..Len(newnext) : newnext[j] = s[j] /\ s[j].letter < e.letter
    BY <1>2, <1>4
  <2>2. \A j \in 1..Len(s) : s[j].letter # e.letter
    BY <1>2, <1>4
  <2>3. ~(Len(newnext) < Len(s) /\ s[Len(newnext) + 1].letter < e.letter)
    BY <1>4, <1>8
  <2>4. s \in Seq(Edge) /\ Sorted(s) /\ newnext \in Seq(Edge) /\ e \in Edge
        /\ Len(newnext) <= Len(s)
    BY <1>2, <1>3, <1>4
  <2> QED
    BY <2>1, <2>2, <2>3, <2>4, <1>4, <1>5, AddedArray, SMTT(30)
<1>10. OneMore(n[node]) = Len(x)
  <2>1. Len(x) \in Nat /\ Len(x) <= Cardinality(Letter) /\ Cardinality(Letter) \in Nat
    BY <1>9, SortedIsShort
  <2>2. n[node] + 1 = Len(x) /\ Len(x) < Width /\ Width \in Nat
    BY <2>1, <1>3, <1>9, WidthAssumption
  <2>3. PICK m : m = Len(x)
    OBVIOUS
  <2>4. m % Width = m
    BY <2>1, <2>2, <2>3
  <2> QED
    BY <2>2, <2>3, <2>4, Zenon DEF OneMore
<1>11. n' = [n EXCEPT ![node] = Len(x)]
  BY <1>1, <1>10
<1>12. \E i \in 1..Len(x) : x[i] = [letter |-> letter, child |-> child]
  BY <1>9 DEF e
<1> QED
  BY <1>2, <1>7, <1>9, <1>11, <1>12 DEF ArrayChanged

LEMMA ChangedConsistent ==
  ASSUME Consistent, ArrayChanged, NEW call, NEW value, Return(call, value)
  PROVE  Consistent'
<1>1. PICK x : x = next'[node]
  OBVIOUS
<1>2. /\ node \in Node /\ x \in Seq(Edge) /\ Sorted(x)
      /\ next' = [next EXCEPT ![node] = x] /\ n' = [n EXCEPT ![node] = Len(x)]
  BY <1>1 DEF ArrayChanged
<1>3. /\ next \in [Node -> Seq(Edge)] /\ n \in [Node -> Nat]
      /\ \A k \in Node : n[k] = Len(next[k]) /\ Sorted(next[k])
  BY DEF Consistent, TypeOK, SortedEdges
<1>4. Len(x) \in Nat
  BY <1>2, LenProperties
<1>5. next' \in [Node -> Seq(Edge)] /\ n' \in [Node -> Nat]
  BY <1>2, <1>3, <1>4
<1>6. ASSUME NEW k \in Node
      PROVE  n'[k] = Len(next'[k]) /\ Sorted(next'[k])
  <2>1. CASE k = node
    BY <2>1, <1>2, <1>3
  <2>2. CASE k # node
    <3>1. n'[k] = n[k] /\ next'[k] = next[k]
      BY <2>2, <1>2, <1>3
    <3> QED
      BY <3>1, <1>3
  <2> QED
    BY <2>1, <2>2
<1>7. SortedEdges'
  BY <1>6 DEF SortedEdges
<1> QED
  BY <1>5, <1>7, ReturnConsistent

(***************************************************************************)
(* Every step keeps what makes the arrays maps: they are sorted with their *)
(* lengths in n, the search has left out only edges of other letters, and  *)
(* the copy is the edges before the new one.                               *)
(***************************************************************************)
THEOREM NextConsistent == Consistent /\ [Next]_nodeVars => Consistent'
<1> SUFFICES ASSUME Consistent, [Next]_nodeVars PROVE Consistent'
  OBVIOUS
<1>1. ASSUME NEW k \in Node, NewNode(k) PROVE Consistent'
  BY <1>1, NewNodeConsistent
<1>2. ASSUME NEW k \in Node, NEW l \in Letter, GetChild(k, l) PROVE Consistent'
  BY <1>2, SearchConsistent DEF GetChild
<1>3. ASSUME NEW k \in Node, NEW l \in Letter, NEW c \in Node, SetChild(k, l, c)
      PROVE  Consistent'
  BY <1>3, SearchConsistent DEF SetChild
<1>4. CASE Probe
  BY <1>4, ProbeConsistent
<1>5. CASE FoundChild \/ NoChild
  <2>1. /\ UNCHANGED <<next, n>>
        /\ \E value : Return("get_child", value)
    BY <1>5 DEF FoundChild, NoChild
  <2>2. next' \in [Node -> Seq(Edge)] /\ n' \in [Node -> Nat] /\ SortedEdges'
    BY <2>1 DEF Consistent, TypeOK, SortedEdges
  <2> QED
    BY <2>1, <2>2, ReturnConsistent
<1>6. CASE ReplaceChild
  BY <1>6, ReplaceChildChanges, ChangedConsistent DEF ReplaceChild
<1>7. CASE StartCopy
  BY <1>7, StartCopyConsistent
<1>8. CASE CopyLower
  BY <1>8, CopyLowerConsistent
<1>9. CASE AddChild
  BY <1>9, AddChildChanges, ChangedConsistent DEF AddChild
<1>10. CASE UNCHANGED nodeVars
  BY <1>10 DEF nodeVars, locals, Consistent, TypeOK, SortedEdges, CallState,
              SearchState, CopyState
<1> QED
  BY <1>1, <1>2, <1>3, <1>4, <1>5, <1>6, <1>7, <1>8, <1>9, <1>10 DEF Next, Step

LEMMA AlwaysConsistent == Spec => []Consistent
BY InitConsistent, NextConsistent, PTL DEF Spec

(***************************************************************************)
(* dawgnode.h: "pairs -- always sorted by letter", and n counts them.      *)
(***************************************************************************)
THEOREM EdgesStaySorted == Spec => []SortedEdges
BY AlwaysConsistent, PTL DEF Consistent

-----------------------------------------------------------------------------

Children == [k \in Node |-> [l \in Letter |-> ChildOf(k, l)]]

LEMMA ChildrenUnchanged ==
  ASSUME UNCHANGED <<next, n>>
  PROVE  Children' = Children
BY DEF Children, ChildOf

LEMMA ChildrenNew ==
  ASSUME Consistent, NEW k \in Node, NewNode(k)
  PROVE  Children' = [Children EXCEPT ![k] = [l \in Letter |-> NULL]]
<1>1. /\ next' = [next EXCEPT ![k] = <<>>] /\ n' = [n EXCEPT ![k] = 0]
      /\ next \in [Node -> Seq(Edge)] /\ n \in [Node -> Nat]
  BY DEF NewNode, Consistent, TypeOK
<1>2. ASSUME NEW m \in Node, NEW l \in Letter
      PROVE  ChildOf(m, l)' = IF m = k THEN NULL ELSE ChildOf(m, l)
  <2>1. CASE m = k
    <3>1. n'[m] = 0
      BY <1>1, <2>1
    <3>2. \A j \in 1..n'[m] : next'[m][j].letter # l
      BY <3>1
    <3>3. ChildIn(next'[m], n'[m], l) = NULL
      BY <3>2, NoEdgeNoChild, Zenon
    <3> QED
      BY <3>3, <2>1 DEF ChildOf
  <2>2. CASE m # k
    BY <1>1, <2>2 DEF ChildOf
  <2> QED
    BY <2>1, <2>2
<1> QED
  BY <1>2 DEF Children

LEMMA ChildrenSet ==
  ASSUME Consistent, ArrayChanged
  PROVE  Children' = [Children EXCEPT ![node] = [@ EXCEPT ![letter] = child]]
<1>1. PICK t : t = next'[node]
  OBVIOUS
<1>2. PICK s : s = next[node]
  OBVIOUS
<1>3. /\ node \in Node /\ letter \in Letter /\ child \in Node
      /\ t \in Seq(Edge) /\ Sorted(t)
      /\ next' = [next EXCEPT ![node] = t] /\ n' = [n EXCEPT ![node] = Len(t)]
      /\ KeepsOthers(s, t, letter) /\ KeepsOthers(t, s, letter)
  BY <1>1, <1>2 DEF ArrayChanged
<1>4. PICK i \in 1..Len(t) : t[i] = [letter |-> letter, child |-> child]
  BY <1>1 DEF ArrayChanged
<1>5. t[i].letter = letter /\ t[i].child = child
  BY <1>3, <1>4, NewEdge
<1>6. /\ next \in [Node -> Seq(Edge)] /\ n \in [Node -> Nat]
      /\ s \in Seq(Edge) /\ n[node] = Len(s) /\ Sorted(s)
  BY <1>2, <1>3, ArrayFacts DEF Consistent, TypeOK
<1>7. ASSUME NEW m \in Node, NEW l \in Letter, m = node
      PROVE  ChildOf(m, l)' = IF l = letter THEN child ELSE ChildOf(m, l)
  <2>1. ChildIn(t, Len(t), l) = IF l = letter THEN t[i].child ELSE ChildIn(s, Len(s), l)
    BY <1>3, <1>5, <1>6, OneChildChanged, SMTT(30)
  <2>2. next'[m] = t /\ n'[m] = Len(t)
    BY <1>3, <1>6, <1>7
  <2> QED
    BY <1>2, <1>5, <1>6, <1>7, <2>1, <2>2 DEF ChildOf
<1>8. ASSUME NEW m \in Node, NEW l \in Letter, m # node
      PROVE  ChildOf(m, l)' = ChildOf(m, l)
  <2>1. next'[m] = next[m] /\ n'[m] = n[m]
    BY <1>3, <1>6, <1>8
  <2> QED
    BY <2>1 DEF ChildOf
<1>9. ASSUME NEW m \in Node
      PROVE  Children'[m] = IF m = node THEN [Children[m] EXCEPT ![letter] = child]
                            ELSE Children[m]
  <2>1. Children'[m] = [l \in Letter |-> ChildOf(m, l)'] /\ Children[m] = [l \in Letter |-> ChildOf(m, l)]
    BY DEF Children
  <2> QED
    BY <1>7, <1>8, <2>1
<1> QED
  BY <1>3, <1>9 DEF Children

(***************************************************************************)
(* A search that ends returns what the map has.                            *)
(***************************************************************************)
LEMMA FoundIsChild ==
  ASSUME Consistent, FoundChild
  PROVE  node \in Node /\ letter \in Letter /\ At.child = Children[node][letter]
<1>1. /\ Searching /\ At.letter = letter
  BY DEF FoundChild
<1>2. node \in Node /\ letter \in Letter /\ c0 \in 1..n[node]
  BY <1>1, ProbeFacts
<1>3. PICK s : s = next[node]
  OBVIOUS
<1>4. s \in Seq(Edge) /\ n[node] = Len(s) /\ Sorted(s)
  BY <1>2, <1>3, ArrayFacts
<1>5. ChildIn(s, Len(s), letter) = s[c0].child
  BY <1>1, <1>2, <1>3, <1>4, ChildOfEdge DEF At
<1> QED
  BY <1>2, <1>3, <1>4, <1>5 DEF Children, ChildOf, At

LEMMA NoneIsNull ==
  ASSUME Consistent, NoChild
  PROVE  node \in Node /\ letter \in Letter /\ Children[node][letter] = NULL
<1>1. /\ node \in Node /\ letter \in Letter
      /\ \A j \in 1..n[node] : next[node][j].letter # letter
  BY NotThere DEF NoChild
<1>2. ChildIn(next[node], n[node], letter) = NULL
  BY <1>1, NoEdgeNoChild, Zenon
<1> QED
  BY <1>1, <1>2 DEF Children, ChildOf

(***************************************************************************)
(* Each call is one step of the map, at its return (get_child, set_child)  *)
(* or as a whole (dawgnode_new); a search that starts only takes the last  *)
(* answer away, and the iterations of a loop are not seen.                 *)
(***************************************************************************)
LEMMA StepIsClient ==
  ASSUME Consistent, [Next]_nodeVars
  PROVE  [Client!Next]_(<<Children, answer>>)
<1>1. CASE \E k \in Node : NewNode(k)
  <2>1. PICK k \in Node : NewNode(k)
    BY <1>1
  <2>2. Client!New(k)
    BY <2>1, ChildrenNew DEF NewNode, Client!New, NoAnswer, Client!NoAnswer, Children
  <2> QED
    BY <2>2 DEF Client!Next
<1>2. CASE \E k \in Node, l \in Letter :
             GetChild(k, l) \/ \E c \in Node : SetChild(k, l, c)
  <2>1. answer' = NoAnswer /\ UNCHANGED <<next, n>>
    BY <1>2 DEF GetChild, SetChild, Search
  <2>2. Client!Ask
    BY <2>1, ChildrenUnchanged DEF Client!Ask, NoAnswer, Client!NoAnswer, Children
  <2> QED
    BY <2>2 DEF Client!Next
<1>3. CASE Probe \/ StartCopy \/ CopyLower \/ UNCHANGED nodeVars
  <2>1. UNCHANGED <<next, n, answer>>
    BY <1>3 DEF Probe, StartCopy, CopyLower, nodeVars
  <2> QED
    BY <2>1, ChildrenUnchanged
<1>4. CASE FoundChild \/ NoChild
  <2>1. /\ node \in Node /\ letter \in Letter /\ UNCHANGED <<next, n>>
        /\ answer' = [call |-> "get_child", node |-> node, letter |-> letter,
                      value |-> Children[node][letter]]
    BY <1>4, FoundIsChild, NoneIsNull DEF FoundChild, NoChild, Return
  <2>2. Client!Get(node, letter)
    BY <2>1, ChildrenUnchanged DEF Client!Get, Children
  <2> QED
    BY <2>1, <2>2 DEF Client!Next
<1>5. CASE ReplaceChild \/ AddChild
  <2>1. /\ ArrayChanged
        /\ answer' = [call |-> "set_child", node |-> node, letter |-> letter,
                      value |-> child]
    BY <1>5, ReplaceChildChanges, AddChildChanges DEF ReplaceChild, AddChild, Return
  <2>2. node \in Node /\ letter \in Letter /\ child \in Node
    BY <2>1 DEF ArrayChanged
  <2>3. Client!Set(node, letter, child)
    BY <2>1, ChildrenSet DEF Client!Set, Children
  <2> QED
    BY <2>2, <2>3 DEF Client!Next
<1> QED
  BY <1>1, <1>2, <1>3, <1>4, <1>5 DEF Next, Step

LEMMA InitIsClient == Init => Client!Init
<1> SUFFICES ASSUME Init PROVE Client!Init
  OBVIOUS
<1>1. ASSUME NEW k \in Node, NEW l \in Letter PROVE ChildOf(k, l) = NULL
  <2>1. \A j \in 1..n[k] : next[k][j].letter # l
    BY DEF Init
  <2> QED
    BY <2>1, NoEdgeNoChild, Zenon DEF ChildOf
<1> QED
  BY <1>1 DEF Init, Client!Init, NoAnswer, Client!NoAnswer

(***************************************************************************)
(* The sorted arrays of dawgnode.c, searched by halving, and copied for a  *)
(* new edge, are maps from letters to children.                            *)
(***************************************************************************)
THEOREM EdgesAreChildMap == Spec => ImplementsChildMap
<1>1. Consistent /\ [Next]_nodeVars => [Client!Next]_(<<Children, answer>>)
  BY StepIsClient
<1> QED
  BY <1>1, InitIsClient, AlwaysConsistent, PTL
  DEF Spec, ImplementsChildMap, Client!Spec, Children

-----------------------------------------------------------------------------

LEMMA TableStepIsEdgeStep ==
  ASSUME TableNext
  PROVE  [Next]_nodeVars
<1>1. ASSUME NEW k \in Node, Reuse(k)
      PROVE  Next
  BY <1>1 DEF Reuse, Next
<1>2. ASSUME NEW k \in Node, Register(k) \/ RegisterLoaded(k)
      PROVE  UNCHANGED nodeVars
  BY <1>2 DEF Register, RegisterLoaded
<1>3. ASSUME NEW e \in Edited, Lookup(e.node, e.letter) \/ ChangeChild(e.node, e.letter, e.child)
      PROVE  Next
  <2>1. e.node \in Node /\ e.letter \in Letter /\ e.child \in Node
    BY EditedAssumption
  <2> QED
    BY <1>3, <2>1 DEF Lookup, ChangeChild, Next
<1>4. CASE NodeStep
  BY <1>4 DEF NodeStep, Next
<1>5. CASE PutBack \/ Clear \/ Destroy
  BY <1>5 DEF PutBack, Clear, Destroy
<1> QED
  BY <1>1, <1>2, <1>3, <1>4, <1>5 DEF TableNext

(***************************************************************************)
(* The nodes of the registry implement maps from letters to children, also *)
(* while set_child is called between hashtable_del and hashtable_add.      *)
(***************************************************************************)
THEOREM TableNodesAreChildMap == TableSpec => ImplementsChildMap
<1>1. TableInit => Init
  BY DEF TableInit
<1>2. [TableNext]_<<nodeVars, tableVars>> => [Next]_nodeVars
  BY TableStepIsEdgeStep
<1>3. TableSpec => Spec
  BY <1>1, <1>2, PTL DEF TableSpec, Spec
<1> QED
  BY <1>3, EdgesAreChildMap

-----------------------------------------------------------------------------
(***************************************************************************)
(* Tables of items.  A table is well formed when every item is in the      *)
(* bucket of the hash it was filed under and no key is in twice.           *)
(***************************************************************************)
Item == [key : Node, hash : Nat]

Places(t, s) == {p \in (0..(s - 1)) \X (Nat \ {0}) : p[2] <= Len(t[p[1]])}

ItemAt(t, p) == t[p[1]][p[2]]

ItemsOf(t, s) == {ItemAt(t, p) : p \in Places(t, s)}

KeysOf(t, s) == {x.key : x \in ItemsOf(t, s)}

WellFormed(t, s) ==
  /\ s \in Nat /\ t \in [0..(s - 1) -> Seq(Item)]
  /\ \A p \in Places(t, s) : ItemAt(t, p).hash % s = p[1]
  /\ \A p, q \in Places(t, s) : ItemAt(t, p).key = ItemAt(t, q).key => p = q

LEMMA PlaceAt ==
  ASSUME NEW s, NEW t, NEW index, NEW j
  PROVE  /\ <<index, j>> \in Places(t, s) <=>
              index \in 0..(s - 1) /\ j \in Nat \ {0} /\ j <= Len(t[index])
         /\ ItemAt(t, <<index, j>>) = t[index][j]
BY DEF Places, ItemAt

LEMMA PlaceFacts ==
  ASSUME NEW s, NEW t, WellFormed(t, s), NEW p \in Places(t, s)
  PROVE  /\ p[1] \in 0..(s - 1) /\ t[p[1]] \in Seq(Item)
         /\ Len(t[p[1]]) \in Nat /\ p[2] \in 1..Len(t[p[1]])
         /\ ItemAt(t, p) \in Item /\ ItemAt(t, p) \in ItemsOf(t, s)
         /\ p = <<p[1], p[2]>>
<1>1. p[1] \in 0..(s - 1) /\ t[p[1]] \in Seq(Item) /\ p[2] \in Nat \ {0}
      /\ p[2] <= Len(t[p[1]]) /\ p = <<p[1], p[2]>>
  BY DEF WellFormed, Places
<1>2. Len(t[p[1]]) \in Nat
  BY <1>1, LenProperties
<1>3. p[2] \in 1..Len(t[p[1]])
  BY <1>1, <1>2
<1>4. ItemAt(t, p) \in Item
  BY <1>1, <1>3, ElementOfSeq DEF ItemAt
<1> QED
  BY <1>1, <1>2, <1>3, <1>4 DEF ItemsOf

LEMMA IsPlace ==
  ASSUME NEW s, NEW t, WellFormed(t, s), NEW index \in 0..(s - 1), NEW j \in 1..Len(t[index])
  PROVE  <<index, j>> \in Places(t, s) /\ ItemAt(t, <<index, j>>) = t[index][j]
<1>1. Len(t[index]) \in Nat
  BY LenProperties DEF WellFormed
<1> QED
  BY <1>1 DEF Places, ItemAt

LEMMA EmptyTableWellFormed ==
  ASSUME NEW s \in Nat
  PROVE  WellFormed(T!EmptyTable(s), s) /\ ItemsOf(T!EmptyTable(s), s) = {}
<1>1. T!EmptyTable(s) \in [0..(s - 1) -> Seq(Item)]
  BY DEF T!EmptyTable
<1>2. Places(T!EmptyTable(s), s) = {}
  BY DEF T!EmptyTable, Places
<1> QED
  BY <1>1, <1>2 DEF WellFormed, ItemsOf

(***************************************************************************)
(* hashtable_add puts an item whose key is not in at the head of a bucket. *)
(***************************************************************************)
LEMMA HeadAdded ==
  ASSUME NEW s, s # 0, NEW t, WellFormed(t, s),
         NEW x \in Item, x.key \notin KeysOf(t, s),
         NEW u, u = [t EXCEPT ![x.hash % s] = <<x>> \o @]
  PROVE  WellFormed(u, s) /\ ItemsOf(u, s) = ItemsOf(t, s) \cup {x}
<1> DEFINE at == x.hash % s
           Moved(p) == IF p[1] = at THEN <<at, p[2] + 1>> ELSE p
<1>1. s \in Nat \ {0} /\ x.hash \in Nat /\ at \in 0..(s - 1)
  BY DEF WellFormed, Item
<1> HIDE DEF at
<1>2. t \in [0..(s - 1) -> Seq(Item)] /\ t[at] \in Seq(Item) /\ Len(t[at]) \in Nat
  BY <1>1, LenProperties DEF WellFormed
<1>3. /\ <<x>> \o t[at] \in Seq(Item) /\ Len(<<x>> \o t[at]) = Len(t[at]) + 1
      /\ (<<x>> \o t[at])[1] = x
      /\ \A j \in 1..Len(t[at]) : (<<x>> \o t[at])[j + 1] = t[at][j]
  BY <1>2
<1>4. /\ u \in [0..(s - 1) -> Seq(Item)]
      /\ u[at] = <<x>> \o t[at]
      /\ \A i \in 0..(s - 1) : i # at => u[i] = t[i]
  BY <1>1, <1>2, <1>3 DEF at
<1>5. <<at, 1>> \in Places(u, s) /\ ItemAt(u, <<at, 1>>) = x
  BY <1>1, <1>2, <1>3, <1>4, SMTT(30) DEF Places, ItemAt
<1>6. ASSUME NEW p \in Places(t, s)
      PROVE  Moved(p) \in Places(u, s) /\ ItemAt(u, Moved(p)) = ItemAt(t, p)
  <2>1. CASE p[1] = at
    <3>1. p[2] \in 1..Len(t[at])
      BY <2>1, PlaceFacts
    <3>2. <<at, p[2] + 1>> \in Places(u, s)
      <4>1. p[2] + 1 \in Nat \ {0} /\ p[2] + 1 <= Len(t[at]) + 1
        BY <3>1, <1>2
      <4>2. Len(u[at]) = Len(t[at]) + 1
        BY <1>3, <1>4
      <4>3. p[2] + 1 <= Len(u[at])
        BY <4>1, <4>2
      <4> QED
        BY <4>1, <4>3, <1>1, PlaceAt, Zenon
    <3>3. u[at][p[2] + 1] = t[at][p[2]]
      BY <3>1, <1>3, <1>4
    <3> QED
      BY <2>1, <3>2, <3>3 DEF ItemAt
  <2>2. CASE p[1] # at
    BY <2>2, <1>4 DEF Places, ItemAt
  <2> QED
    BY <2>1, <2>2
<1>7. ASSUME NEW q \in Places(u, s)
      PROVE  q = <<at, 1>> \/ \E p \in Places(t, s) : q = Moved(p) /\ p[1] = q[1]
  <2>1. q = <<q[1], q[2]>> /\ q[1] \in 0..(s - 1) /\ q[2] \in Nat \ {0} /\ q[2] <= Len(u[q[1]])
    BY DEF Places
  <2>2. CASE q[1] = at /\ q[2] # 1
    <3> DEFINE p == <<at, q[2] - 1>>
    <3>0. Len(u[at]) = Len(t[at]) + 1
      BY <1>3, <1>4
    <3>1. p \in Places(t, s) /\ p[1] = at /\ p[2] = q[2] - 1
      <4>1. q[2] - 1 \in Nat \ {0} /\ q[2] - 1 <= Len(t[at])
        BY <2>1, <2>2, <1>2, <3>0
      <4> QED
        BY <4>1, <1>1, PlaceAt
    <3>2. (q[2] - 1) + 1 = q[2]
      BY <2>1
    <3>3. q = Moved(p)
      BY <2>1, <2>2, <3>1, <3>2
    <3> QED
      BY <3>1, <3>3, <2>2
  <2>3. CASE q[1] # at
    <3>1. q \in Places(t, s) /\ q = Moved(q)
      BY <2>1, <2>3, <1>4 DEF Places
    <3> QED
      BY <3>1
  <2> QED
    BY <2>1, <2>2, <2>3
<1>8. \A p \in Places(t, s) : ItemAt(t, p).key # x.key
  BY PlaceFacts DEF KeysOf
<1>9. \A q \in Places(u, s) : ItemAt(u, q).hash % s = q[1]
  <2> TAKE q \in Places(u, s)
  <2>1. CASE q = <<at, 1>>
    BY <2>1, <1>5 DEF at
  <2>2. CASE \E p \in Places(t, s) : q = Moved(p) /\ p[1] = q[1]
    <3>1. PICK p \in Places(t, s) : q = Moved(p) /\ p[1] = q[1]
      BY <2>2
    <3>2. ItemAt(u, q) = ItemAt(t, p)
      BY <3>1, <1>6
    <3> QED
      BY <3>1, <3>2 DEF WellFormed
  <2> QED
    BY <2>1, <2>2, <1>7
<1>10. ASSUME NEW q \in Places(u, s), NEW r \in Places(u, s), ItemAt(u, q).key = ItemAt(u, r).key
       PROVE  q = r
  <2>1. CASE q = <<at, 1>> \/ r = <<at, 1>>
    <3>1. \A p \in Places(t, s) : ItemAt(u, Moved(p)).key # x.key
      BY <1>6, <1>8
    <3>2. \A p \in Places(u, s) : p # <<at, 1>> => ItemAt(u, p).key # x.key
      BY <3>1, <1>7
    <3> QED
      BY <2>1, <3>2, <1>5, <1>10
  <2>2. CASE q # <<at, 1>> /\ r # <<at, 1>>
    <3>1. PICK p \in Places(t, s) : q = Moved(p)
      BY <2>2, <1>7
    <3>2. PICK o \in Places(t, s) : r = Moved(o)
      BY <2>2, <1>7
    <3>3. ItemAt(t, p).key = ItemAt(t, o).key
      BY <3>1, <3>2, <1>6, <1>10
    <3>4. p = o
      BY <3>3 DEF WellFormed
    <3> QED
      BY <3>1, <3>2, <3>4
  <2> QED
    BY <2>1, <2>2
<1>11. ItemsOf(u, s) = ItemsOf(t, s) \cup {x}
  <2>1. ASSUME NEW y \in ItemsOf(u, s) PROVE y \in ItemsOf(t, s) \cup {x}
    <3>1. PICK q \in Places(u, s) : y = ItemAt(u, q)
      BY DEF ItemsOf
    <3>2. CASE q = <<at, 1>>
      BY <3>1, <3>2, <1>5
    <3>3. CASE \E p \in Places(t, s) : q = Moved(p) /\ p[1] = q[1]
      <4>1. PICK p \in Places(t, s) : q = Moved(p)
        BY <3>3
      <4>2. y = ItemAt(t, p)
        BY <3>1, <4>1, <1>6
      <4> QED
        BY <4>2, PlaceFacts
    <3> QED
      BY <3>2, <3>3, <1>7
  <2>2. ASSUME NEW y \in ItemsOf(t, s) PROVE y \in ItemsOf(u, s)
    <3>1. PICK p \in Places(t, s) : y = ItemAt(t, p)
      BY DEF ItemsOf
    <3>2. Moved(p) \in Places(u, s) /\ ItemAt(u, Moved(p)) = y
      BY <3>1, <1>6
    <3> QED
      BY <3>2 DEF ItemsOf
  <2>3. x \in ItemsOf(u, s)
    BY <1>5 DEF ItemsOf
  <2> QED
    BY <2>1, <2>2, <2>3
<1> QED
  BY <1>1, <1>4, <1>9, <1>10, <1>11 DEF WellFormed

(***************************************************************************)
(* hashtable_del unlinks an item, wherever in its bucket it is.            *)
(***************************************************************************)
Unlinked(t, o) ==
  [t EXCEPT ![o[1]] = SubSeq(@, 1, o[2] - 1) \o SubSeq(@, o[2] + 1, Len(@))]

LEMMA ItemUnlinked ==
  ASSUME NEW s, NEW t, WellFormed(t, s), NEW o \in Places(t, s), NEW u, u = Unlinked(t, o)
  PROVE  WellFormed(u, s) /\ ItemsOf(u, s) = ItemsOf(t, s) \ {ItemAt(t, o)}
<1> DEFINE at == o[1]
           j == o[2]
           Was(q) == IF q[1] = at /\ q[2] >= j THEN <<at, q[2] + 1>> ELSE q
           Becomes(p) == IF p[1] = at /\ p[2] > j THEN <<at, p[2] - 1>> ELSE p
<1>1. s \in Nat /\ at \in 0..(s - 1) /\ t[at] \in Seq(Item) /\ Len(t[at]) \in Nat
      /\ j \in 1..Len(t[at]) /\ o = <<at, j>>
  BY PlaceFacts DEF WellFormed
<1>2. t \in [0..(s - 1) -> Seq(Item)]
  BY DEF WellFormed
<1>3. PICK left : left = SubSeq(t[at], 1, j - 1)
  OBVIOUS
<1>4. PICK right : right = SubSeq(t[at], j + 1, Len(t[at]))
  OBVIOUS
<1>5. PICK joined : joined = left \o right
  OBVIOUS
<1>5a. PICK L : L = Len(t[at])
  OBVIOUS
<1>5b. u = [t EXCEPT ![at] = joined]
  BY <1>3, <1>4, <1>5 DEF Unlinked
<1> HIDE DEF at, j
<1>6. L \in Nat /\ j \in 1..L /\ \A i \in 1..L : t[at][i] \in Item
  BY <1>1, <1>5a, ElementOfSeq
<1>7. /\ left \in Seq(Item) /\ Len(left) = j - 1
      /\ \A i \in 1..(j - 1) : left[i] = t[at][i]
  BY <1>1, <1>3, <1>5a, <1>6
<1>8. /\ right \in Seq(Item) /\ Len(right) = L - j
      /\ \A i \in 1..(L - j) : right[i] = t[at][j + 1 + i - 1]
  <2>1. \A i \in (j + 1)..L : t[at][i] \in Item
    BY <1>6
  <2>2. /\ right \in Seq(Item) /\ Len(right) = IF j + 1 <= L THEN L - (j + 1) + 1 ELSE 0
        /\ \A i \in 1..(L - (j + 1) + 1) : right[i] = t[at][j + 1 + i - 1]
    BY <1>1, <1>4, <1>5a, <1>6, <2>1, SubSeqProperties
  <2> QED
    BY <2>2, <1>6
<1>9. /\ joined \in Seq(Item) /\ Len(joined) = L - 1
      /\ \A i \in 1..(L - 1) : joined[i] = IF i < j THEN t[at][i] ELSE t[at][i + 1]
  <2>1. /\ joined \in Seq(Item) /\ Len(joined) = Len(left) + Len(right)
        /\ \A i \in 1..(Len(left) + Len(right)) :
             joined[i] = IF i <= Len(left) THEN left[i] ELSE right[i - Len(left)]
    BY <1>5, <1>7, <1>8, ConcatProperties
  <2>2. Len(joined) = L - 1 /\ Len(left) + Len(right) = L - 1 /\ Len(left) = j - 1
    BY <2>1, <1>6, <1>7, <1>8
  <2>3. ASSUME NEW i \in 1..(L - 1)
        PROVE  joined[i] = IF i < j THEN t[at][i] ELSE t[at][i + 1]
    <3>1. joined[i] = IF i <= j - 1 THEN left[i] ELSE right[i - (j - 1)]
      BY <2>1, <2>2
    <3>2. CASE i < j
      <4>1. i \in 1..(j - 1)
        BY <3>2, <1>6
      <4> QED
        BY <4>1, <3>1, <3>2, <1>6, <1>7
    <3>3. CASE ~(i < j)
      <4>1. i - (j - 1) \in 1..(L - j) /\ j + 1 + (i - (j - 1)) - 1 = i + 1 /\ ~(i <= j - 1)
        BY <3>3, <1>6
      <4>2. right[i - (j - 1)] = t[at][i + 1]
        BY <4>1, <1>8
      <4> QED
        BY <4>1, <4>2, <3>1, <3>3
    <3> QED
      BY <3>2, <3>3
  <2> QED
    BY <2>1, <2>2, <2>3
<1>10a. Len(joined) = L - 1
  BY <1>9
<1>10. /\ u \in [0..(s - 1) -> Seq(Item)]
       /\ u[at] = joined
       /\ \A i \in 0..(s - 1) : i # at => u[i] = t[i]
  BY <1>1, <1>2, <1>5b, <1>9
<1>11. ASSUME NEW q \in Places(u, s)
       PROVE  /\ Was(q) \in Places(t, s) /\ ItemAt(t, Was(q)) = ItemAt(u, q)
              /\ Was(q)[1] = q[1] /\ Was(q) # o
  <2>1. q = <<q[1], q[2]>> /\ q[1] \in 0..(s - 1) /\ q[2] \in Nat \ {0} /\ q[2] <= Len(u[q[1]])
    BY DEF Places
  <2>2. CASE q[1] = at
    <3>1. q[2] \in 1..(L - 1) /\ ItemAt(u, q) = joined[q[2]]
      <4>1. q[2] <= L - 1
        BY <2>1, <2>2, <1>10, <1>10a
      <4>2. ItemAt(u, q) = u[at][q[2]]
        BY <2>2 DEF ItemAt
      <4>3. q[2] \in 1..(L - 1)
        BY <4>1, <2>1, <1>6
      <4> QED
        BY <4>2, <4>3, <1>10
    <3>2. PICK m \in 1..L : Was(q) = <<at, m>> /\ m # j /\ joined[q[2]] = t[at][m]
      <4>1. CASE q[2] < j
        BY <3>1, <4>1, <2>1, <2>2, <1>6, <1>9
      <4>2. CASE ~(q[2] < j)
        <5>1. q[2] + 1 \in 1..L /\ q[2] + 1 # j /\ q[2] >= j
          BY <3>1, <4>2, <1>6
        <5> QED
          BY <5>1, <3>1, <4>2, <2>2, <1>9
      <4> QED
        BY <4>1, <4>2
    <3>3. m \in Nat \ {0} /\ m <= Len(t[at])
      BY <1>5a, <1>6
    <3>4. <<at, m>> \in Places(t, s) /\ ItemAt(t, <<at, m>>) = t[at][m]
      BY <3>3, <1>1, PlaceAt, SMTT(30)
    <3>5. <<at, m>> # o
      BY <3>2, <1>1
    <3> QED
      BY <3>1, <3>2, <3>4, <3>5, <2>2
  <2>3. CASE q[1] # at
    <3>1. Was(q) = q /\ u[q[1]] = t[q[1]]
      BY <2>1, <2>3, <1>10
    <3>2. ItemAt(t, q) = ItemAt(u, q)
      BY <3>1 DEF ItemAt
    <3>3. <<q[1], q[2]>> \in Places(t, s)
      BY <2>1, <3>1, PlaceAt
    <3>4. q # o
      BY <2>3, <1>1
    <3> QED
      BY <2>1, <3>1, <3>2, <3>3, <3>4
  <2> QED
    BY <2>2, <2>3
<1>12. ASSUME NEW p \in Places(t, s), p # o
       PROVE  /\ Becomes(p) \in Places(u, s) /\ ItemAt(u, Becomes(p)) = ItemAt(t, p)
  <2>1. p = <<p[1], p[2]>> /\ p[1] \in 0..(s - 1) /\ p[2] \in Nat \ {0} /\ p[2] <= Len(t[p[1]])
    BY DEF Places
  <2>2. CASE p[1] = at
    <3>1. p[2] # j /\ p[2] \in 1..L
      BY <2>1, <2>2, <1>1, <1>5a, <1>6, <1>12
    <3>2. PICK m \in 1..(L - 1) : Becomes(p) = <<at, m>> /\ joined[m] = t[at][p[2]]
      <4>1. CASE p[2] < j
        <5>1. p[2] \in 1..(L - 1) /\ ~(p[2] > j)
          BY <3>1, <4>1, <1>6
        <5> QED
          BY <5>1, <4>1, <2>1, <2>2, <1>9
      <4>2. CASE p[2] > j
        <5>1. p[2] - 1 \in 1..(L - 1) /\ ~(p[2] - 1 < j) /\ (p[2] - 1) + 1 = p[2]
          BY <3>1, <4>2, <1>6
        <5> QED
          BY <5>1, <4>2, <2>2, <1>9
      <4> QED
        BY <4>1, <4>2, <3>1, <1>6
    <3>3. m \in Nat \ {0} /\ m <= L - 1
      BY <1>6
    <3>4. m <= Len(u[at]) /\ u[at] = joined
      BY <3>3, <1>10, <1>10a
    <3>5a. <<at, m>> \in Places(u, s) /\ ItemAt(u, <<at, m>>) = u[at][m]
      <4>1. m <= Len(u[at]) /\ m \in Nat \ {0} /\ at \in 0..(s - 1)
        BY <3>3, <3>4, <1>1
      <4>2. <<at, m>> \in Places(u, s)
        BY <4>1, PlaceAt, Zenon
      <4>3. ItemAt(u, <<at, m>>) = u[at][m]
        BY DEF ItemAt
      <4> QED
        BY <4>2, <4>3
    <3>5. <<at, m>> \in Places(u, s) /\ ItemAt(u, <<at, m>>) = joined[m]
      BY <3>5a, <3>4
    <3>6. ItemAt(t, p) = t[at][p[2]]
      BY <2>2 DEF ItemAt
    <3> QED
      BY <3>2, <3>5, <3>6
  <2>3. CASE p[1] # at
    <3>1. Becomes(p) = p /\ u[p[1]] = t[p[1]]
      BY <2>1, <2>3, <1>10
    <3>2. ItemAt(t, p) = ItemAt(u, p)
      BY <3>1 DEF ItemAt
    <3>3. <<p[1], p[2]>> \in Places(u, s)
      BY <2>1, <3>1, PlaceAt
    <3> QED
      BY <2>1, <3>1, <3>2, <3>3
  <2> QED
    BY <2>2, <2>3
<1> HIDE DEF Was
<1>13. \A q \in Places(u, s) : ItemAt(u, q).hash % s = q[1]
  BY <1>11 DEF WellFormed
<1>14. ASSUME NEW q \in Places(u, s), NEW r \in Places(u, s), ItemAt(u, q).key = ItemAt(u, r).key
       PROVE  q = r
  <2>1. Was(q) = Was(r)
    <3>1. Was(q) \in Places(t, s) /\ Was(r) \in Places(t, s)
          /\ ItemAt(t, Was(q)).key = ItemAt(t, Was(r)).key
      BY <1>11, <1>14
    <3> QED
      BY <3>1, Zenon DEF WellFormed
  <2>2. q = <<q[1], q[2]>> /\ r = <<r[1], r[2]>> /\ q[2] \in Nat /\ r[2] \in Nat /\ j \in Nat
    BY <1>1 DEF Places
  <2>3. q[1] = r[1]
    <3>1. Was(q)[1] = q[1] /\ Was(r)[1] = r[1]
      BY <1>11, Zenon
    <3> QED
      BY <3>1, <2>1
  <2> QED
    BY <2>1, <2>2, <2>3 DEF Was
<1>15. ItemsOf(u, s) = ItemsOf(t, s) \ {ItemAt(t, o)}
  <2>1. ASSUME NEW y \in ItemsOf(u, s) PROVE y \in ItemsOf(t, s) /\ y # ItemAt(t, o)
    <3>1. PICK q \in Places(u, s) : y = ItemAt(u, q)
      BY DEF ItemsOf
    <3>2. Was(q) \in Places(t, s) /\ ItemAt(t, Was(q)) = y /\ Was(q) # o
      BY <3>1, <1>11
    <3>3. y # ItemAt(t, o)
      BY <3>2 DEF WellFormed
    <3> QED
      BY <3>2, <3>3, PlaceFacts
  <2>2. ASSUME NEW y \in ItemsOf(t, s), y # ItemAt(t, o) PROVE y \in ItemsOf(u, s)
    <3>1. PICK p \in Places(t, s) : y = ItemAt(t, p)
      BY DEF ItemsOf
    <3>2. p # o
      BY <3>1, <2>2
    <3>3. Becomes(p) \in Places(u, s) /\ ItemAt(u, Becomes(p)) = y
      BY <3>1, <3>2, <1>12
    <3> QED
      BY <3>3 DEF ItemsOf
  <2> QED
    BY <2>1, <2>2
<1> QED
  BY <1>1, <1>10, <1>13, <1>14, <1>15 DEF WellFormed

-----------------------------------------------------------------------------
(***************************************************************************)
(* Growing the table.  The loops of hashtable_resize denote functions, and *)
(* what they build is well formed and holds the items of the old table.    *)
(***************************************************************************)
LEMMA LeastIndex ==
  ASSUME NEW S, S \subseteq Nat, S # {}
  PROVE  \E x \in S : \A y \in S : x <= y
<1>1. IsWellFoundedOn(OpToRel(<, Nat), Nat)
  BY NatLessThanWellFounded
<1>2. PICK x \in S : \A y \in S : ~ (<<y, x>> \in OpToRel(<, Nat))
  BY <1>1, WFMin
<1>3. \A y \in S : ~ (y < x)
  BY <1>2 DEF OpToRel
<1> QED
  BY <1>3

Into(u, x, s) == [u EXCEPT ![x.hash % s] = <<x>> \o @]

MovesItems(h, bucket, new, s, m) ==
  h = [j \in 0..m |-> IF j = 0 THEN new ELSE Into(h[j - 1], bucket[j], s)]

LEMMA ItemsMove ==
  ASSUME NEW bucket, NEW new, NEW s, NEW m \in Nat
  PROVE  \E h : MovesItems(h, bucket, new, s, m)
<1> DEFINE Bad == {n0 \in Nat : ~ \E h : MovesItems(h, bucket, new, s, n0)}
<1> SUFFICES ASSUME Bad # {} PROVE FALSE
  OBVIOUS
<1>1. PICK n0 \in Bad : \A y \in Bad : n0 <= y
  BY LeastIndex
<1>2. CASE n0 = 0
  <2>1. MovesItems([j \in 0..0 |-> new], bucket, new, s, 0)
    BY DEF MovesItems
  <2> QED
    BY <2>1, <1>2
<1>3. CASE n0 # 0
  <2>1. n0 - 1 \in Nat /\ n0 - 1 \notin Bad
    BY <1>1, <1>3
  <2>2. PICK h : MovesItems(h, bucket, new, s, n0 - 1)
    BY <2>1
  <2> DEFINE e == [j \in 0..n0 |-> IF j = n0 THEN Into(h[n0 - 1], bucket[n0], s) ELSE h[j]]
  <2>3. ASSUME NEW j \in 0..n0
        PROVE  e[j] = IF j = 0 THEN new ELSE Into(e[j - 1], bucket[j], s)
    <3>1. CASE j = n0
      BY <3>1, <1>3
    <3>2. CASE j # n0
      <4>1. j \in 0..(n0 - 1) /\ j - 1 # n0
        BY <3>2
      <4>2. j # 0 => e[j - 1] = h[j - 1]
        BY <4>1
      <4>3. h[j] = IF j = 0 THEN new ELSE Into(h[j - 1], bucket[j], s)
        BY <2>2, <4>1 DEF MovesItems
      <4> QED
        BY <4>1, <4>2, <4>3, <3>2
    <3> QED
      BY <3>1, <3>2
  <2>4. MovesItems(e, bucket, new, s, n0)
    BY <2>3 DEF MovesItems
  <2> QED
    BY <2>4
<1> QED
  BY <1>2, <1>3

LEMMA SameCardinality == \A S : T!Cardinality(S) = Cardinality(S)
BY Zenon DEF T!Cardinality, Cardinality, T!IsFiniteSet, IsFiniteSet

LEMMA BucketMovedLoop ==
  ASSUME NEW bucket, Len(bucket) \in Nat, NEW new, NEW s, Cardinality(DOMAIN new) = s
  PROVE  \E h : /\ MovesItems(h, bucket, new, s, Len(bucket))
                /\ T!BucketMoved(bucket, new) = h[Len(bucket)]
<1> DEFINE R(h) == h = [j \in 0..Len(bucket) |->
                         IF j = 0 THEN new
                         ELSE [h[j - 1] EXCEPT
                                 ![bucket[j].hash % Cardinality(DOMAIN new)] = <<bucket[j]>> \o @]]
<1>1. \A h : R(h) <=> MovesItems(h, bucket, new, s, Len(bucket))
  BY DEF MovesItems, Into
<1>2. \E h : R(h)
  BY <1>1, ItemsMove
<1>3. R(CHOOSE h : R(h))
  BY <1>2
<1>4. T!BucketMoved(bucket, new) = (CHOOSE h : R(h))[Len(bucket)]
  BY SameCardinality, Zenon DEF T!BucketMoved, T!MovedTo
<1> QED
  BY <1>1, <1>3, <1>4

LEMMA BucketMovedItems ==
  ASSUME NEW s \in Nat \ {0}, NEW new, WellFormed(new, s), NEW bucket \in Seq(Item),
         \A i, j \in 1..Len(bucket) : bucket[i].key = bucket[j].key => i = j,
         \A j \in 1..Len(bucket) : bucket[j].key \notin KeysOf(new, s)
  PROVE  /\ WellFormed(T!BucketMoved(bucket, new), s)
         /\ ItemsOf(T!BucketMoved(bucket, new), s)
              = ItemsOf(new, s) \cup {bucket[j] : j \in 1..Len(bucket)}
<1>1. Len(bucket) \in Nat /\ \A j \in 1..Len(bucket) : bucket[j] \in Item
  BY LenProperties, ElementOfSeq
<1>2. Cardinality(DOMAIN new) = s
  <2>1. DOMAIN new = 0..(s - 1)
    BY DEF WellFormed
  <2>2. Cardinality(0..(s - 1)) = IF 0 > s - 1 THEN 0 ELSE (s - 1) - 0 + 1
    BY FS_Interval
  <2> QED
    BY <2>1, <2>2
<1>3. PICK h : /\ MovesItems(h, bucket, new, s, Len(bucket))
               /\ T!BucketMoved(bucket, new) = h[Len(bucket)]
  BY <1>1, <1>2, BucketMovedLoop
<1>4. h[0] = new /\ \A j \in 1..Len(bucket) : h[j] = Into(h[j - 1], bucket[j], s)
  <2>1. \A j \in 0..Len(bucket) : h[j] = IF j = 0 THEN new ELSE Into(h[j - 1], bucket[j], s)
    BY <1>3, Zenon DEF MovesItems
  <2>2. 0 \in 0..Len(bucket) /\ \A j \in 1..Len(bucket) : j \in 0..Len(bucket) /\ j # 0
    BY <1>1
  <2> QED
    BY <2>1, <2>2
<1> DEFINE Good(j) == /\ WellFormed(h[j], s)
                      /\ ItemsOf(h[j], s) = ItemsOf(new, s) \cup {bucket[i] : i \in 1..j}
           Bad == {j \in 0..Len(bucket) : ~Good(j)}
<1>5. Good(0)
  <2>1. {bucket[i] : i \in 1..0} = {}
    OBVIOUS
  <2> QED
    BY <2>1, <1>4
<1>6. ASSUME NEW j \in 1..Len(bucket), Good(j - 1)
      PROVE  Good(j)
  <2>1. bucket[j] \in Item /\ j \in Nat
    BY <1>1
  <2>2. bucket[j].key \notin KeysOf(h[j - 1], s)
    <3> SUFFICES ASSUME NEW y \in ItemsOf(h[j - 1], s), y.key = bucket[j].key
                 PROVE  FALSE
      BY DEF KeysOf
    <3>1. CASE y \in ItemsOf(new, s)
      BY <3>1 DEF KeysOf
    <3>2. CASE y \in {bucket[i] : i \in 1..(j - 1)}
      <4>1. PICK i \in 1..(j - 1) : y = bucket[i]
        BY <3>2
      <4>2. i \in 1..Len(bucket) /\ i # j
        BY <4>1, <1>1
      <4> QED
        BY <4>1, <4>2
    <3> QED
      BY <3>1, <3>2, <1>6
  <2>3. h[j] = [h[j - 1] EXCEPT ![bucket[j].hash % s] = <<bucket[j]>> \o @]
    BY <1>4 DEF Into
  <2>4. WellFormed(h[j], s) /\ ItemsOf(h[j], s) = ItemsOf(h[j - 1], s) \cup {bucket[j]}
    <3>1. WellFormed(h[j - 1], s) /\ s # 0
      BY <1>6
    <3>2. PICK t : t = h[j - 1]
      OBVIOUS
    <3>3. PICK x : x = bucket[j]
      OBVIOUS
    <3>4. WellFormed(t, s) /\ x \in Item /\ x.key \notin KeysOf(t, s)
          /\ h[j] = [t EXCEPT ![x.hash % s] = <<x>> \o @]
      BY <2>1, <2>2, <2>3, <3>1, <3>2, <3>3
    <3>5. WellFormed(h[j], s) /\ ItemsOf(h[j], s) = ItemsOf(t, s) \cup {x}
      BY <3>1, <3>4, HeadAdded
    <3> QED
      BY <3>2, <3>3, <3>5
  <2>5. {bucket[i] : i \in 1..j} = {bucket[i] : i \in 1..(j - 1)} \cup {bucket[j]}
    <3>1. \A i \in 1..j : i \in 1..(j - 1) \/ i = j
      BY <2>1
    <3>2. \A i \in 1..(j - 1) : i \in 1..j
      BY <2>1
    <3>3. j \in 1..j
      BY <1>6
    <3> QED
      BY <3>1, <3>2, <3>3
  <2> QED
    BY <2>4, <2>5, <1>6
<1>7. ASSUME Bad # {} PROVE FALSE
  <2>1. PICK j \in Bad : \A y \in Bad : j <= y
    <3>1. Bad \subseteq Nat
      BY <1>1
    <3> QED
      BY <3>1, <1>7, LeastIndex
  <2>2. j # 0
    BY <2>1, <1>5
  <2>3. j \in 1..Len(bucket) /\ j - 1 \in 0..Len(bucket) /\ ~(j <= j - 1)
    BY <2>1, <2>2, <1>1
  <2>4. Good(j - 1)
    BY <2>1, <2>3, Zenon
  <2> QED
    BY <2>1, <2>3, <2>4, <1>6
<1>8. Good(Len(bucket))
  <2>1. Len(bucket) \in 0..Len(bucket)
    BY <1>1
  <2> QED
    BY <2>1, <1>7, Zenon
<1> QED
  BY <1>8, <1>3

MovesBuckets(h, t, newsize, m) ==
  h = [i \in 0..m |-> IF i = 0 THEN T!EmptyTable(newsize) ELSE T!BucketMoved(t[i - 1], h[i - 1])]

LEMMA BucketsMove ==
  ASSUME NEW t, NEW newsize, NEW m \in Nat
  PROVE  \E h : MovesBuckets(h, t, newsize, m)
<1> DEFINE Bad == {n0 \in Nat : ~ \E h : MovesBuckets(h, t, newsize, n0)}
<1> SUFFICES ASSUME Bad # {} PROVE FALSE
  OBVIOUS
<1>1. PICK n0 \in Bad : \A y \in Bad : n0 <= y
  BY LeastIndex
<1>2. CASE n0 = 0
  <2>1. MovesBuckets([i \in 0..0 |-> T!EmptyTable(newsize)], t, newsize, 0)
    BY DEF MovesBuckets
  <2> QED
    BY <2>1, <1>2
<1>3. CASE n0 # 0
  <2>1. n0 - 1 \in Nat /\ n0 - 1 \notin Bad
    BY <1>1, <1>3
  <2>2. PICK h : MovesBuckets(h, t, newsize, n0 - 1)
    BY <2>1
  <2> DEFINE e == [i \in 0..n0 |-> IF i = n0 THEN T!BucketMoved(t[n0 - 1], h[n0 - 1]) ELSE h[i]]
  <2>3. ASSUME NEW i \in 0..n0
        PROVE  e[i] = IF i = 0 THEN T!EmptyTable(newsize) ELSE T!BucketMoved(t[i - 1], e[i - 1])
    <3>1. CASE i = n0
      BY <3>1, <1>3
    <3>2. CASE i # n0
      <4>1. i \in 0..(n0 - 1) /\ i - 1 # n0
        BY <3>2
      <4>2. i # 0 => e[i - 1] = h[i - 1]
        BY <4>1
      <4>3. h[i] = IF i = 0 THEN T!EmptyTable(newsize) ELSE T!BucketMoved(t[i - 1], h[i - 1])
        BY <2>2, <4>1 DEF MovesBuckets
      <4> QED
        BY <4>1, <4>2, <4>3, <3>2
    <3> QED
      BY <3>1, <3>2
  <2>4. MovesBuckets(e, t, newsize, n0)
    BY <2>3 DEF MovesBuckets
  <2> QED
    BY <2>4
<1> QED
  BY <1>2, <1>3

LEMMA ResizedLoop ==
  ASSUME NEW t, NEW s \in Nat, Cardinality(DOMAIN t) = s, NEW newsize
  PROVE  \E h : MovesBuckets(h, t, newsize, s) /\ T!Resized(t, newsize) = h[s]
<1> DEFINE R(h) == h = [i \in 0..s |-> IF i = 0 THEN T!EmptyTable(newsize)
                                       ELSE T!BucketMoved(t[i - 1], h[i - 1])]
<1>1. \A h : R(h) <=> MovesBuckets(h, t, newsize, s)
  BY DEF MovesBuckets
<1>2. \E h : R(h)
  BY <1>1, BucketsMove
<1>3. R(CHOOSE h : R(h))
  BY <1>2
<1>4. T!Cardinality(DOMAIN t) = s
  BY SameCardinality
<1>5. T!Resized(t, newsize) = (CHOOSE h : R(h))[s]
  BY <1>4, Zenon DEF T!Resized
<1> QED
  BY <1>1, <1>3, <1>5

(***************************************************************************)
(* The table grows: every item is in a bucket of the new table, once.      *)
(***************************************************************************)
LEMMA ResizedItems ==
  ASSUME NEW s, NEW t, WellFormed(t, s), NEW newsize \in Nat \ {0}
  PROVE  /\ WellFormed(T!Resized(t, newsize), newsize)
         /\ ItemsOf(T!Resized(t, newsize), newsize) = ItemsOf(t, s)
<1>1. s \in Nat /\ DOMAIN t = 0..(s - 1) /\ \A i \in 0..(s - 1) : t[i] \in Seq(Item)
  BY DEF WellFormed
<1>2. Cardinality(DOMAIN t) = s
  <2>1. Cardinality(0..(s - 1)) = IF 0 > s - 1 THEN 0 ELSE (s - 1) - 0 + 1
    BY <1>1, FS_Interval
  <2> QED
    BY <1>1, <2>1
<1>3. PICK h : MovesBuckets(h, t, newsize, s) /\ T!Resized(t, newsize) = h[s]
  BY <1>1, <1>2, ResizedLoop
<1>4. h[0] = T!EmptyTable(newsize) /\ \A i \in 1..s : h[i] = T!BucketMoved(t[i - 1], h[i - 1])
  <2>1. \A i \in 0..s : h[i] = IF i = 0 THEN T!EmptyTable(newsize)
                                        ELSE T!BucketMoved(t[i - 1], h[i - 1])
    BY <1>3, Zenon DEF MovesBuckets
  <2>2. 0 \in 0..s /\ \A i \in 1..s : i \in 0..s /\ i # 0
    BY <1>1
  <2> QED
    BY <2>1, <2>2
<1> DEFINE Below(i) == {ItemAt(t, p) : p \in {o \in Places(t, s) : o[1] < i}}
           Good(i) == WellFormed(h[i], newsize) /\ ItemsOf(h[i], newsize) = Below(i)
           Bad == {i \in 0..s : ~Good(i)}
<1>5. Good(0)
  <2>1. {o \in Places(t, s) : o[1] < 0} = {}
    BY PlaceFacts
  <2>2. Below(0) = {}
    BY <2>1
  <2> QED
    BY <2>2, <1>4, EmptyTableWellFormed
<1>6. ASSUME NEW i \in 1..s, Good(i - 1)
      PROVE  Good(i)
  <2> DEFINE bucket == t[i - 1]
  <2>1. i - 1 \in 0..(s - 1) /\ bucket \in Seq(Item)
    BY <1>1
  <2>2. \A j \in 1..Len(bucket) :
          <<i - 1, j>> \in Places(t, s) /\ ItemAt(t, <<i - 1, j>>) = bucket[j]
    BY <2>1, IsPlace
  <2>3. ASSUME NEW j \in 1..Len(bucket), NEW m \in 1..Len(bucket), bucket[j].key = bucket[m].key
        PROVE  j = m
    <3>1. <<i - 1, j>> = <<i - 1, m>>
      BY <2>2, <2>3 DEF WellFormed
    <3> QED
      BY <3>1
  <2>4. ASSUME NEW j \in 1..Len(bucket)
        PROVE  bucket[j].key \notin KeysOf(h[i - 1], newsize)
    <3> SUFFICES ASSUME NEW y \in Below(i - 1), y.key = bucket[j].key PROVE FALSE
      BY <1>6 DEF KeysOf
    <3>1. PICK o \in Places(t, s) : o[1] < i - 1 /\ y = ItemAt(t, o)
      OBVIOUS
    <3>2. o = <<i - 1, j>>
      BY <3>1, <2>2 DEF WellFormed
    <3> QED
      BY <3>1, <3>2, <2>1
  <2>5. /\ WellFormed(h[i], newsize)
        /\ ItemsOf(h[i], newsize) = Below(i - 1) \cup {bucket[j] : j \in 1..Len(bucket)}
    <3>1. h[i] = T!BucketMoved(bucket, h[i - 1])
      BY <1>4
    <3>2. WellFormed(h[i - 1], newsize) /\ ItemsOf(h[i - 1], newsize) = Below(i - 1)
      BY <1>6
    <3>3. /\ WellFormed(T!BucketMoved(bucket, h[i - 1]), newsize)
          /\ ItemsOf(T!BucketMoved(bucket, h[i - 1]), newsize)
               = ItemsOf(h[i - 1], newsize) \cup {bucket[j] : j \in 1..Len(bucket)}
      BY <2>1, <2>3, <2>4, <3>2, BucketMovedItems, Zenon
    <3> QED
      BY <3>1, <3>2, <3>3
  <2>6. Below(i) = Below(i - 1) \cup {bucket[j] : j \in 1..Len(bucket)}
    <3>1. ASSUME NEW y \in Below(i) PROVE y \in Below(i - 1) \cup {bucket[j] : j \in 1..Len(bucket)}
      <4>1. PICK o \in Places(t, s) : o[1] < i /\ y = ItemAt(t, o)
        OBVIOUS
      <4>2. o[1] \in 0..(s - 1) /\ o[2] \in 1..Len(t[o[1]]) /\ i \in Nat
        BY PlaceFacts, <1>1, SMTT(30)
      <4>3. o[1] < i - 1 \/ o[1] = i - 1
        BY <4>1, <4>2
      <4>4. CASE o[1] = i - 1
        BY <4>1, <4>2, <4>4 DEF ItemAt
      <4> QED
        BY <4>1, <4>3, <4>4
    <3>2. ASSUME NEW j \in 1..Len(bucket) PROVE bucket[j] \in Below(i)
      <4>1. <<i - 1, j>>[1] < i
        BY <2>1
      <4> QED
        BY <2>2, <4>1
    <3>3. ASSUME NEW o \in Places(t, s), o[1] < i - 1 PROVE o[1] < i
      BY <3>3, PlaceFacts, <2>1
    <3> QED
      BY <3>1, <3>2, <3>3
  <2> QED
    BY <2>5, <2>6
<1>7. ASSUME Bad # {} PROVE FALSE
  <2>1. PICK i \in Bad : \A y \in Bad : i <= y
    <3>1. Bad \subseteq Nat
      BY <1>1
    <3> QED
      BY <3>1, <1>7, LeastIndex
  <2>2. i # 0
    BY <2>1, <1>5
  <2>3. i \in 1..s /\ i - 1 \in 0..s /\ ~(i <= i - 1)
    BY <2>1, <2>2, <1>1
  <2>4. Good(i - 1)
    BY <2>1, <2>3, Zenon
  <2> QED
    BY <2>1, <2>3, <2>4, <1>6
<1>8. Good(s)
  <2>1. s \in 0..s
    BY <1>1
  <2> QED
    BY <2>1, <1>7, Zenon
<1>9. Below(s) = ItemsOf(t, s)
  <2>1. \A o \in Places(t, s) : o[1] < s
    BY PlaceFacts, <1>1
  <2> QED
    BY <2>1 DEF ItemsOf
<1> QED
  BY <1>3, <1>8, <1>9

-----------------------------------------------------------------------------
(***************************************************************************)
(* What the calls of hashtable.c leave behind, for any table.              *)
(***************************************************************************)
HashOf(k) == Hash(Edges(k))

ItemOf(k, h) == [key |-> k, hash |-> h]

LEMMA TableDomain ==
  ASSUME NEW s, NEW t, WellFormed(t, s)
  PROVE  DOMAIN t = 0..(s - 1) /\ T!Cardinality(DOMAIN t) = s /\ s \in Nat
<1>1. s \in Nat /\ DOMAIN t = 0..(s - 1)
  BY DEF WellFormed
<1>2. Cardinality(0..(s - 1)) = IF 0 > s - 1 THEN 0 ELSE (s - 1) - 0 + 1
  BY <1>1, FS_Interval
<1>3. Cardinality(0..(s - 1)) = s
  BY <1>1, <1>2
<1> QED
  BY <1>1, <1>3, SameCardinality

LEMMA UnionKeys ==
  ASSUME NEW s, NEW t, WellFormed(t, s)
  PROVE  KeysOf(t, s) = UNION {{t[index][j].key : j \in 1..Len(t[index])} : index \in DOMAIN t}
<1>1. DOMAIN t = 0..(s - 1)
  BY TableDomain
<1>2. ASSUME NEW index \in DOMAIN t, NEW j \in 1..Len(t[index])
      PROVE  t[index][j].key \in KeysOf(t, s)
  <2>1. ItemAt(t, <<index, j>>) = t[index][j] /\ <<index, j>> \in Places(t, s)
    <3>1. index \in 0..(s - 1)
      BY <1>1
    <3>2. <<index, j>> \in Places(t, s)
      BY <3>1, IsPlace, Zenon
    <3> QED
      BY <3>2 DEF ItemAt
  <2> QED
    BY <2>1 DEF KeysOf, ItemsOf
<1>3. ASSUME NEW k \in KeysOf(t, s)
      PROVE  \E index \in DOMAIN t : \E j \in 1..Len(t[index]) : k = t[index][j].key
  <2>1. PICK p \in Places(t, s) : k = ItemAt(t, p).key
    BY DEF KeysOf, ItemsOf
  <2>2. p[1] \in DOMAIN t /\ p[2] \in 1..Len(t[p[1]]) /\ k = t[p[1]][p[2]].key
    BY <1>1, <2>1, PlaceFacts DEF ItemAt
  <2> QED
    BY <2>2
<1> QED
  BY <1>2, <1>3

LEMMA AddedItems ==
  ASSUME NEW s, s # 0, NEW t, WellFormed(t, s),
         NEW k \in Node, k \notin KeysOf(t, s), NEW h \in Nat
  PROVE  /\ WellFormed(T!Added(t, k, h), s)
         /\ ItemsOf(T!Added(t, k, h), s) = ItemsOf(t, s) \cup {ItemOf(k, h)}
<1>1. ItemOf(k, h) \in Item /\ ItemOf(k, h).key = k /\ ItemOf(k, h).hash = h
  BY DEF ItemOf, Item
<1>2. T!Cardinality(DOMAIN t) = s
  BY TableDomain
<1>3. T!Added(t, k, h) = [t EXCEPT ![h % s] = <<ItemOf(k, h)>> \o @]
  BY <1>2 DEF T!Added, ItemOf
<1>4. T!Added(t, k, h) = [t EXCEPT ![ItemOf(k, h).hash % s] = <<ItemOf(k, h)>> \o @]
  BY <1>1, <1>3
<1>5. ItemOf(k, h).key \notin KeysOf(t, s)
  BY <1>1
<1> QED
  BY <1>1, <1>4, <1>5, HeadAdded, Zenon

LEMMA ThresholdGrows ==
  ASSUME NEW s \in Nat \ {0}
  PROVE  /\ T!Threshold(s) \in Nat
         /\ T!Threshold(s) + 1 <= T!Threshold(s * 2)
  BY DEF T!Threshold

LEMMA GrownItems ==
  ASSUME size \in Nat \ {0}, NEW m \in Nat, NEW t, WellFormed(t, size)
  PROVE  /\ WellFormed(T!Grown(t, m), T!GrownSize(m))
         /\ ItemsOf(T!Grown(t, m), T!GrownSize(m)) = ItemsOf(t, size)
         /\ T!GrownSize(m) \in Nat \ {0}
         /\ m <= T!Threshold(size) + 1 => m <= T!Threshold(T!GrownSize(m))
<1>1. T!Threshold(size) \in Nat
  BY ThresholdGrows
<1>2. CASE T!TooFull(m)
  <2>1. size * 2 \in Nat \ {0}
    OBVIOUS
  <2>2. T!GrownSize(m) = size * 2 /\ T!Grown(t, m) = T!Resized(t, size * 2)
    BY <1>2 DEF T!GrownSize, T!Grown
  <2>3. T!Threshold(size * 2) \in Nat /\ T!Threshold(size) + 1 <= T!Threshold(size * 2)
    BY <2>1, ThresholdGrows
  <2>4. m <= T!Threshold(size) + 1 => m <= T!Threshold(size * 2)
    BY <1>1, <2>3
  <2> QED
    BY <2>1, <2>2, <2>4, ResizedItems
<1>3. CASE ~T!TooFull(m)
  <2>1. T!GrownSize(m) = size /\ T!Grown(t, m) = t
    BY <1>3 DEF T!GrownSize, T!Grown
  <2>2. m <= T!Threshold(size)
    BY <1>1, <1>3 DEF T!TooFull
  <2> QED
    BY <2>1, <2>2
<1> QED
  BY <1>2, <1>3

-----------------------------------------------------------------------------
(***************************************************************************)
(* The inductive invariant of the registry with its nodes: no key is in    *)
(* twice or lost, every item is filed under the hash its node has now, the *)
(* item that is held belongs to no node of the table, and the node that is *)
(* changing is not in it.                                                  *)
(***************************************************************************)
Changing == pc \in {"set_child", "copy"}

TableShape ==
  /\ WellFormed(table, size)
  /\ \A x \in ItemsOf(table, size) : x.hash = HashOf(x.key)

Counted ==
  /\ IsFiniteSet(T!Keys) /\ count = Cardinality(T!Keys)
  /\ size > 0 => count <= T!Threshold(size) + 1

HeldApart ==
  /\ held = {} \/ \E k \in Node : held = {k}
  /\ held # {} => size > 0
  /\ T!Keys \cap held = {}
  /\ Changing => node \notin T!Keys

TableConsistent == Consistent /\ TableShape /\ Counted /\ HeldApart

LEMMA KeysAreKeys ==
  ASSUME TableShape
  PROVE  T!Keys = KeysOf(table, size) /\ T!Keys \subseteq Node
<1>1. T!Keys = KeysOf(table, size)
  BY UnionKeys DEF TableShape, T!Keys
<1>2. \A x \in ItemsOf(table, size) : x \in Item
  BY PlaceFacts DEF TableShape, ItemsOf
<1> QED
  BY <1>1, <1>2 DEF KeysOf, Item

LEMMA HashIsNatural ==
  ASSUME Consistent, NEW k \in Node
  PROVE  HashOf(k) \in Nat
<1>1. next[k] \in Seq(Edge) /\ n[k] = Len(next[k]) /\ n[k] \in Nat /\ Sorted(next[k])
  BY ArrayFacts
<1>2. Edges(k) = next[k]
  BY <1>1 DEF Edges
<1>3. n[k] \in 0..Cardinality(Letter) /\ next[k] \in [1..n[k] -> Edge]
  BY <1>1, SortedIsShort
<1> QED
  BY <1>2, <1>3, HashAssumption DEF HashOf

(***************************************************************************)
(* hashtable_get and hashtable_del find every key.                         *)
(***************************************************************************)
LEMMA KeyHasPlace ==
  ASSUME TableConsistent, size > 0, NEW k \in Node
  PROVE  /\ T!Places(k) = {j \in 1..Len(table[HashOf(k) % size]) :
                             table[HashOf(k) % size][j].key = k}
         /\ HashOf(k) % size \in 0..(size - 1)
         /\ k \in T!Keys => T!Places(k) # {}
<1>1. T!Places(k) = {j \in 1..Len(table[HashOf(k) % size]) :
                       table[HashOf(k) % size][j].key = k}
  BY DEF T!Places, HashOf, Edges
<1>2. HashOf(k) % size \in 0..(size - 1)
  <2>1. size \in Nat /\ HashOf(k) \in Nat
    BY HashIsNatural DEF TableConsistent, TableShape, WellFormed
  <2> QED
    BY <2>1
<1>3. ASSUME k \in T!Keys PROVE T!Places(k) # {}
  <2>1. k \in KeysOf(table, size)
    BY <1>3, KeysAreKeys DEF TableConsistent
  <2>2. PICK p \in Places(table, size) : k = ItemAt(table, p).key
    BY <2>1 DEF KeysOf, ItemsOf
  <2>3. WellFormed(table, size)
    BY DEF TableConsistent, TableShape
  <2>4. ItemAt(table, p).hash = HashOf(k) /\ ItemAt(table, p).hash % size = p[1]
    BY <2>2, <2>3, PlaceFacts DEF TableConsistent, TableShape, WellFormed
  <2>5. p[2] \in 1..Len(table[p[1]]) /\ table[p[1]][p[2]].key = k
    BY <2>2, <2>3, PlaceFacts DEF ItemAt
  <2> QED
    BY <1>1, <2>4, <2>5
<1> QED
  BY <1>1, <1>2, <1>3

-----------------------------------------------------------------------------
(***************************************************************************)
(* An item is filed: what Register, RegisterLoaded and PutBack have in     *)
(* common.                                                                 *)
(***************************************************************************)
Files(k) ==
  /\ WellFormed(table', size') /\ size' \in Nat \ {0}
  /\ ItemsOf(table', size') = ItemsOf(table, size) \cup {ItemOf(k, HashOf(k))}
  /\ count' = count + 1 /\ count' <= T!Threshold(size') + 1

LEMMA RegisterFiles ==
  ASSUME TableConsistent, size > 0, NEW k \in Node, k \notin T!Keys,
         size' = T!GrownSize(count),
         table' = T!Added(T!Grown(table, count), k, HashOf(k)),
         count' = count + 1
  PROVE  Files(k)
<1>1. WellFormed(table, size) /\ size \in Nat \ {0}
  BY DEF TableConsistent, TableShape, WellFormed
<1>2. count \in Nat /\ count <= T!Threshold(size) + 1
  BY FS_CardinalityType DEF TableConsistent, Counted
<1>3. k \notin KeysOf(table, size)
  BY KeysAreKeys DEF TableConsistent
<1>4. PICK t : t = T!Grown(table, count)
  OBVIOUS
<1>5. /\ WellFormed(t, size') /\ ItemsOf(t, size') = ItemsOf(table, size)
      /\ size' \in Nat \ {0} /\ count <= T!Threshold(size')
  BY <1>1, <1>2, <1>4, GrownItems
<1>6. k \notin KeysOf(t, size')
  BY <1>3, <1>5 DEF KeysOf
<1>7. HashOf(k) \in Nat
  BY HashIsNatural DEF TableConsistent
<1>8. /\ WellFormed(table', size')
      /\ ItemsOf(table', size') = ItemsOf(t, size') \cup {ItemOf(k, HashOf(k))}
  <2>1. size' # 0
    BY <1>5
  <2>2. table' = T!Added(t, k, HashOf(k))
    BY <1>4
  <2> QED
    BY <2>1, <2>2, <1>5, <1>6, <1>7, AddedItems
<1>9. T!Threshold(size') \in Nat
  BY <1>5, ThresholdGrows
<1>10. count' <= T!Threshold(size') + 1
  BY <1>2, <1>5, <1>9
<1> QED
  BY <1>5, <1>8, <1>10 DEF Files

LEMMA RegisterLoadedFiles ==
  ASSUME TableConsistent, size > 0, NEW k \in Node, k \notin T!Keys,
         size' = T!GrownSize(count + 1),
         table' = T!Grown(T!Added(table, k, HashOf(k)), count + 1),
         count' = count + 1
  PROVE  Files(k)
<1>1. WellFormed(table, size) /\ size \in Nat \ {0} /\ size # 0
  BY DEF TableConsistent, TableShape, WellFormed
<1>2. count \in Nat /\ count <= T!Threshold(size) + 1 /\ count + 1 \in Nat
  BY FS_CardinalityType DEF TableConsistent, Counted
<1>3. k \notin KeysOf(table, size)
  BY KeysAreKeys DEF TableConsistent
<1>4. PICK t : t = T!Added(table, k, HashOf(k))
  OBVIOUS
<1>5. HashOf(k) \in Nat
  BY HashIsNatural DEF TableConsistent
<1>6. /\ WellFormed(t, size)
      /\ ItemsOf(t, size) = ItemsOf(table, size) \cup {ItemOf(k, HashOf(k))}
  BY <1>1, <1>3, <1>4, <1>5, AddedItems
<1>7. /\ WellFormed(table', size') /\ ItemsOf(table', size') = ItemsOf(t, size)
      /\ size' \in Nat \ {0}
  <2>1. table' = T!Grown(t, count + 1)
    BY <1>4
  <2> QED
    BY <2>1, <1>1, <1>2, <1>6, GrownItems
<1>8. count' <= T!Threshold(size') + 1
  <2>1. T!Threshold(size) \in Nat /\ T!Threshold(size) + 1 <= T!Threshold(size * 2)
        /\ T!Threshold(size * 2) \in Nat
    BY <1>1, ThresholdGrows
  <2> QED
    BY <2>1, <1>2 DEF T!GrownSize, T!TooFull
<1> QED
  BY <1>6, <1>7, <1>8 DEF Files

LEMMA FiledConsistent ==
  ASSUME TableConsistent, NEW k \in Node, k \notin T!Keys, Files(k),
         pc = "idle", UNCHANGED nodeVars, held' = {}
  PROVE  TableConsistent' /\ T!Keys' = T!Keys \cup {k}
<1>1. Consistent'
  BY NextConsistent, Zenon DEF TableConsistent
<1>2. \A j : HashOf(j)' = HashOf(j)
  BY DEF nodeVars, HashOf, Edges
<1>3. TableShape'
  <2>1. \A x \in ItemsOf(table, size) : x.hash = HashOf(x.key)
    BY DEF TableConsistent, TableShape
  <2>2. ItemOf(k, HashOf(k)).hash = HashOf(k) /\ ItemOf(k, HashOf(k)).key = k
    BY DEF ItemOf
  <2>3. \A x \in ItemsOf(table', size') : x.hash = HashOf(x.key)'
    BY <2>1, <2>2, <1>2 DEF Files
  <2> QED
    BY <2>3 DEF TableShape, Files
<1>4. T!Keys' = T!Keys \cup {k}
  <2>1. T!Keys' = KeysOf(table', size')
    BY UnionKeys DEF Files, T!Keys
  <2>2. ItemOf(k, HashOf(k)).key = k
    BY DEF ItemOf
  <2>3. KeysOf(table', size') = KeysOf(table, size) \cup {k}
    BY <2>2 DEF Files, KeysOf
  <2> QED
    BY <2>1, <2>3, KeysAreKeys DEF TableConsistent
<1>5. Counted'
  <2>1. /\ IsFiniteSet(T!Keys \cup {k})
        /\ Cardinality(T!Keys \cup {k}) = Cardinality(T!Keys) + 1
    BY FS_AddElement DEF TableConsistent, Counted
  <2>2. count' = Cardinality(T!Keys')
    BY <2>1, <1>4 DEF TableConsistent, Counted, Files
  <2> QED
    BY <2>1, <2>2, <1>4 DEF Counted, Files
<1>6. HeldApart'
  BY DEF HeldApart, Changing, nodeVars
<1> QED
  BY <1>1, <1>3, <1>4, <1>5, <1>6 DEF TableConsistent

(***************************************************************************)
(* What the registry promises, step by step: keys and usable of KeySet.    *)
(***************************************************************************)
AllKeys == T!Keys \cup held

KeysAdded(k) == size > 0 /\ k \notin AllKeys /\ AllKeys' = AllKeys \cup {k} /\ size' > 0

KeysKept == AllKeys' = AllKeys /\ (size' > 0 <=> size > 0)

LEMMA RegisterKeeps ==
  ASSUME TableConsistent, NEW k \in Node, Register(k) \/ RegisterLoaded(k)
  PROVE  TableConsistent' /\ KeysAdded(k)
<1>1. /\ pc = "idle" /\ held = {} /\ size > 0 /\ k \notin T!Keys /\ UNCHANGED nodeVars
      /\ held' = {} /\ count' = count + 1
  BY DEF Register, RegisterLoaded, Quiet, T!Register, T!RegisterLoaded
<1>2. Files(k)
  <2>1. CASE Register(k)
    <3>1. size' = T!GrownSize(count) /\ table' = T!Added(T!Grown(table, count), k, HashOf(k))
      BY <2>1 DEF Register, T!Register, HashOf
    <3> QED
      BY <3>1, <1>1, RegisterFiles
  <2>2. CASE RegisterLoaded(k)
    <3>1. /\ size' = T!GrownSize(count + 1)
          /\ table' = T!Grown(T!Added(table, k, HashOf(k)), count + 1)
      BY <2>2 DEF RegisterLoaded, T!RegisterLoaded, HashOf
    <3> QED
      BY <3>1, <1>1, RegisterLoadedFiles
  <2> QED
    BY <2>1, <2>2
<1>3. TableConsistent' /\ T!Keys' = T!Keys \cup {k}
  BY <1>1, <1>2, FiledConsistent
<1>4. KeysAdded(k)
  BY <1>1, <1>2, <1>3 DEF KeysAdded, AllKeys, Files
<1> QED
  BY <1>3, <1>4

LEMMA PutBackKeeps ==
  ASSUME TableConsistent, PutBack
  PROVE  TableConsistent' /\ KeysKept
<1>1. pc = "idle" /\ UNCHANGED nodeVars /\ held' = {} /\ count' = count + 1 /\ size' = T!GrownSize(count)
  BY DEF PutBack, T!PutBack
<1>2. PICK k \in held : table' = T!Added(T!Grown(table, count), k, HashOf(k))
  <2>1. PICK k \in held : table' = T!Added(T!Grown(table, count), k, [j \in Node |-> Hash(Edges(j))][k])
    BY Zenon DEF PutBack, T!PutBack
  <2>2. k \in Node
    BY DEF TableConsistent, HeldApart
  <2> QED
    BY <2>1, <2>2 DEF HashOf
<1>3. k \in Node /\ held = {k} /\ size > 0 /\ k \notin T!Keys
  BY DEF TableConsistent, HeldApart
<1>4. Files(k)
  BY <1>1, <1>2, <1>3, RegisterFiles
<1>5. TableConsistent' /\ T!Keys' = T!Keys \cup {k}
  BY <1>1, <1>3, <1>4, FiledConsistent
<1>6. size' > 0
  BY <1>4 DEF Files
<1> QED
  BY <1>1, <1>3, <1>5, <1>6 DEF KeysKept, AllKeys

-----------------------------------------------------------------------------
(***************************************************************************)
(* Nodes change.  A node that the table does not hold may.                 *)
(***************************************************************************)
LEMMA OthersChange ==
  ASSUME TableConsistent, Consistent', UNCHANGED tableVars,
         \A k \in T!Keys : next'[k] = next[k] /\ n'[k] = n[k],
         Changing' => node' \notin T!Keys
  PROVE  TableConsistent' /\ KeysKept
<1>1. table' = table /\ size' = size /\ count' = count /\ held' = held
  BY DEF tableVars
<1>2. T!Keys' = T!Keys
  BY <1>1 DEF T!Keys
<1>3. TableShape'
  <2>1. \A x \in ItemsOf(table, size) : x.key \in T!Keys
    BY KeysAreKeys DEF TableConsistent, KeysOf
  <2>2. \A k \in T!Keys : HashOf(k)' = HashOf(k)
    BY DEF HashOf, Edges
  <2>3. \A x \in ItemsOf(table, size) : x.hash = HashOf(x.key)'
    BY <2>1, <2>2 DEF TableConsistent, TableShape
  <2> QED
    BY <2>3, <1>1 DEF TableShape, TableConsistent
<1>4. Counted'
  BY <1>1, <1>2 DEF TableConsistent, Counted
<1>5. HeldApart'
  BY <1>1, <1>2 DEF TableConsistent, HeldApart
<1> QED
  BY <1>1, <1>2, <1>3, <1>4, <1>5 DEF TableConsistent, KeysKept, AllKeys

LEMMA ReuseKeeps ==
  ASSUME TableConsistent, NEW k \in Node, Reuse(k)
  PROVE  TableConsistent' /\ KeysKept
<1>1. Consistent'
  BY NewNodeConsistent DEF Reuse, TableConsistent
<1>2. pc' = "idle" /\ UNCHANGED tableVars /\ k \notin T!Keys
  BY DEF Reuse, NewNode
<1>3. \A j \in T!Keys : next'[j] = next[j] /\ n'[j] = n[j]
  <2>1. T!Keys \subseteq Node
    BY KeysAreKeys DEF TableConsistent
  <2>2. next \in [Node -> Seq(Edge)] /\ n \in [Node -> Nat]
    BY DEF TableConsistent, Consistent, TypeOK
  <2> QED
    BY <1>2, <2>1, <2>2 DEF Reuse, NewNode
<1> QED
  BY <1>1, <1>2, <1>3, OthersChange DEF Changing

LEMMA LookupKeeps ==
  ASSUME TableConsistent, NEW k \in Node, NEW l \in Letter, Lookup(k, l)
  PROVE  TableConsistent' /\ KeysKept
<1>1. Consistent'
  <2>1. GetChild(k, l)
    BY DEF Lookup
  <2>2. Next
    BY <2>1 DEF Next
  <2> QED
    BY <2>2, NextConsistent DEF TableConsistent
<1>2. pc' = "get_child" /\ UNCHANGED tableVars /\ next' = next /\ n' = n
  BY DEF Lookup, GetChild, Search
<1> QED
  BY <1>1, <1>2, OthersChange DEF Changing

LEMMA NodeStepKeeps ==
  ASSUME TableConsistent, NodeStep
  PROVE  TableConsistent' /\ KeysKept
<1>1. Consistent'
  <2>1. Next
    BY DEF NodeStep, Next
  <2> QED
    BY <2>1, NextConsistent DEF TableConsistent
<1>2. UNCHANGED tableVars
  BY DEF NodeStep
<1>3. \A k : (k # node \/ ~Changing) => next'[k] = next[k] /\ n'[k] = n[k]
  <2>0. next \in [Node -> Seq(Edge)] /\ n \in [Node -> Nat]
    BY DEF TableConsistent, Consistent, TypeOK
  <2>1. CASE Probe \/ FoundChild \/ NoChild \/ StartCopy \/ CopyLower
    BY <2>1 DEF Probe, FoundChild, NoChild, StartCopy, CopyLower
  <2>2. CASE ReplaceChild
    <3>1. /\ pc = "set_child" /\ n' = n
          /\ next' = [next EXCEPT ![node] = [@ EXCEPT ![c0] = [letter |-> letter, child |-> child]]]
      BY <2>2 DEF ReplaceChild
    <3> QED
      BY <3>1, <2>0 DEF Changing
  <2>3. CASE AddChild
    <3>1. PICK s, m : pc = "copy" /\ n' = [n EXCEPT ![node] = m] /\ next' = [next EXCEPT ![node] = s]
      BY <2>3 DEF AddChild
    <3> QED
      BY <3>1, <2>0 DEF Changing
  <2> QED
    BY <2>1, <2>2, <2>3 DEF NodeStep, Step
<1>4. Changing' => Changing /\ node' = node
  BY DEF NodeStep, Step, Probe, FoundChild, NoChild, ReplaceChild, StartCopy, CopyLower,
         AddChild, Return, Changing, Searching, locals
<1>5. Changing => node \notin T!Keys
  BY DEF TableConsistent, HeldApart
<1> QED
  BY <1>1, <1>2, <1>3, <1>4, <1>5, OthersChange

(***************************************************************************)
(* hashtable_del before the change finds the item if there is one.         *)
(***************************************************************************)
LEMMA TakenOut ==
  ASSUME TableConsistent, NEW k \in Node, T!TakeOut(k)
  PROVE  /\ WellFormed(table', size) /\ size' = size /\ size > 0
         /\ ItemsOf(table', size) = ItemsOf(table, size) \ {ItemOf(k, HashOf(k))}
         /\ k \in T!Keys /\ T!Keys' = T!Keys \ {k}
         /\ count' = count - 1 /\ held' = {k}
<1>1. /\ size > 0 /\ size' = size /\ count' = count - 1 /\ held' = {k} /\ held = {}
      /\ T!Places(k) # {} /\ table' = T!Deleted(k)
  BY DEF T!TakeOut
<1>2. WellFormed(table, size)
  BY DEF TableConsistent, TableShape
<1> DEFINE index == HashOf(k) % size
           j == CHOOSE j \in T!Places(k) : \A m \in T!Places(k) : j <= m
<1>3. /\ index \in 0..(size - 1)
      /\ T!Places(k) = {m \in 1..Len(table[index]) : table[index][m].key = k}
  BY <1>1, KeyHasPlace
<1>4. j \in T!Places(k)
  <2>1. T!Places(k) \subseteq Nat
    BY <1>3
  <2>2. \E x \in T!Places(k) : \A y \in T!Places(k) : x <= y
    BY <2>1, <1>1, LeastIndex
  <2> QED
    BY <2>2
<1>5. table' = [table EXCEPT ![index] = SubSeq(@, 1, j - 1) \o SubSeq(@, j + 1, Len(@))]
  BY <1>1 DEF T!Deleted, T!RemoveAt, HashOf
<1> HIDE DEF index, j
<1>6. j \in 1..Len(table[index]) /\ table[index][j].key = k
  BY <1>3, <1>4
<1> DEFINE o == <<index, j>>
<1>7. o \in Places(table, size) /\ ItemAt(table, o) = table[index][j]
  BY <1>2, <1>3, <1>6, IsPlace
<1>8. ItemAt(table, o) = ItemOf(k, HashOf(k))
  <2>1. ItemAt(table, o) \in Item /\ ItemAt(table, o) \in ItemsOf(table, size)
    BY <1>2, <1>7, PlaceFacts
  <2>2. ItemAt(table, o).hash = HashOf(k) /\ ItemAt(table, o).key = k
    BY <2>1, <1>6, <1>7 DEF TableConsistent, TableShape
  <2> QED
    BY <2>1, <2>2 DEF Item, ItemOf
<1>9. o[1] = index /\ o[2] = j
  OBVIOUS
<1> HIDE DEF o
<1>10. /\ WellFormed(table', size)
       /\ ItemsOf(table', size) = ItemsOf(table, size) \ {ItemAt(table, o)}
  <2>1. table' = Unlinked(table, o)
    BY <1>5, <1>9 DEF Unlinked
  <2>2. o \in Places(table, size)
    BY <1>7
  <2> QED
    BY <1>2, <2>1, <2>2, ItemUnlinked
<1>11. T!Keys = KeysOf(table, size)
  BY KeysAreKeys DEF TableConsistent
<1>12. T!Keys' = KeysOf(table', size)
  BY <1>10, UnionKeys DEF T!Keys
<1>13. k \in T!Keys
  <2>1. ItemAt(table, o) \in ItemsOf(table, size) /\ ItemAt(table, o).key = k
    BY <1>6, <1>7 DEF ItemsOf
  <2> QED
    BY <2>1, <1>11 DEF KeysOf
<1>14. \A x \in ItemsOf(table, size) : x.key = k => x = ItemAt(table, o)
  <2> SUFFICES ASSUME NEW p \in Places(table, size), ItemAt(table, p).key = k
               PROVE  ItemAt(table, p) = ItemAt(table, o)
    BY DEF ItemsOf
  <2>1. p = o
    BY <1>2, <1>6, <1>7 DEF WellFormed
  <2> QED
    BY <2>1
<1>15. KeysOf(table', size) = KeysOf(table, size) \ {k}
  <2>1. ItemAt(table, o).key = k
    BY <1>6, <1>7
  <2> QED
    BY <2>1, <1>10, <1>14 DEF KeysOf
<1> QED
  BY <1>1, <1>8, <1>10, <1>11, <1>12, <1>13, <1>15

LEMMA ChangeChildKeeps ==
  ASSUME TableConsistent, NEW k \in Node, NEW l \in Letter, NEW c \in Node, ChangeChild(k, l, c)
  PROVE  TableConsistent' /\ KeysKept
<1>1. Consistent'
  <2>1. SetChild(k, l, c)
    BY DEF ChangeChild
  <2>2. Next
    BY <2>1 DEF Next
  <2> QED
    BY <2>2, NextConsistent DEF TableConsistent
<1>2. /\ node' = k /\ next' = next /\ n' = n /\ held = {} /\ size > 0
  BY DEF ChangeChild, SetChild, Search, Quiet
<1>3. \A j : HashOf(j)' = HashOf(j)
  BY <1>2 DEF HashOf, Edges
<1>4. ASSUME T!TakeOut(k) PROVE TableConsistent' /\ KeysKept
  <2>1. /\ WellFormed(table', size) /\ size' = size
        /\ ItemsOf(table', size) = ItemsOf(table, size) \ {ItemOf(k, HashOf(k))}
        /\ k \in T!Keys /\ T!Keys' = T!Keys \ {k}
        /\ count' = count - 1 /\ held' = {k}
    BY <1>4, TakenOut
  <2>2. TableShape'
    BY <1>3, <2>1 DEF TableConsistent, TableShape
  <2>3. Counted'
    <3>1. /\ IsFiniteSet(T!Keys \ {k})
          /\ Cardinality(T!Keys \ {k}) = Cardinality(T!Keys) - 1
      BY <2>1, FS_RemoveElement DEF TableConsistent, Counted
    <3>2. Cardinality(T!Keys) \in Nat /\ T!Threshold(size) \in Int
      BY <1>2, FS_CardinalityType DEF TableConsistent, Counted, TableShape, WellFormed, T!Threshold
    <3>3. count = Cardinality(T!Keys) /\ count <= T!Threshold(size) + 1
      BY <1>2 DEF TableConsistent, Counted
    <3>4. IsFiniteSet(T!Keys') /\ count' = Cardinality(T!Keys')
      BY <2>1, <3>1, <3>3
    <3>5. count' <= T!Threshold(size') + 1
      BY <2>1, <3>2, <3>3
    <3>6. T!Threshold(size') = T!Threshold(size)'
      BY DEF T!Threshold
    <3> QED
      BY <3>4, <3>5, <3>6 DEF Counted
  <2>4. HeldApart'
    BY <1>2, <2>1 DEF HeldApart
  <2>5. KeysKept
    BY <1>2, <2>1 DEF KeysKept, AllKeys
  <2> QED
    BY <1>1, <2>2, <2>3, <2>4, <2>5 DEF TableConsistent
<1>5. ASSUME T!Places(k) = {}, UNCHANGED tableVars PROVE TableConsistent' /\ KeysKept
  <2>1. k \notin T!Keys
    BY <1>2, <1>5, KeyHasPlace
  <2> QED
    BY <1>1, <1>2, <1>5, <2>1, OthersChange
<1> QED
  BY <1>4, <1>5 DEF ChangeChild, Bracketed

(***************************************************************************)
(* The table is emptied.                                                   *)
(***************************************************************************)
LEMMA EmptiedConsistent ==
  ASSUME Consistent', size' \in Nat, table' = T!EmptyTable(size'), count' = 0, held' = {}
  PROVE  TableConsistent' /\ AllKeys' = {}
<1>1. WellFormed(table', size') /\ ItemsOf(table', size') = {}
  BY EmptyTableWellFormed
<1>2. T!Keys' = {}
  <2>1. T!Keys' = KeysOf(table', size')
    BY <1>1, UnionKeys DEF T!Keys
  <2> QED
    BY <2>1, <1>1 DEF KeysOf
<1>3. TableShape'
  BY <1>1 DEF TableShape
<1>4. Counted'
  <2>1. IsFiniteSet({}) /\ Cardinality({}) = 0
    BY FS_EmptySet
  <2>2. size' > 0 => 0 <= T!Threshold(size') + 1
    <3> SUFFICES ASSUME size' > 0 PROVE 0 <= T!Threshold(size') + 1
      OBVIOUS
    <3>1. size' \in Nat \ {0}
      OBVIOUS
    <3>2. T!Threshold(size') \in Nat
      BY <3>1, ThresholdGrows
    <3> QED
      BY <3>2
  <2>3. IsFiniteSet(T!Keys') /\ count' = Cardinality(T!Keys')
    BY <2>1, <1>2
  <2>4. size' > 0 => count' <= T!Threshold(size') + 1
    BY <2>2
  <2> QED
    BY <2>3, <2>4 DEF Counted, T!Threshold
<1>5. HeldApart'
  BY <1>2 DEF HeldApart
<1> QED
  BY <1>2, <1>3, <1>4, <1>5 DEF TableConsistent, AllKeys

LEMMA InitTableConsistent == TableInit => TableConsistent /\ AllKeys = {} /\ size > 0
<1> SUFFICES ASSUME TableInit PROVE TableConsistent /\ AllKeys = {} /\ size > 0
  OBVIOUS
<1>1. Consistent
  BY InitConsistent DEF TableInit
<1>2. /\ size \in Nat \ {0} /\ table = T!EmptyTable(size) /\ count = 0 /\ held = {}
  BY SizeAssumption DEF TableInit, T!Init
<1>3. WellFormed(table, size) /\ ItemsOf(table, size) = {}
  BY <1>2, EmptyTableWellFormed
<1>4. TableShape
  BY <1>3 DEF TableShape
<1>5. T!Keys = {}
  BY <1>3, <1>4, KeysAreKeys DEF KeysOf
<1>6. Counted
  <2>1. IsFiniteSet({}) /\ Cardinality({}) = 0
    BY FS_EmptySet
  <2>2. 0 <= T!Threshold(size) + 1
    BY <1>2 DEF T!Threshold
  <2> QED
    BY <2>1, <2>2, <1>2, <1>5 DEF Counted
<1>7. HeldApart
  BY <1>2, <1>5 DEF HeldApart
<1> QED
  BY <1>1, <1>2, <1>4, <1>5, <1>6, <1>7 DEF TableConsistent, AllKeys

LEMMA ClearKeeps ==
  ASSUME TableConsistent, Clear
  PROVE  TableConsistent' /\ AllKeys' = {} /\ size' > 0
<1>1. Consistent'
  BY NextConsistent, Zenon DEF Clear, TableConsistent
<1>2. /\ size' \in Nat \ {0} /\ table' = T!EmptyTable(size') /\ count' = 0 /\ held' = {}
  BY SizeAssumption DEF Clear, T!Clear, TableConsistent, TableShape, WellFormed
<1> QED
  BY <1>1, <1>2, EmptiedConsistent

LEMMA DestroyKeeps ==
  ASSUME TableConsistent, Destroy
  PROVE  TableConsistent' /\ AllKeys' = {} /\ size' = 0
<1>1. Consistent'
  BY NextConsistent, Zenon DEF Destroy, TableConsistent
<1>2. /\ size' = 0 /\ table' = T!EmptyTable(size') /\ count' = 0 /\ held' = {}
  BY DEF Destroy, T!Destroy
<1> QED
  BY <1>1, <1>2, EmptiedConsistent

-----------------------------------------------------------------------------

TableNextKeySet ==
  \/ \E k \in Node : KeysAdded(k)
  \/ AllKeys' = {}
  \/ KeysKept

LEMMA TableNextKeeps ==
  ASSUME TableConsistent, TableNext
  PROVE  TableConsistent' /\ TableNextKeySet
<1>1. ASSUME NEW k \in Node, Reuse(k)
      PROVE  TableConsistent' /\ TableNextKeySet
  BY <1>1, ReuseKeeps DEF TableNextKeySet
<1>2. ASSUME NEW k \in Node, Register(k) \/ RegisterLoaded(k)
      PROVE  TableConsistent' /\ TableNextKeySet
  BY <1>2, RegisterKeeps DEF TableNextKeySet
<1>3. ASSUME NEW e \in Edited, Lookup(e.node, e.letter) \/ ChangeChild(e.node, e.letter, e.child)
      PROVE  TableConsistent' /\ TableNextKeySet
  <2>1. e.node \in Node /\ e.letter \in Letter /\ e.child \in Node
    BY EditedAssumption
  <2> QED
    BY <1>3, <2>1, LookupKeeps, ChangeChildKeeps DEF TableNextKeySet
<1>4. ASSUME NodeStep PROVE TableConsistent' /\ TableNextKeySet
  BY <1>4, NodeStepKeeps DEF TableNextKeySet
<1>5. ASSUME PutBack PROVE TableConsistent' /\ TableNextKeySet
  BY <1>5, PutBackKeeps DEF TableNextKeySet
<1>6. ASSUME Clear \/ Destroy PROVE TableConsistent' /\ TableNextKeySet
  BY <1>6, ClearKeeps, DestroyKeeps DEF TableNextKeySet
<1> QED
  BY <1>1, <1>2, <1>3, <1>4, <1>5, <1>6 DEF TableNext

LEMMA AlwaysTableConsistent == TableSpec => []TableConsistent
<1>1. TableInit => TableConsistent
  BY InitTableConsistent
<1>2. TableConsistent /\ [TableNext]_<<nodeVars, tableVars>> => TableConsistent'
  <2> SUFFICES ASSUME TableConsistent, [TableNext]_<<nodeVars, tableVars>>
               PROVE  TableConsistent'
    OBVIOUS
  <2>1. CASE TableNext
    BY <2>1, TableNextKeeps
  <2>2. CASE UNCHANGED <<nodeVars, tableVars>>
    <3>1. UNCHANGED nodeVars /\ UNCHANGED tableVars /\ next' = next /\ n' = n /\ node' = node /\ pc' = pc
      BY <2>2 DEF nodeVars, locals
    <3>2. Consistent'
      BY <3>1, NextConsistent, Zenon DEF TableConsistent
    <3>3. Changing' => node' \notin T!Keys
      BY <3>1 DEF Changing, TableConsistent, HeldApart
    <3> QED
      BY <3>1, <3>2, <3>3, OthersChange
  <2> QED
    BY <2>1, <2>2
<1> QED
  BY <1>1, <1>2, PTL DEF TableSpec

(***************************************************************************)
(* hashtable_get_list finds every registered node with the edges of k, for *)
(* any hash function, any size of the table and any order of the calls     *)
(* that register, change and free nodes and grow the table.                *)
(***************************************************************************)
LEMMA ConsistentFinds == TableConsistent => EquivalentFound
<1> SUFFICES ASSUME TableConsistent PROVE EquivalentFound
  OBVIOUS
<1>1. WellFormed(table, size)
  BY DEF TableConsistent, TableShape
<1>2. ASSUME NEW index \in DOMAIN table, NEW j \in 1..Len(table[index])
      PROVE  /\ table[index][j].hash = HashOf(table[index][j].key)
             /\ table[index][j].key \in Node
             /\ index = table[index][j].hash % size
  <2>1. index \in 0..(size - 1)
    BY <1>1, TableDomain
  <2>2. <<index, j>> \in Places(table, size) /\ ItemAt(table, <<index, j>>) = table[index][j]
    BY <1>1, <2>1, IsPlace
  <2>3. table[index][j] \in Item /\ table[index][j] \in ItemsOf(table, size)
    BY <1>1, <2>2, PlaceFacts
  <2>4. table[index][j].hash % size = index
    BY <1>1, <2>2 DEF WellFormed
  <2> QED
    BY <2>3, <2>4 DEF TableConsistent, TableShape, Item
<1>3. T!Findable
  BY <1>2 DEF T!Findable, HashOf, Edges
<1>4. ASSUME size > 0, NEW k \in Node, NEW r \in T!Keys, Edges(r) = Edges(k)
      PROVE  \E j \in 1..Len(table[Hash(Edges(k)) % size]) :
               table[Hash(Edges(k)) % size][j].key = r
  <2>1. r \in Node
    BY KeysAreKeys DEF TableConsistent
  <2>2. HashOf(r) = Hash(Edges(k))
    BY <1>4 DEF HashOf
  <2>3. /\ T!Places(r) = {j \in 1..Len(table[HashOf(r) % size]) :
                           table[HashOf(r) % size][j].key = r}
        /\ T!Places(r) # {}
    BY <1>4, <2>1, KeyHasPlace
  <2> QED
    BY <2>2, <2>3
<1> QED
  BY <1>3, <1>4 DEF EquivalentFound

THEOREM EquivalentAlwaysFound == TableSpec => []EquivalentFound
BY AlwaysTableConsistent, ConsistentFinds, PTL

(***************************************************************************)
(* The count of the table is exact, no node is in twice, and no table is   *)
(* fuller than its load factor allows by more than one item.               *)
(***************************************************************************)
LEMMA ConsistentCounts == TableConsistent => CountExact
<1> SUFFICES ASSUME TableConsistent PROVE CountExact
  OBVIOUS
<1>1. WellFormed(table, size)
  BY DEF TableConsistent, TableShape
<1>2. ASSUME NEW index \in DOMAIN table, NEW other \in DOMAIN table,
             NEW j \in 1..Len(table[index]), NEW m \in 1..Len(table[other]),
             table[index][j].key = table[other][m].key
      PROVE  index = other /\ j = m
  <2>1. index \in 0..(size - 1) /\ other \in 0..(size - 1)
    BY <1>1, TableDomain
  <2>2. /\ <<index, j>> \in Places(table, size) /\ ItemAt(table, <<index, j>>) = table[index][j]
        /\ <<other, m>> \in Places(table, size) /\ ItemAt(table, <<other, m>>) = table[other][m]
    BY <1>1, <2>1, IsPlace
  <2>3. <<index, j>> = <<other, m>>
    BY <1>1, <1>2, <2>2 DEF WellFormed
  <2> QED
    BY <2>3
<1>3. count = T!Cardinality(T!Keys) /\ T!Keys \cap held = {} /\ (size > 0 => count <= T!Threshold(size) + 1)
  BY SameCardinality DEF TableConsistent, Counted, HeldApart
<1> QED
  BY <1>2, <1>3 DEF CountExact, T!CountExact

THEOREM CountAlwaysExact == TableSpec => []CountExact
BY AlwaysTableConsistent, ConsistentCounts, PTL

(***************************************************************************)
(* The registry implements a set of keys: growing, and taking a node out   *)
(* while it changes, loses none and adds none.                             *)
(***************************************************************************)
THEOREM RegistryIsKeySet == TableSpec => ImplementsKeySet
<1>1. TableInit => T!Registry!Init
  BY InitTableConsistent DEF T!Registry!Init, AllKeys
<1>2. TableConsistent /\ TableConsistent' /\ [TableNext]_<<nodeVars, tableVars>>
        => [T!Registry!Next]_<<T!Keys \cup held, size > 0>>
  <2> SUFFICES ASSUME TableConsistent, [TableNext]_<<nodeVars, tableVars>>
               PROVE  [T!Registry!Next]_<<T!Keys \cup held, size > 0>>
    OBVIOUS
  <2>1. CASE TableNext
    <3>1. TableNextKeySet
      BY <2>1, TableNextKeeps
    <3>2. ASSUME NEW k \in Node, KeysAdded(k) PROVE T!Registry!Next
      <4>1. T!Registry!Add(k)
        BY <3>2 DEF KeysAdded, AllKeys, T!Registry!Add
      <4> QED
        BY <4>1 DEF T!Registry!Next
    <3>3. ASSUME AllKeys' = {} PROVE T!Registry!Next
      BY <3>3 DEF AllKeys, T!Registry!Next, T!Registry!Clear, T!Registry!Destroy
    <3>4. ASSUME KeysKept PROVE UNCHANGED <<T!Keys \cup held, size > 0>>
      BY <3>4 DEF KeysKept, AllKeys
    <3> QED
      BY <3>1, <3>2, <3>3, <3>4 DEF TableNextKeySet
  <2>2. CASE UNCHANGED <<nodeVars, tableVars>>
    <3>1. table' = table /\ size' = size /\ held' = held
      BY <2>2 DEF tableVars
    <3>2. T!Keys' = T!Keys
      BY <3>1 DEF T!Keys
    <3> QED
      BY <3>1, <3>2
  <2> QED
    BY <2>1, <2>2
<1> QED
  BY <1>1, <1>2, AlwaysTableConsistent, PTL DEF TableSpec, ImplementsKeySet, T!ImplementsKeySet, T!Registry!Spec
=============================================================================
