--------------------------- MODULE TraverseProofs ---------------------------
(***************************************************************************)
(* The traversal with marks, for every graph without a cycle and every     *)
(* number of markers: it starts with a marker no node carries, and what    *)
(* has the marker is what it has called or is about to call.               *)
(***************************************************************************)
EXTENDS Traverse, WordsProofs

Marker == 0..(Markers - 1)
Frames == [node : Node, left : SUBSET Letter]

(***************************************************************************)
(* The graph is one of those the construction may build.                   *)
(***************************************************************************)
GraphBuilt == \E g \in Graph : q0 = g.root /\ next = g.next

(***************************************************************************)
(* Between traversals the marks are behind the marker; in one, no mark is  *)
(* ahead of it.                                                            *)
(***************************************************************************)
MarksBehind ==
  /\ MarkerFresh
  /\ pc # "idle" => /\ visited_marker # 0
                    /\ \A n \in live : visited[n] <= visited_marker

OnStack == {frames[k].node : k \in 1..Len(frames)}

(***************************************************************************)
(* What has the marker of the traversal is on the stack or was called, and *)
(* not both; nothing is there twice.                                       *)
(***************************************************************************)
MarkedOnce ==
  /\ \A j, k \in 1..Len(called) : called[j] = called[k] => j = k
  /\ \A j, k \in 1..Len(frames) : frames[j].node = frames[k].node => j = k
  /\ OnStack \cap CalledSet = {}
  /\ pc = "run" => \A n \in live : visited[n] = visited_marker <=> n \in OnStack \cup CalledSet
  /\ pc = "run" => OnStack \cup CalledSet \subseteq live
  /\ pc = "run" => q0 \in OnStack \cup CalledSet

(***************************************************************************)
(* The stack is a path of the graph; the edges of its nodes that were      *)
(* followed led to called nodes, or to the next one on the stack.          *)
(***************************************************************************)
PathDown ==
  \A k \in 1..(Len(frames) - 1) :
    \E l \in Letter : next[frames[k].node][l] = frames[k + 1].node

EdgesFollowed ==
  \A k \in 1..Len(frames), l \in Letter :
    LET c == next[frames[k].node][l]
    IN  IF l \in frames[k].left THEN c # NULL
        ELSE c = NULL \/ c \in CalledSet \/ (k < Len(frames) /\ c = frames[k + 1].node)

Resting == /\ pc \in {"idle", "abort"} => frames = <<>>
           /\ pc # "idle" => q0 # NULL

(***************************************************************************)
(* The inductive invariant.                                                *)
(***************************************************************************)
Consistent ==
  /\ TypeOK
  /\ GraphBuilt
  /\ Resting
  /\ MarksBehind
  /\ MarkedOnce
  /\ PathDown
  /\ EdgesFollowed
  /\ ChildrenFirst

-----------------------------------------------------------------------------

LEMMA LiveFacts ==
  ASSUME TypeOK, GraphBuilt
  PROVE  /\ live \subseteq Node /\ NULL \notin live
         /\ q0 # NULL => q0 \in live
         /\ \A n \in live, l \in Letter : next[n][l] # NULL => next[n][l] \in live
         /\ \A S \in ClosedSets(next, q0, Node) : live \subseteq S
<1>1. live = {n \in Node : \A S \in ClosedSets(next, q0, Node) : n \in S}
  BY DEF live, Reachable
<1>2. next \in [Node -> [Letter -> Node \cup {NULL}]] /\ q0 \in Node \cup {NULL}
  BY DEF TypeOK
<1>3. q0 # NULL => q0 \in live
  BY <1>1, <1>2 DEF ClosedSets
<1>4. ASSUME NEW n \in live, NEW l \in Letter, next[n][l] # NULL
      PROVE  next[n][l] \in live
  <2>1. \A S \in ClosedSets(next, q0, Node) : next[n][l] \in S
    BY <1>1, <1>4 DEF ClosedSets
  <2>2. next[n][l] \in Node
    BY <1>1, <1>2, <1>4
  <2> QED
    BY <2>1, <2>2, <1>1
<1> QED
  BY <1>1, <1>3, <1>4, NodeAssumption

LEMMA OuterFacts ==
  ASSUME frames \in Seq(Frames), frames # <<>>
  PROVE  /\ Len(frames) \in Nat \ {0} /\ Top \in Frames /\ Top = frames[Len(frames)]
         /\ Outer \in Seq(Frames) /\ Len(Outer) = Len(frames) - 1
         /\ \A k \in 1..(Len(frames) - 1) : Outer[k] = frames[k]
<1>1. Len(frames) \in Nat \ {0}
  BY EmptySeq, LenProperties
<1>2. Top \in Frames /\ Top = frames[Len(frames)]
  BY <1>1, ElementOfSeq DEF Top
<1>3. PICK n : n = Len(frames) - 1
  OBVIOUS
<1>4. Outer = SubSeq(frames, 1, n) /\ n \in Nat /\ n <= Len(frames)
  BY <1>1, <1>3 DEF Outer
<1>5. Outer \in Seq(Frames) /\ Len(Outer) = n
  BY <1>4
<1>6. \A k \in 1..n : Outer[k] = frames[k]
  BY <1>4
<1> QED
  BY <1>1, <1>2, <1>3, <1>5, <1>6

LEMMA Extended ==
  ASSUME NEW s \in Seq(Frames), NEW f \in Frames, NEW t, t = Append(s, f)
  PROVE  /\ t \in Seq(Frames) /\ Len(t) = Len(s) + 1 /\ Len(s) \in Nat
         /\ t[Len(t)] = f /\ \A k \in 1..Len(s) : t[k] = s[k]
BY AppendProperties, LenProperties

LEMMA LeastLetter ==
  ASSUME NEW S \in SUBSET Letter, S # {}
  PROVE  (CHOOSE l \in S : \A m \in S : l <= m) \in S
<1>1. \E l \in S : \A m \in S : l <= m
  BY LeastNatural, LetterAssumption
<1> QED
  BY <1>1

LEMMA FrameFacts ==
  ASSUME TypeOK, NEW n \in Node
  PROVE  /\ Frame(n) \in Frames /\ Frame(n).node = n
         /\ \A l \in Letter : l \in Frame(n).left <=> next[n][l] # NULL
BY DEF Frame, Frames

LEMMA MarkerAdvanced ==
  ASSUME NEW m \in Marker
  PROVE  (m + 1) % Markers = IF m + 1 = Markers THEN 0 ELSE m + 1
<1>1. CASE m + 1 = Markers
  <2>1. Markers % Markers = 0
    BY MarkersAssumption
  <2> QED
    BY <1>1, <2>1, Zenon
<1>2. CASE m + 1 # Markers
  <2>1. PICK x : x = m + 1
    OBVIOUS
  <2>2. x \in Nat /\ x < Markers
    BY <2>1, <1>2, MarkersAssumption DEF Marker
  <2>3. x % Markers = x
    BY <2>2, MarkersAssumption
  <2> QED
    BY <2>1, <2>3, <1>2, Zenon
<1> QED
  BY <1>1, <1>2

-----------------------------------------------------------------------------

LEMMA InitConsistent == Init => Consistent
<1> SUFFICES ASSUME Init PROVE Consistent
  OBVIOUS
<1>1. frames = <<>> /\ called = <<>> /\ Len(frames) = 0 /\ Len(called) = 0
  BY DEF Init
<1>2. TypeOK
  BY <1>1, GraphAssumption, MarkersAssumption DEF Init, TypeOK
<1>3. GraphBuilt /\ Resting
  BY DEF Init, GraphBuilt, Resting
<1>4. MarksBehind
  <2>1. live \subseteq Node
    BY DEF live, Reachable
  <2> QED
    BY <2>1 DEF Init, MarksBehind, MarkerFresh
<1>5. MarkedOnce /\ PathDown /\ EdgesFollowed /\ ChildrenFirst
  BY <1>1 DEF Init, MarkedOnce, OnStack, CalledSet, PathDown, EdgesFollowed, ChildrenFirst
<1> QED
  BY <1>2, <1>3, <1>4, <1>5 DEF Consistent

LEMMA ChangeConsistent ==
  ASSUME Consistent, Change
  PROVE  Consistent'
<1>1. PICK kept \in SUBSET live, mark \in NewMark, g \in Graph :
        /\ q0' = g.root /\ next' = g.next
        /\ visited' = [n \in Node |-> IF n \in kept THEN visited[n] ELSE mark]
  BY DEF Change
<1>2. /\ pc = "idle" /\ pc' = "idle" /\ frames' = frames /\ called' = <<>>
      /\ visited_marker' = visited_marker /\ mark = 0
  BY DEF Change, NewMark
<1>3. frames' = <<>>
  BY <1>2 DEF Consistent, Resting
<1>4. TypeOK'
  BY <1>1, <1>2, <1>3, GraphAssumption, MarkersAssumption DEF Consistent, TypeOK
<1>5. GraphBuilt' /\ Resting'
  BY <1>1, <1>2, <1>3 DEF GraphBuilt, Resting
<1>6. MarksBehind'
  <2>1. live' \subseteq Node
    BY DEF live, Reachable
  <2>2. visited_marker \in Nat
    BY MarkersAssumption DEF Consistent, TypeOK
  <2>3. ASSUME visited_marker' # 0, NEW n \in live'
        PROVE  visited'[n] < visited_marker'
    <3>1. CASE n \in kept
      BY <3>1, <2>1, <2>3, <1>1, <1>2 DEF Consistent, MarksBehind, MarkerFresh
    <3>2. CASE n \notin kept
      BY <3>2, <2>1, <2>2, <2>3, <1>1, <1>2
    <3> QED
      BY <3>1, <3>2
  <2> QED
    BY <2>3, <1>2 DEF MarksBehind, MarkerFresh
<1>7. (MarkedOnce /\ PathDown /\ EdgesFollowed /\ ChildrenFirst)'
  <2>1. Len(frames') = 0 /\ Len(called') = 0
    BY <1>2, <1>3
  <2> QED
    BY <2>1, <1>2 DEF MarkedOnce, OnStack, CalledSet, PathDown, EdgesFollowed, ChildrenFirst
<1> QED
  BY <1>4, <1>5, <1>6, <1>7 DEF Consistent

(***************************************************************************)
(* The traversal starts: no node has its marker but the root, once it is   *)
(* on the stack.                                                           *)
(***************************************************************************)
LEMMA BeginConsistent ==
  ASSUME Consistent, Begin
  PROVE  Consistent'
<1>1. /\ pc = "idle" /\ q0 # NULL /\ called' = <<>> /\ pc' = "run"
      /\ q0' = q0 /\ next' = next
  BY DEF Begin
<1>2. live' = live
  BY <1>1 DEF live
<1>3. TypeOK /\ GraphBuilt /\ frames = <<>>
  BY <1>1 DEF Consistent, Resting
<1>4. live \subseteq Node /\ q0 \in live
  BY <1>1, <1>3, LiveFacts
<1>5. visited_marker \in Marker /\ visited \in [Node -> Marker] /\ 0 \in Marker /\ 1 \in Marker
  BY <1>3, MarkersAssumption DEF TypeOK, Marker
<1>6. PICK marks \in [Node -> Marker], m \in Marker :
        /\ m # 0 /\ visited_marker' = m
        /\ frames' = <<Frame(q0)>> /\ visited' = [marks EXCEPT ![q0] = m]
        /\ \A n \in live : marks[n] < m
  <2>1. CASE visited_marker = 0
    <3>1. /\ MarksCleared \in [Node -> Marker]
          /\ \A n \in live : MarksCleared[n] < 1
      BY <1>4, <1>5 DEF MarksCleared
    <3>2. visited_marker' = 1 /\ Enter(q0, <<>>, MarksCleared, 1)
      BY <2>1 DEF Begin
    <3>3. MarksCleared[q0] # 1
      BY <3>1, <1>4
    <3>4. frames' = <<Frame(q0)>> /\ visited' = [MarksCleared EXCEPT ![q0] = 1]
      BY <3>2, <3>3 DEF Enter
    <3> USE <1>5, <3>1
    <3> WITNESS MarksCleared \in [Node -> Marker], 1 \in Marker
    <3> QED
      BY <3>1, <3>2, <3>4
  <2>2. CASE visited_marker # 0
    <3>1. \A n \in live : visited[n] < visited_marker
      BY <2>2, <1>1 DEF Consistent, MarksBehind, MarkerFresh
    <3>2. visited_marker' = visited_marker /\ Enter(q0, <<>>, visited, visited_marker)
      BY <2>2 DEF Begin
    <3>3. visited[q0] # visited_marker
      BY <3>1, <1>4, <1>5 DEF Marker
    <3>4. frames' = <<Frame(q0)>> /\ visited' = [visited EXCEPT ![q0] = visited_marker]
      BY <3>2, <3>3 DEF Enter
    <3> USE <1>5, <3>1
    <3> WITNESS visited \in [Node -> Marker], visited_marker \in Marker
    <3> QED
      BY <3>1, <3>2, <3>4, <2>2
  <2> QED
    BY <2>1, <2>2
<1>9. Frame(q0) \in Frames /\ Frame(q0).node = q0
      /\ \A l \in Letter : l \in Frame(q0).left <=> next[q0][l] # NULL
  BY <1>3, <1>4, FrameFacts
<1>10. /\ frames' \in Seq(Frames) /\ Len(frames') = 1 /\ frames'[1] = Frame(q0)
       /\ Len(called') = 0
  BY <1>1, <1>6, <1>9
<1>11. TypeOK'
  BY <1>1, <1>3, <1>4, <1>6, <1>10 DEF TypeOK, Marker, Frames
<1>12. GraphBuilt' /\ Resting'
  BY <1>1, <1>3 DEF GraphBuilt, Resting
<1>13. MarksBehind'
  <2>1. \A n \in live : visited'[n] <= m
    BY <1>4, <1>6 DEF Marker
  <2> QED
    BY <2>1, <1>1, <1>2, <1>6 DEF MarksBehind, MarkerFresh
<1>14. MarkedOnce'
  <2>1. OnStack' = {q0} /\ CalledSet' = {}
    BY <1>9, <1>10 DEF OnStack, CalledSet
  <2>2. \A n \in live : visited'[n] = m <=> n = q0
    BY <1>4, <1>6 DEF Marker
  <2>3. /\ \A j, k \in 1..Len(called') : called'[j] = called'[k] => j = k
        /\ \A j, k \in 1..Len(frames') : frames'[j].node = frames'[k].node => j = k
    BY <1>10
  <2> QED
    BY <2>1, <2>2, <2>3, <1>1, <1>2, <1>4, <1>6 DEF MarkedOnce
<1>15. PathDown' /\ ChildrenFirst'
  BY <1>10 DEF PathDown, ChildrenFirst
<1>16. EdgesFollowed'
  BY <1>1, <1>9, <1>10 DEF EdgesFollowed
<1> QED
  BY <1>11, <1>12, <1>13, <1>14, <1>15, <1>16 DEF Consistent

(***************************************************************************)
(* An edge to a node with the marker leads to a called one: the nodes of   *)
(* the stack from that node on would be a cycle.                           *)
(***************************************************************************)
LEMMA NotBackOnStack ==
  ASSUME Consistent, frames # <<>>, NEW l \in Letter
  PROVE  next[Top.node][l] \notin OnStack
<1> DEFINE N == Len(frames)
           c == next[Top.node][l]
<1> SUFFICES ASSUME c \in OnStack PROVE FALSE
  OBVIOUS
<1>1. frames \in Seq(Frames) /\ N \in Nat \ {0} /\ Top = frames[N]
  BY OuterFacts DEF Consistent, TypeOK, Frames
<1>2. PICK j \in 1..N : c = frames[j].node
  BY DEF OnStack
<1> DEFINE S == {frames[k].node : k \in j..N}
<1>3. ASSUME NEW k \in 1..N PROVE frames[k].node \in Node
  <2>1. frames[k] \in Frames
    BY <1>1, ElementOfSeq
  <2> QED
    BY <2>1 DEF Frames
<1>4. S \in (SUBSET Node) \ {{}}
  BY <1>1, <1>3
<1>5. PICK n \in S : \A m \in Letter : next[n][m] \notin S
  BY <1>4, AcyclicAssumption DEF Consistent, GraphBuilt
<1>6. PICK k \in j..N : n = frames[k].node
  BY <1>5
<1>7. CASE k = N
  BY <1>7, <1>1, <1>2, <1>5, <1>6
<1>8. CASE k # N
  <2>1. k \in 1..(N - 1) /\ k + 1 \in j..N
    BY <1>8, <1>1
  <2>2. PICK m \in Letter : next[n][m] = frames[k + 1].node
    BY <2>1, <1>6 DEF Consistent, PathDown
  <2> QED
    BY <2>1, <2>2, <1>5
<1> QED
  BY <1>7, <1>8

LEMMA FollowEdgeConsistent ==
  ASSUME Consistent, FollowEdge
  PROVE  Consistent'
<1> DEFINE N == Len(frames)
           l == CHOOSE l \in Top.left : \A m \in Top.left : l <= m
           c == next[Top.node][l]
           F == Append(Outer, Followed(l))
<1>1. /\ pc = "run" /\ frames # <<>> /\ Top.left # {}
      /\ Enter(c, F, visited, visited_marker)
      /\ q0' = q0 /\ next' = next /\ visited_marker' = visited_marker
      /\ called' = called /\ pc' = pc
  BY DEF FollowEdge, AllFollowed
<1>2. TypeOK /\ GraphBuilt
  BY DEF Consistent
<1>3. frames \in Seq(Frames)
  BY <1>2 DEF TypeOK, Frames
<1>4. /\ N \in Nat \ {0} /\ Top \in Frames /\ Top = frames[N]
      /\ Outer \in Seq(Frames) /\ Len(Outer) = N - 1
      /\ \A k \in 1..(N - 1) : Outer[k] = frames[k]
  BY <1>1, <1>3, OuterFacts
<1>5. l \in Top.left /\ l \in Letter
  BY <1>1, <1>4, LeastLetter DEF Frames
<1>6. Followed(l) \in Frames /\ Followed(l).node = Top.node
      /\ Followed(l).left = Top.left \ {l}
  BY <1>4 DEF Frames, Followed
<1>7. /\ F \in Seq(Frames) /\ Len(F) = N /\ F[N] = Followed(l)
      /\ \A k \in 1..(N - 1) : F[k] = frames[k]
  <2> HIDE DEF l
  <2>1. PICK f : f = Followed(l) /\ f \in Frames
    BY <1>6
  <2>2. F = Append(Outer, f)
    BY <2>1
  <2> HIDE DEF F
  <2> QED
    BY <2>1, <2>2, <1>4, Extended
<1> HIDE DEF l, F
<1>8. live' = live
  BY <1>1 DEF live
<1>9. /\ live \subseteq Node /\ NULL \notin live
      /\ \A n \in live, m \in Letter : next[n][m] # NULL => next[n][m] \in live
  BY <1>2, LiveFacts
<1>10. \A k \in 1..N : F[k].node = frames[k].node
  <2>1. ASSUME NEW k \in 1..N, k # N PROVE F[k] = frames[k]
    BY <2>1, <1>4, <1>7
  <2> QED
    BY <2>1, <1>4, <1>6, <1>7
<1>11. c \in live /\ c \notin OnStack
  <2>1. Top.node \in live
    BY <1>1, <1>4 DEF Consistent, MarkedOnce, OnStack
  <2>2. c # NULL
    BY <1>4, <1>5 DEF Consistent, EdgesFollowed
  <2> QED
    BY <2>1, <2>2, <1>1, <1>5, <1>9, NotBackOnStack
<1>12. visited_marker \in Marker /\ visited \in [Node -> Marker]
  BY <1>2 DEF TypeOK, Marker
<1>13. GraphBuilt' /\ Resting'
  BY <1>1, <1>2 DEF GraphBuilt, Resting, Consistent
<1>14. ChildrenFirst'
  BY <1>1 DEF ChildrenFirst, Consistent
<1>15. MarkedOnce /\ PathDown /\ EdgesFollowed /\ MarksBehind
  BY DEF Consistent
<1>16. CalledSet' = CalledSet
  BY <1>1 DEF CalledSet
<1>17. CASE visited[c] = visited_marker
  <2>1. frames' = F /\ visited' = visited
    BY <1>17, <1>1 DEF Enter
  <2>2. TypeOK'
    BY <2>1, <1>1, <1>2, <1>7 DEF TypeOK, Frames
  <2>3. OnStack' = OnStack
    BY <2>1, <1>7, <1>10 DEF OnStack
  <2>4. MarksBehind'
    BY <2>1, <1>1, <1>8, <1>15 DEF MarksBehind, MarkerFresh
  <2>5. MarkedOnce'
    BY <2>1, <2>3, <1>1, <1>7, <1>8, <1>10, <1>15, <1>16 DEF MarkedOnce
  <2>6. PathDown'
    <3>1. ASSUME NEW k \in 1..(N - 1)
          PROVE  \E m \in Letter : next[F[k].node][m] = F[k + 1].node
      <4>1. k \in 1..N /\ k + 1 \in 1..N
        BY <1>4
      <4> QED
        BY <4>1, <1>10, <1>15 DEF PathDown
    <3> QED
      BY <3>1, <2>1, <1>1, <1>7 DEF PathDown
  <2>7. c \in CalledSet
    BY <1>1, <1>11, <1>15, <1>17 DEF MarkedOnce
  <2>8. EdgesFollowed'
    <3> SUFFICES ASSUME NEW k \in 1..N, NEW m \in Letter, NEW d, d = next[frames[k].node][m]
                 PROVE  IF m \in F[k].left THEN d # NULL
                        ELSE d = NULL \/ d \in CalledSet \/ (k < N /\ d = F[k + 1].node)
      BY <2>1, <1>1, <1>7, <1>10, <1>16 DEF EdgesFollowed
    <3>1. IF m \in frames[k].left THEN d # NULL
          ELSE d = NULL \/ d \in CalledSet \/ (k < N /\ d = frames[k + 1].node)
      BY <1>15 DEF EdgesFollowed
    <3>2. k < N => k + 1 \in 1..N /\ F[k] = frames[k]
      BY <1>4, <1>7
    <3>3. CASE k = N
      BY <3>1, <3>3, <2>7, <1>4, <1>6, <1>7
    <3>4. CASE k # N
      BY <3>1, <3>2, <3>4, <1>4, <1>10
    <3> QED
      BY <3>3, <3>4
  <2> QED
    BY <2>2, <2>4, <2>5, <2>6, <2>8, <1>13, <1>14 DEF Consistent
<1>18. CASE visited[c] # visited_marker
  <2>1. frames' = Append(F, Frame(c)) /\ visited' = [visited EXCEPT ![c] = visited_marker]
    BY <1>18, <1>1 DEF Enter
  <2>2. Frame(c) \in Frames /\ Frame(c).node = c
        /\ \A m \in Letter : m \in Frame(c).left <=> next[c][m] # NULL
    BY <1>2, <1>9, <1>11, FrameFacts
  <2>3. /\ frames' \in Seq(Frames) /\ Len(frames') = N + 1
        /\ frames'[N + 1] = Frame(c) /\ \A k \in 1..N : frames'[k] = F[k]
    <3>1. PICK f : f = Frame(c) /\ f \in Frames
      BY <2>2
    <3>2. F \in Seq(Frames) /\ frames' = Append(F, f) /\ Len(F) = N
      BY <3>1, <2>1, <1>7
    <3> HIDE DEF c, N
    <3> QED
      BY <3>1, <3>2, Extended
  <2>4. TypeOK'
    BY <2>1, <2>3, <1>1, <1>2 DEF TypeOK, Frames
  <2>5. OnStack' = OnStack \cup {c}
    <3>1. \A k \in 1..N : frames'[k].node = frames[k].node
      BY <2>3, <1>10
    <3>2. 1..(N + 1) = 1..N \cup {N + 1}
      BY <1>4
    <3> QED
      BY <3>1, <3>2, <2>2, <2>3, SMTT(30) DEF OnStack
  <2>6. MarksBehind'
    BY <2>1, <1>1, <1>8, <1>9, <1>11, <1>12, <1>15 DEF MarksBehind, MarkerFresh, Marker
  <2>7. c \notin CalledSet
    BY <1>1, <1>11, <1>15, <1>18 DEF MarkedOnce
  <2>8. MarkedOnce'
    <3>1. \A j, k \in 1..(N + 1) : frames'[j].node = frames'[k].node => j = k
      <4> SUFFICES ASSUME NEW j \in 1..(N + 1), NEW k \in 1..(N + 1),
                          frames'[j].node = frames'[k].node
                   PROVE  j = k
        OBVIOUS
      <4>1. \A h \in 1..(N + 1) : h # N + 1 => h \in 1..N /\ frames'[h].node = frames[h].node
                                             /\ frames[h].node # c
        BY <2>3, <1>4, <1>10, <1>11 DEF OnStack
      <4>2. frames'[N + 1].node = c
        BY <2>2, <2>3
      <4>3. CASE j = N + 1 \/ k = N + 1
        BY <4>1, <4>2, <4>3
      <4>4. CASE j # N + 1 /\ k # N + 1
        <5>1. j \in 1..N /\ k \in 1..N /\ frames[j].node = frames[k].node
          BY <4>1, <4>4
        <5> QED
          BY <5>1, <1>15 DEF MarkedOnce
      <4> QED
        BY <4>3, <4>4
    <3>2. \A n \in live : visited'[n] = visited_marker <=> n \in OnStack' \cup CalledSet
      BY <2>1, <2>5, <1>1, <1>9, <1>11, <1>12, <1>15 DEF MarkedOnce
    <3>3. OnStack' \cap CalledSet = {} /\ OnStack' \cup CalledSet \subseteq live
          /\ q0 \in OnStack' \cup CalledSet
      BY <2>5, <2>7, <1>1, <1>11, <1>15 DEF MarkedOnce
    <3> QED
      BY <3>1, <3>2, <3>3, <2>3, <1>1, <1>8, <1>15, <1>16 DEF MarkedOnce
  <2>9. PathDown'
    <3> SUFFICES ASSUME NEW k \in 1..N
                 PROVE  \E m \in Letter : next[frames'[k].node][m] = frames'[k + 1].node
      BY <2>3, <1>1, <1>4 DEF PathDown
    <3>1. CASE k = N
      <4>1. frames'[N].node = Top.node /\ frames'[N + 1].node = c
        <5>1. N \in 1..N /\ frames'[N] = F[N] /\ F[N].node = Top.node
          BY <2>3, <1>4, <1>10
        <5> QED
          BY <5>1, <2>2, <2>3
      <4> QED
        BY <4>1, <3>1, <1>5
    <3>2. CASE k # N
      <4>1. k \in 1..(N - 1) /\ k + 1 \in 1..N
        BY <3>2, <1>4
      <4> QED
        BY <4>1, <2>3, <1>10, <1>15 DEF PathDown
    <3> QED
      BY <3>1, <3>2
  <2>10. EdgesFollowed'
    <3> SUFFICES ASSUME NEW k \in 1..(N + 1), NEW m \in Letter,
                        NEW d, d = next[frames'[k].node][m]
                 PROVE  IF m \in frames'[k].left THEN d # NULL
                        ELSE d = NULL \/ d \in CalledSet
                             \/ (k < N + 1 /\ d = frames'[k + 1].node)
      BY <2>3, <1>1, <1>16 DEF EdgesFollowed
    <3>1. CASE k = N + 1
      BY <3>1, <2>2, <2>3
    <3>2. CASE k # N + 1
      <4>1. k \in 1..N /\ frames'[k] = F[k] /\ d = next[frames[k].node][m]
        BY <3>2, <2>3, <1>4, <1>10
      <4>2. IF m \in frames[k].left THEN d # NULL
            ELSE d = NULL \/ d \in CalledSet \/ (k < N /\ d = frames[k + 1].node)
        BY <4>1, <1>15 DEF EdgesFollowed
      <4>3. CASE k = N
        <5>1. frames'[N].left = Top.left \ {l} /\ frames'[N + 1].node = c
          <6>1. frames'[N] = Followed(l) /\ frames'[N + 1] = Frame(c)
            BY <4>1, <4>3, <2>3, <1>7
          <6> QED
            BY <6>1, <2>2, <1>6
        <5>2. m = l => d = c
          BY <4>1, <4>3, <1>4
        <5>3. m # l => IF m \in Top.left \ {l} THEN d # NULL ELSE d = NULL \/ d \in CalledSet
          BY <4>2, <4>3, <1>4
        <5> QED
          BY <5>1, <5>2, <5>3, <4>3, <1>4
      <4>4. CASE k # N
        <5>1. k + 1 \in 1..N /\ F[k] = frames[k] /\ frames'[k + 1].node = frames[k + 1].node
          BY <4>1, <4>4, <2>3, <1>4, <1>7, <1>10, SMTT(30)
        <5> QED
          BY <5>1, <4>1, <4>2, <4>4, <1>4
      <4> QED
        BY <4>3, <4>4
    <3> QED
      BY <3>1, <3>2
  <2> QED
    BY <2>4, <2>6, <2>8, <2>9, <2>10, <1>13, <1>14 DEF Consistent
<1> QED
  BY <1>17, <1>18

(***************************************************************************)
(* The callback takes the top of the stack, all of whose children were     *)
(* called before.                                                          *)
(***************************************************************************)
LEMMA CallbackConsistent ==
  ASSUME Consistent, Callback
  PROVE  Consistent'
<1> DEFINE N == Len(frames)
           M == Len(called)
<1>1. /\ pc = "run" /\ frames # <<>> /\ Top.left = {}
      /\ called' = Append(called, Top.node)
      /\ \/ frames' = Outer /\ pc' = "run"
         \/ frames' = <<>> /\ pc' = "abort"
      /\ q0' = q0 /\ next' = next /\ visited_marker' = visited_marker
      /\ visited' = visited
  BY DEF Callback, AllFollowed
<1>2. TypeOK /\ GraphBuilt
  BY DEF Consistent
<1>3. frames \in Seq(Frames)
  BY <1>2 DEF TypeOK, Frames
<1>4. /\ N \in Nat \ {0} /\ Top \in Frames /\ Top = frames[N]
      /\ Outer \in Seq(Frames) /\ Len(Outer) = N - 1
      /\ \A k \in 1..(N - 1) : Outer[k] = frames[k]
  BY <1>1, <1>3, OuterFacts
<1>5. Top.node \in Node
  BY <1>4 DEF Frames
<1>6. /\ called' \in Seq(Node) /\ M \in Nat /\ Len(called') = M + 1
      /\ called'[M + 1] = Top.node /\ \A k \in 1..M : called'[k] = called[k]
  <2>1. PICK n : n = Top.node
    OBVIOUS
  <2> QED
    BY <2>1, <1>1, <1>2, <1>5, AppendProperties, LenProperties DEF TypeOK
<1>7. live' = live
  BY <1>1 DEF live
<1>8. MarkedOnce /\ PathDown /\ EdgesFollowed /\ MarksBehind /\ ChildrenFirst /\ Resting
  BY DEF Consistent
<1>9. CalledSet' = CalledSet \cup {Top.node}
  <2>1. 1..(M + 1) = 1..M \cup {M + 1}
    BY <1>6
  <2> QED
    BY <2>1, <1>6 DEF CalledSet
<1>10. Top.node \notin CalledSet
  BY <1>4, <1>8 DEF MarkedOnce, OnStack
<1>11. \A j, k \in 1..Len(called') : called'[j] = called'[k] => j = k
  <2> SUFFICES ASSUME NEW j \in 1..(M + 1), NEW k \in 1..(M + 1), called'[j] = called'[k]
               PROVE  j = k
    BY <1>6
  <2>1. \A h \in 1..(M + 1) : h # M + 1 => h \in 1..M /\ called'[h] = called[h]
                                         /\ called[h] # Top.node
    BY <1>6, <1>10 DEF CalledSet
  <2> QED
    BY <2>1, <1>6, <1>8 DEF MarkedOnce
<1>12. ChildrenFirst'
  <2> SUFFICES ASSUME NEW k \in 1..(M + 1), NEW l \in Letter,
                      next[called'[k]][l] # NULL
               PROVE  \E j \in 1..(k - 1) : called'[j] = next[called'[k]][l]
    BY <1>1, <1>6 DEF ChildrenFirst
  <2>1. CASE k = M + 1
    <3>1. next[Top.node][l] \in CalledSet
      BY <2>1, <1>1, <1>4, <1>6, <1>8 DEF EdgesFollowed
    <3>2. PICK j \in 1..M : called[j] = next[Top.node][l]
      BY <3>1 DEF CalledSet
    <3> QED
      BY <3>2, <2>1, <1>6
  <2>2. CASE k # M + 1
    <3>1. k \in 1..M
      BY <2>2, <1>6
    <3>2. PICK j \in 1..(k - 1) : called[j] = next[called[k]][l]
      BY <3>1, <1>1, <1>6, <1>8 DEF ChildrenFirst
    <3>3. j \in 1..M
      BY <3>1, <3>2, <1>6
    <3> QED
      BY <3>1, <3>2, <3>3, <1>6
  <2> QED
    BY <2>1, <2>2
<1>13. GraphBuilt'
  BY <1>1, <1>2 DEF GraphBuilt
<1>14. MarksBehind'
  BY <1>1, <1>7, <1>8 DEF MarksBehind, MarkerFresh
<1>15. CASE frames' = Outer /\ pc' = "run"
  <2>1. TypeOK'
    BY <1>15, <1>1, <1>2, <1>4, <1>6 DEF TypeOK, Frames
  <2>2. Resting'
    BY <1>15, <1>1, <1>8 DEF Resting
  <2>3. 1..N = 1..(N - 1) \cup {N}
    BY <1>4
  <2>4. OnStack = OnStack' \cup {Top.node} /\ Top.node \notin OnStack'
    <3>1. OnStack' = {frames[k].node : k \in 1..(N - 1)}
      BY <1>15, <1>4 DEF OnStack
    <3>2. OnStack = OnStack' \cup {Top.node}
      BY <3>1, <2>3, <1>4 DEF OnStack
    <3>3. Top.node \notin OnStack'
      BY <3>1, <2>3, <1>4, <1>8 DEF MarkedOnce
    <3> QED
      BY <3>2, <3>3
  <2>5. OnStack' \cup CalledSet' = OnStack \cup CalledSet
        /\ OnStack' \cap CalledSet' = {}
    BY <2>4, <1>8, <1>9 DEF MarkedOnce
  <2>6. \A j, k \in 1..Len(frames') : frames'[j].node = frames'[k].node => j = k
    BY <1>15, <1>4, <1>8, <2>3 DEF MarkedOnce
  <2>7. MarkedOnce'
    BY <2>5, <2>6, <1>1, <1>7, <1>8, <1>11 DEF MarkedOnce
  <2>8. PathDown'
    <3> SUFFICES ASSUME NEW k \in 1..(N - 2)
                 PROVE  \E l \in Letter : next[Outer[k].node][l] = Outer[k + 1].node
      BY <1>15, <1>1, <1>4 DEF PathDown
    <3>1. k \in 1..(N - 1) /\ k + 1 \in 1..(N - 1)
      BY <1>4
    <3> QED
      BY <3>1, <1>4, <1>8 DEF PathDown
  <2>9. EdgesFollowed'
    <3> SUFFICES ASSUME NEW k \in 1..(N - 1), NEW l \in Letter,
                        NEW d, d = next[frames[k].node][l]
                 PROVE  IF l \in frames[k].left THEN d # NULL
                        ELSE d = NULL \/ d \in CalledSet'
                             \/ (k < N - 1 /\ d = Outer[k + 1].node)
      BY <1>15, <1>1, <1>4 DEF EdgesFollowed
    <3>1. k \in 1..N /\ k < N
      BY <1>4
    <3>2. IF l \in frames[k].left THEN d # NULL
          ELSE d = NULL \/ d \in CalledSet \/ d = frames[k + 1].node
      BY <3>1, <1>8 DEF EdgesFollowed
    <3>3. CASE k = N - 1
      BY <3>2, <3>3, <1>4, <1>9
    <3>4. CASE k # N - 1
      <4>1. k + 1 \in 1..(N - 1) /\ k < N - 1
        BY <3>1, <3>4, <1>4
      <4> QED
        BY <4>1, <3>2, <1>4, <1>9
    <3> QED
      BY <3>3, <3>4
  <2> QED
    BY <2>1, <2>2, <2>7, <2>8, <2>9, <1>12, <1>13, <1>14 DEF Consistent
<1>16. CASE frames' = <<>> /\ pc' = "abort"
  <2>1. Len(frames') = 0 /\ frames' \in Seq(Frames)
    BY <1>16
  <2>2. TypeOK'
    BY <2>1, <1>16, <1>1, <1>2, <1>6 DEF TypeOK, Frames
  <2>3. Resting'
    BY <1>16, <1>1, <1>8 DEF Resting
  <2>4. OnStack' = {}
    BY <2>1 DEF OnStack
  <2>5. MarkedOnce'
    BY <2>1, <2>4, <1>11, <1>16 DEF MarkedOnce
  <2>6. PathDown' /\ EdgesFollowed'
    BY <2>1 DEF PathDown, EdgesFollowed
  <2> QED
    BY <2>2, <2>3, <2>5, <2>6, <1>12, <1>13, <1>14 DEF Consistent
<1> QED
  BY <1>1, <1>15, <1>16

(***************************************************************************)
(* The marker moves on: all marks are behind it, or it has wrapped.        *)
(***************************************************************************)
LEMMA EndConsistent ==
  ASSUME Consistent, End
  PROVE  Consistent'
<1>1. /\ pc \in {"run", "abort"} /\ frames = <<>> /\ visited_marker' = NextMarker
      /\ pc' = "idle" /\ q0' = q0 /\ next' = next /\ visited' = visited
      /\ frames' = frames /\ called' = called
  BY DEF End
<1>2. live' = live /\ live \subseteq Node
  BY <1>1, LiveFacts DEF live, Consistent
<1>3. visited_marker \in Marker /\ visited \in [Node -> Marker]
  BY DEF Consistent, TypeOK, Marker
<1>4. NextMarker = IF visited_marker + 1 = Markers THEN 0 ELSE visited_marker + 1
  BY <1>3, MarkerAdvanced DEF NextMarker
<1>5. NextMarker \in Marker
  BY <1>3, <1>4, MarkersAssumption DEF Marker
<1>6. TypeOK'
  BY <1>1, <1>5 DEF Consistent, TypeOK, Marker
<1>7. (GraphBuilt /\ Resting)'
  BY <1>1 DEF Consistent, GraphBuilt, Resting
<1>8. MarksBehind'
  <2>1. \A n \in live : visited[n] <= visited_marker
    BY <1>1 DEF Consistent, MarksBehind
  <2>2. ASSUME NextMarker # 0, NEW n \in live PROVE visited[n] < NextMarker
    BY <2>1, <2>2, <1>2, <1>3, <1>4 DEF Marker
  <2> QED
    BY <2>2, <1>1, <1>2 DEF MarksBehind, MarkerFresh
<1>9. MarkedOnce'
  <2>1. OnStack' = OnStack /\ CalledSet' = CalledSet
    BY <1>1 DEF OnStack, CalledSet
  <2> QED
    BY <2>1, <1>1 DEF Consistent, MarkedOnce
<1>10. (PathDown /\ EdgesFollowed /\ ChildrenFirst)'
  BY <1>1 DEF Consistent, PathDown, EdgesFollowed, ChildrenFirst, CalledSet
<1> QED
  BY <1>6, <1>7, <1>8, <1>9, <1>10 DEF Consistent

(***************************************************************************)
(* Every action keeps the inductive invariant.                             *)
(***************************************************************************)
THEOREM NextConsistent == Consistent /\ [Next]_vars => Consistent'
<1> SUFFICES ASSUME Consistent, [Next]_vars PROVE Consistent'
  OBVIOUS
<1>1. CASE Next
  BY <1>1, ChangeConsistent, BeginConsistent, FollowEdgeConsistent,
     CallbackConsistent, EndConsistent DEF Next, Step
<1>2. CASE UNCHANGED vars
  <2>1. TypeOK'
    BY <1>2 DEF vars, Consistent, TypeOK
  <2>2. (GraphBuilt /\ Resting /\ MarksBehind)'
    BY <1>2 DEF vars, Consistent, GraphBuilt, Resting, MarksBehind, MarkerFresh, live
  <2>3. OnStack' = OnStack /\ CalledSet' = CalledSet /\ live' = live
    BY <1>2 DEF vars, OnStack, CalledSet, live
  <2>4. MarkedOnce'
    BY <2>3, <1>2 DEF vars, Consistent, MarkedOnce
  <2>5. (PathDown /\ ChildrenFirst)'
    BY <1>2 DEF vars, Consistent, PathDown, ChildrenFirst
  <2>6. EdgesFollowed'
    BY <2>3, <1>2 DEF vars, Consistent, EdgesFollowed
  <2> QED
    BY <2>1, <2>2, <2>4, <2>5, <2>6 DEF Consistent
<1> QED
  BY <1>1, <1>2

(***************************************************************************)
(* The inductive invariant holds.                                          *)
(***************************************************************************)
THEOREM AlwaysConsistent == Spec => []Consistent
BY InitConsistent, NextConsistent, PTL DEF Spec

(***************************************************************************)
(* No node of the graph carries the marker a traversal starts with,        *)
(* however often the marker wrapped and whatever became of the graph.      *)
(***************************************************************************)
THEOREM MarkerAlwaysFresh == Spec => []MarkerFresh
<1>1. Consistent => MarkerFresh
  BY DEF Consistent, MarksBehind
<1> QED
  BY <1>1, AlwaysConsistent, PTL

(***************************************************************************)
(* Children are given to the callback before their parents.                *)
(***************************************************************************)
THEOREM ChildrenAlwaysFirst == Spec => []ChildrenFirst
<1>1. Consistent => ChildrenFirst
  BY DEF Consistent
<1> QED
  BY <1>1, AlwaysConsistent, PTL

(***************************************************************************)
(* Every node is given to the callback exactly once: the called nodes are  *)
(* a set with the root that no edge leads out of.                          *)
(***************************************************************************)
THEOREM AlwaysVisitedOnce == Spec => []VisitedOnce
<1>1. ASSUME Consistent, pc = "run", frames = <<>>
      PROVE  CalledSet = live
  <2>1. OnStack = {}
    BY <1>1 DEF OnStack
  <2>2. /\ CalledSet \subseteq live /\ q0 \in CalledSet
    BY <2>1, <1>1 DEF Consistent, MarkedOnce
  <2>3. live \subseteq Node /\ \A S \in ClosedSets(next, q0, Node) : live \subseteq S
    BY <1>1, LiveFacts DEF Consistent
  <2>4. ASSUME NEW n \in CalledSet, NEW l \in Letter, next[n][l] # NULL
        PROVE  next[n][l] \in CalledSet
    <3>1. PICK k \in 1..Len(called) : n = called[k]
      BY DEF CalledSet
    <3>2. PICK j \in 1..(k - 1) : called[j] = next[n][l]
      BY <3>1, <2>4, <1>1 DEF Consistent, ChildrenFirst
    <3>3. Len(called) \in Nat
      BY <1>1, LenProperties DEF Consistent, TypeOK
    <3>4. j \in 1..Len(called)
      BY <3>1, <3>2, <3>3
    <3> QED
      BY <3>2, <3>4 DEF CalledSet
  <2>5. CalledSet \in ClosedSets(next, q0, Node)
    BY <2>2, <2>3, <2>4 DEF ClosedSets
  <2> QED
    BY <2>2, <2>3, <2>5
<1>2. Consistent => VisitedOnce
  BY <1>1 DEF Consistent, MarkedOnce, VisitedOnce
<1> QED
  BY <1>2, AlwaysConsistent, PTL
=============================================================================
