----------------------------- MODULE Traverse ------------------------------
(***************************************************************************)
(* DAWG_traverse_DFS_once (dawg.c), the traversal that numbers nodes,      *)
(* counts them, saves them and lists them to be freed.  Nodes are marked   *)
(* with a 16-bit marker that changes with every traversal and wraps, so    *)
(* that marks are seldom cleared.  Between traversals the graph changes.   *)
(***************************************************************************)
EXTENDS Automaton, FiniteSets

CONSTANTS Node,      \* addresses of nodes
          Markers,   \* how many markers there are, 2^16 in the code
          Graph      \* the graphs the construction may build: [root, next]

ASSUME NodeAssumption == NULL \notin Node
ASSUME MarkersAssumption == Markers \in Nat /\ Markers >= 2
ASSUME GraphAssumption ==
  \A g \in Graph : /\ g.root \in Node \cup {NULL}
                   /\ g.next \in [Node -> [Letter -> Node \cup {NULL}]]

(***************************************************************************)
(* No graph has a cycle: among any nodes is one no edge leads from to them.*)
(***************************************************************************)
ASSUME AcyclicAssumption ==
  \A g \in Graph : \A S \in (SUBSET Node) \ {{}} :
    \E n \in S : \A l \in Letter : g.next[n][l] \notin S

VARIABLES q0, next,         \* the graph
          visited,          \* DAWGNode.visited
          visited_marker,   \* DAWG.visited_marker
          frames,           \* the recursion, innermost last: [node, left]
          called,           \* the nodes given to the callback so far
          pc                \* "idle", "run"; "abort" after the callback gave 0

vars == <<q0, next, visited, visited_marker, frames, called, pc>>

live == Reachable(next, q0, Node)

TypeOK ==
  /\ q0 \in Node \cup {NULL}
  /\ next \in [Node -> [Letter -> Node \cup {NULL}]]
  /\ visited \in [Node -> 0..(Markers - 1)]
  /\ visited_marker \in 0..(Markers - 1)
  /\ frames \in Seq([node : Node, left : SUBSET Letter])
  /\ called \in Seq(Node)
  /\ pc \in {"idle", "run", "abort"}

-----------------------------------------------------------------------------

(***************************************************************************)
(* DAWG_init, and a graph built before the first traversal.                *)
(***************************************************************************)
Init ==
  /\ \E g \in Graph : q0 = g.root /\ next = g.next
  /\ visited = [n \in Node |-> 0]
  /\ visited_marker = 1
  /\ frames = <<>> /\ called = <<>> /\ pc = "idle"

(* Mutant of NewMark: malloc's memory is not initialized. *)
AnyMark == 0..(Markers - 1)

(***************************************************************************)
(* dawgnode_new and load_node clear the mark of a node.                    *)
(***************************************************************************)
NewMark == {0}

(***************************************************************************)
(* Calls that change the graph: the nodes in kept stay, any other address  *)
(* of the new graph is that of a new node.                                 *)
(***************************************************************************)
Change ==
  /\ pc = "idle"
  /\ \E kept \in SUBSET live, mark \in NewMark, g \in Graph :
       /\ q0' = g.root /\ next' = g.next
       /\ visited' = [n \in Node |-> IF n \in kept THEN visited[n] ELSE mark]
  /\ called' = <<>>
  /\ UNCHANGED <<visited_marker, frames, pc>>

(* Mutant of MarksCleared: the marks stay when the marker wraps. *)
MarksKept == visited

(***************************************************************************)
(* DAWG_traverse_clear_visited, and the next marker.                       *)
(***************************************************************************)
MarksCleared == [n \in Node |-> IF n \in live THEN 0 ELSE visited[n]]
NextMarker == (visited_marker + 1) % Markers

(***************************************************************************)
(* DAWG_traverse_DFS_once_aux at a node: nothing if it has the mark,       *)
(* otherwise it gets the mark and its edges are followed in order.         *)
(***************************************************************************)
Frame(n) == [node |-> n, left |-> {l \in Letter : next[n][l] # NULL}]

Enter(n, outer, marks, marker) ==
  IF marks[n] = marker
    THEN frames' = outer /\ visited' = marks
    ELSE frames' = Append(outer, Frame(n)) /\ visited' = [marks EXCEPT ![n] = marker]

Begin ==
  /\ pc = "idle"
  /\ q0 # NULL
  /\ \/ /\ visited_marker = 0
        /\ visited_marker' = 1
        /\ Enter(q0, <<>>, MarksCleared, 1)
     \/ /\ visited_marker # 0
        /\ Enter(q0, <<>>, visited, visited_marker)
        /\ UNCHANGED visited_marker
  /\ called' = <<>>
  /\ pc' = "run"
  /\ UNCHANGED <<q0, next>>

Top == frames[Len(frames)]
Outer == SubSeq(frames, 1, Len(frames) - 1)

(* Mutant of AllFollowed: the callback runs when the last edge is next. *)
LastEdgeNext == Cardinality(Top.left) <= 1

AllFollowed == Top.left = {}

(* Mutant of Followed: the loop does not advance. *)
NotFollowed(l) == Top

Followed(l) == [Top EXCEPT !.left = @ \ {l}]

FollowEdge ==
  /\ pc = "run" /\ frames # <<>>
  /\ ~AllFollowed
  /\ LET l == CHOOSE l \in Top.left : \A m \in Top.left : l <= m
     IN  Enter(next[Top.node][l], Append(Outer, Followed(l)),
               visited, visited_marker)
  /\ UNCHANGED <<q0, next, visited_marker, called, pc>>

(***************************************************************************)
(* All edges followed: the callback.  When it gives 0 every level of the   *)
(* recursion returns 0.                                                    *)
(***************************************************************************)
Callback ==
  /\ pc = "run" /\ frames # <<>>
  /\ AllFollowed
  /\ called' = Append(called, Top.node)
  /\ \/ frames' = Outer /\ pc' = "run"
     \/ frames' = <<>> /\ pc' = "abort"
  /\ UNCHANGED <<q0, next, visited, visited_marker>>

End ==
  /\ pc \in {"run", "abort"} /\ frames = <<>>
  /\ visited_marker' = NextMarker
  /\ pc' = "idle"
  /\ UNCHANGED <<q0, next, visited, frames, called>>

Step == FollowEdge \/ Callback \/ End

Next == Change \/ Begin \/ Step

Spec == Init /\ [][Next]_vars /\ WF_vars(Step)

-----------------------------------------------------------------------------

(***************************************************************************)
(* "nodes are visited exactly once" (dawg.h): no node is given to the      *)
(* callback twice, and a traversal that is not broken off misses none,     *)
(* however often the marker has wrapped.                                   *)
(***************************************************************************)
CalledSet == {called[k] : k \in 1..Len(called)}

VisitedOnce ==
  /\ \A j, k \in 1..Len(called) : called[j] = called[k] => j = k
  /\ pc = "run" /\ frames = <<>> => CalledSet = live

(***************************************************************************)
(* A node is given to the callback after its children: numbering the nodes *)
(* adds up the numbers of the children.                                    *)
(***************************************************************************)
ChildrenFirst ==
  \A k \in 1..Len(called), l \in Letter :
    pc # "idle" /\ next[called[k]][l] # NULL =>
      \E j \in 1..(k - 1) : called[j] = next[called[k]][l]

(***************************************************************************)
(* No node of the graph carries the marker a traversal starts with.        *)
(***************************************************************************)
MarkerFresh ==
  pc = "idle" /\ visited_marker # 0 =>
    \A n \in live : visited[n] < visited_marker

(***************************************************************************)
(* A traversal returns.                                                    *)
(***************************************************************************)
Returns == pc # "idle" ~> pc = "idle"
=============================================================================
