----------------------------- MODULE MCTraverse ----------------------------
EXTENDS Traverse

CONSTANT Nodes   \* how many addresses there are

MCNode == 1..Nodes

(***************************************************************************)
(* The graphs without a cycle whose edges lead to greater addresses, with  *)
(* the root at the least: with two edges to one node, nodes shared by      *)
(* several and, of the addresses that are not reached, any number free.    *)
(***************************************************************************)
MCGraph ==
  {g \in [root : {1, NULL}, next : [MCNode -> [Letter -> MCNode \cup {NULL}]]] :
     \A n \in MCNode, l \in Letter :
       g.next[n][l] # NULL =>
         /\ g.next[n][l] > n
         /\ g.root # NULL /\ n \in Reachable(g.next, g.root, MCNode)}
=============================================================================
