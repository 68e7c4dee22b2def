----------------------------- MODULE Automaton -----------------------------
(***************************************************************************)
(* The graph a DAWG is, and how it is read.  A graph g maps a node to its  *)
(* outgoing edges (DAWGNode.next), a function from every letter to the     *)
(* child or to NULL when no edge has that label; e says which nodes carry  *)
(* the end-of-word marker (DAWGNode.eow).                                  *)
(***************************************************************************)
EXTENDS Words

CONSTANTS Letter,   \* edge labels
          NULL      \* the null pointer

ASSUME LetterAssumption == Letter \subseteq Nat

NoEdges == [l \in Letter |-> NULL]

(***************************************************************************)
(* dawgnode_get_child: the child over an edge, NULL if there is none; the  *)
(* code allows a NULL node here (dawgnode_get_child_idx tests it).         *)
(***************************************************************************)
GetChild(g, n, l) == IF n = NULL THEN NULL ELSE g[n][l]

(***************************************************************************)
(* Run(g, root, w)[k] is the node k letters of w lead to.                  *)
(***************************************************************************)
Run(g, root, w) ==
  LET h[k \in 0..Len(w)] ==
        IF k = 0 THEN root ELSE GetChild(g, h[k - 1], w[k])
  IN h

Target(g, root, w) == Run(g, root, w)[Len(w)]

(***************************************************************************)
(* DAWG_exists: walk the word, then look at the marker.                    *)
(***************************************************************************)
Accepts(g, e, root, w) == Target(g, root, w) # NULL /\ e[Target(g, root, w)]

-----------------------------------------------------------------------------

(***************************************************************************)
(* What a depth-first traversal from the root visits, among the nodes N:   *)
(* the least set with the root in it that no edge leads out of.            *)
(***************************************************************************)
ClosedSets(g, root, N) ==
  {S \in SUBSET N :
     /\ root # NULL => root \in S
     /\ \A n \in S, l \in Letter : g[n][l] # NULL => g[n][l] \in S}

Reachable(g, root, N) ==
  LET closed == ClosedSets(g, root, N)
  IN  {n \in N : \A S \in closed : n \in S}
=============================================================================
