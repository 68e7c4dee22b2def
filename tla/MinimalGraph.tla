---------------------------- MODULE MinimalGraph ---------------------------
(***************************************************************************)
(* A finished DAWG as the methods that only read it see it.  It is minimal *)
(* (Dawg!Minimal), so a node may be named by the words that can be read    *)
(* from it, and two paths that leave the same words meet in one node.  No  *)
(* node is the empty set, which stands for NULL.  Dawg!GraphOfWords says   *)
(* that the construction leaves this graph.                                *)
(***************************************************************************)
EXTENDS Words, FiniteSets, FiniteSetsExt

Marker(node) == <<>> \in node

(***************************************************************************)
(* dawgnode_get_child                                                      *)
(***************************************************************************)
Child(node, l) == {Tail(w) : w \in {v \in node : v # <<>> /\ Head(v) = l}}

(***************************************************************************)
(* The labels of node->next.                                               *)
(***************************************************************************)
Labels(node) == {Head(w) : w \in node \ {<<>>}}

(***************************************************************************)
(* The labels in the order the edges are kept in: "always sorted by        *)
(* letter" (dawgnode.h).                                                   *)
(***************************************************************************)
EdgeOrder(labels) ==
  CHOOSE s \in [1..Cardinality(labels) -> labels] :
    \A j, k \in 1..Cardinality(labels) : j < k => s[j] < s[k]

(***************************************************************************)
(* The nodes below a root, itself included: what is left of its words      *)
(* behind each of their prefixes.                                          *)
(***************************************************************************)
Behind(root, p) ==
  {SubSeq(w, Len(p) + 1, Len(w)) : w \in {v \in root : PrefixOf(p, v)}}

Below(root) ==
  {Behind(root, p) : p \in UNION {{SubSeq(w, 1, k) : k \in 0..Len(w)} : w \in root}}
    \cup {root}

LongestWord(words) == Max({Len(w) : w \in words} \cup {0})
=============================================================================
