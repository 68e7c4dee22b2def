------------------------------ MODULE ChildMap ------------------------------
(***************************************************************************)
(* What the functions of dawgnode.h promise of the edges of the nodes: a   *)
(* map from letters to children for every node, where set_child "adds or   *)
(* replace[s] link" and get_child "returns node connected by edge labelled *)
(* by letter".  The sorted arrays, their lengths and the search in them    *)
(* are not seen.                                                           *)
(***************************************************************************)
CONSTANTS Node, Letter, NULL

VARIABLES children,   \* the child of each node under each letter, or NULL
          answer      \* what the last call returned, if none is under way

NoAnswer == [call |-> "none"]

Init ==
  /\ children = [k \in Node |-> [l \in Letter |-> NULL]]
  /\ answer = NoAnswer

Ask == answer' = NoAnswer /\ UNCHANGED children

New(k) ==
  /\ children' = [children EXCEPT ![k] = [l \in Letter |-> NULL]]
  /\ answer' = NoAnswer

Get(k, l) ==
  /\ answer' = [call |-> "get_child", node |-> k, letter |-> l,
                value |-> children[k][l]]
  /\ UNCHANGED children

Set(k, l, c) ==
  /\ children' = [children EXCEPT ![k] = [@ EXCEPT ![l] = c]]
  /\ answer' = [call |-> "set_child", node |-> k, letter |-> l, value |-> c]

Next ==
  \/ Ask
  \/ \E k \in Node : New(k)
  \/ \E k \in Node, l \in Letter : Get(k, l) \/ \E c \in Node : Set(k, l, c)

Spec == Init /\ [][Next]_<<children, answer>>
=============================================================================
