------------------------------ MODULE MCTable ------------------------------
(***************************************************************************)
(* Values of the constants of NodeTable for TLC.  The hashes collide in    *)
(* every way: nodes with different edges have the same hash, and different *)
(* hashes fall into one bucket until the table grows.                      *)
(***************************************************************************)
EXTENDS NodeTable

MCHash(edges) ==
  IF edges = <<>> THEN 0
  ELSE edges[1].letter + 2 * Len(edges) + edges[Len(edges)].child

(***************************************************************************)
(* Node 1 gets up to three edges, to 2 and 3, and node 2 up to two of the  *)
(* same; node 3 is a leaf.                                                 *)
(***************************************************************************)
MCEdited ==
  [node : {1}, letter : {1, 2, 3}, child : {2, 3}]
    \cup [node : {2}, letter : {1, 3}, child : {3}]
=============================================================================
