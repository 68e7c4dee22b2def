-------------------------------- MODULE MCPy -------------------------------
(***************************************************************************)
(* Values of the constants of PyDawg for TLC.                              *)
(***************************************************************************)
EXTENDS PyDawg

CONSTANT Nodes     \* how many objects there may be

MCUniverse == UNION {[1..k -> Letter] : k \in 0..3}

(***************************************************************************)
(* Nested prefixes, common suffixes under different prefixes, and nodes    *)
(* that differ only in their flag.                                         *)
(***************************************************************************)
MCWord ==
  ([1..3 -> Letter] \ {<<1, 2, 1>>, <<2, 1, 1>>}) \cup {<<>>, <<1>>, <<1, 2>>, <<2, 2>>}

MCNode == 1..Nodes

(***************************************************************************)
(* New objects are the lowest that are free.                               *)
(***************************************************************************)
MCObjects(m, used) ==
  LET free == MCNode \ used
      Nth(k) == CHOOSE n \in free : Cardinality({x \in free : x < n}) = k - 1
  IN  IF Cardinality(free) < m THEN {} ELSE {[k \in 1..m |-> Nth(k)]}
=============================================================================
