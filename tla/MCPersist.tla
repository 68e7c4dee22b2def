----------------------------- MODULE MCPersist -----------------------------
(***************************************************************************)
(* Values of the constants of DawgPersist for TLC.                         *)
(***************************************************************************)
EXTENDS MCDawg, DawgPersist

(***************************************************************************)
(* The copies go to the lowest free addresses, in the order of the         *)
(* originals.                                                              *)
(***************************************************************************)
MCCopies(S, used) ==
  LET before(T, n) == Cardinality({m \in T : m < n})
      free == MCNode \ used
  IN  IF Cardinality(free) < Cardinality(S) THEN {} ELSE
      {[n \in S |-> CHOOSE f \in free : before(free, f) = before(S, n)]}
=============================================================================
