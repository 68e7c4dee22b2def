------------------------------ MODULE MCClass ------------------------------
(***************************************************************************)
(* DawgClass with the constants of MCPersist.                              *)
(***************************************************************************)
EXTENDS MCPersist, DawgClass

(***************************************************************************)
(* The graphs of one client take the most states, the caches and iterators *)
(* kept beside smaller graphs those of the others.                         *)
(***************************************************************************)
MCAdds ==
  [c \in Clients |-> Word \ (IF c = "stores" THEN {<<2>>} ELSE {<<1, 2>>, <<2, 2>>})]

MCMaxVersion ==
  [c \in Clients |-> CASE c = "stores" -> 3
                    [] c = "numbers" -> 1
                    [] OTHER -> 2]
=============================================================================
