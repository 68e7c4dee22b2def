----------------------------- MODULE NodeTable -----------------------------
(***************************************************************************)
(* The registry with the nodes it holds: the table of module HashTable,    *)
(* whose keys hash by the edges of module NodeEdges.  The registry is used *)
(* the way dawg.c does: set_child on a node is preceded by hashtable_del   *)
(* and followed by hashtable_add, and nothing else is called between.      *)
(***************************************************************************)
EXTENDS NodeEdges

CONSTANTS Hash(_),        \* dawgnode_hash, of the edges of a node
          HashValue,      \* its values
          InitialSize, MaxSize,
          Edited          \* bound: the edges [node, letter, child] that are
                          \* looked up and set

ASSUME HashAssumption ==
  /\ HashValue \subseteq Nat
  /\ \A m \in 0..Cardinality(Letter) :
       \A edges \in [1..m -> Edge] : Hash(edges) \in HashValue
ASSUME SizeAssumption == InitialSize \in Nat \ {0} /\ MaxSize \in Nat
ASSUME EditedAssumption ==
  Edited \subseteq [node : Node, letter : Letter, child : Node]

VARIABLES size, table, count, held

Edges(k) == SubSeq(next[k], 1, n[k])

T == INSTANCE HashTable WITH
       Key <- Node, hash <- [k \in Node |-> Hash(Edges(k))]

tableVars == <<size, table, count, held>>

TableInit == Init /\ T!Init

-----------------------------------------------------------------------------

Quiet == pc = "idle" /\ held = {}

Lookup(k, l) == Quiet /\ GetChild(k, l) /\ UNCHANGED tableVars

(***************************************************************************)
(* A node the registry holds is not freed.                                 *)
(***************************************************************************)
Reuse(k) == Quiet /\ k \notin T!Keys /\ NewNode(k) /\ UNCHANGED tableVars

(* Mutant of Bracketed: the node changes where it is. *)
NotBracketed(k) == UNCHANGED tableVars

(***************************************************************************)
(* hashtable_del before set_child: the item, if there is one, is held.     *)
(***************************************************************************)
Bracketed(k) ==
  \/ T!TakeOut(k)
  \/ T!Places(k) = {} /\ UNCHANGED tableVars

ChangeChild(k, l, c) ==
  /\ Quiet /\ size > 0
  /\ SetChild(k, l, c)
  /\ Bracketed(k)

NodeStep == Step /\ UNCHANGED tableVars

(***************************************************************************)
(* resize_hash and hashtable_add after set_child has returned.             *)
(***************************************************************************)
PutBack == pc = "idle" /\ UNCHANGED nodeVars /\ T!PutBack

Register(k) == Quiet /\ UNCHANGED nodeVars /\ T!Register(k)
RegisterLoaded(k) == Quiet /\ UNCHANGED nodeVars /\ T!RegisterLoaded(k)
Clear == Quiet /\ UNCHANGED nodeVars /\ T!Clear
Destroy == Quiet /\ UNCHANGED nodeVars /\ T!Destroy

TableNext ==
  \/ \E k \in Node :
       \/ Reuse(k) \/ Register(k) \/ RegisterLoaded(k)
  \/ \E e \in Edited :
       Lookup(e.node, e.letter) \/ ChangeChild(e.node, e.letter, e.child)
  \/ NodeStep \/ PutBack \/ Clear \/ Destroy

TableSpec ==
  TableInit /\ [][TableNext]_<<nodeVars, tableVars>> /\ WF_<<nodeVars, tableVars>>(NodeStep)

-----------------------------------------------------------------------------

(***************************************************************************)
(* hashtable_get_list finds the nodes equivalent to k: a registered node   *)
(* with the edges of k is in the bucket where k is looked for, whatever    *)
(* has changed and grown since it was filed.                               *)
(***************************************************************************)
EquivalentFound ==
  /\ T!Findable
  /\ size > 0 =>
       \A k \in Node : \A r \in T!Keys :
         Edges(r) = Edges(k) =>
           \E j \in 1..Len(table[Hash(Edges(k)) % size]) :
             table[Hash(Edges(k)) % size][j].key = r

CountExact == T!CountExact

(***************************************************************************)
(* The registry is a set of keys, also while a node is taken out.          *)
(***************************************************************************)
ImplementsKeySet == T!ImplementsKeySet
=============================================================================
