----------------------------- MODULE NodeEdges -----------------------------
(***************************************************************************)
(* The edges of the nodes (dawgnode.c): one array for each node, "always   *)
(* sorted by letter", searched by halving and copied when an edge is added.*)
(* One action per call and per iteration of the search and of the copy.    *)
(* Arrays start at 1 here.                                                 *)
(***************************************************************************)
EXTENDS Integers, Sequences, FiniteSets

CONSTANTS Node, Letter, NULL,
          Width       \* DAWGNode.n is one of 0..Width-1, 2^16 in dawgnode.h

(***************************************************************************)
(* The letters of the build are fewer than n can count: 2^8 of them with   *)
(* bytes.  With DAWG_UNICODE they are not.                                 *)
(***************************************************************************)
ASSUME LetterAssumption == Letter \subseteq Nat /\ IsFiniteSet(Letter)
ASSUME WidthAssumption == Width \in Nat /\ Cardinality(Letter) < Width
ASSUME NullAssumption == NULL \notin Node

VARIABLES next, n,               \* DAWGNode.next and DAWGNode.n of each node
          pc,                    \* the call and the loop it is in, or "idle"
          node, letter, child,   \* its arguments
          a, b,                  \* locals of dawgnode_get_child_idx
          newnext,               \* local of dawgnode_set_child
          answer                 \* what the last call returned, if none is under way

locals == <<node, letter, child, a, b, newnext>>
nodeVars == <<next, n, pc, locals, answer>>

Edge == [letter : Letter, child : Node]

NoAnswer == [call |-> "none"]

Init ==
  /\ next = [k \in Node |-> <<>>]
  /\ n = [k \in Node |-> 0]
  /\ pc = "idle"
  /\ node = NULL /\ letter = 0 /\ child = NULL
  /\ a = 0 /\ b = 0 /\ newnext = <<>>
  /\ answer = NoAnswer

-----------------------------------------------------------------------------

Return(call, value) ==
  /\ answer' = [call |-> call, node |-> node, letter |-> letter, value |-> value]
  /\ pc' = "idle"
  /\ node' = NULL /\ letter' = 0 /\ child' = NULL
  /\ a' = 0 /\ b' = 0 /\ newnext' = <<>>

(***************************************************************************)
(* A node is freed and its address given out again (dawgnode_new).         *)
(***************************************************************************)
NewNode(k) ==
  /\ pc = "idle"
  /\ next' = [next EXCEPT ![k] = <<>>]
  /\ n' = [n EXCEPT ![k] = 0]
  /\ answer' = NoAnswer
  /\ UNCHANGED <<pc, locals>>

(***************************************************************************)
(* The call of get_child, which iterators, lookups and has_child make, and *)
(* that of set_child.  Both search first.                                  *)
(***************************************************************************)
Search(call, k, l) ==
  /\ pc = "idle"
  /\ pc' = call
  /\ node' = k /\ letter' = l /\ a' = 1 /\ b' = n[k]
  /\ answer' = NoAnswer
  /\ UNCHANGED <<next, n, newnext>>

GetChild(k, l) == Search("get_child", k, l) /\ UNCHANGED child

SetChild(k, l, c) == Search("set_child", k, l) /\ child' = c

Searching == pc \in {"get_child", "set_child"} /\ a <= b

c0 == (a + b) \div 2

At == next[node][c0]

(* Mutant of Upper: the search goes on where it is. *)
UpperStays == a' = c0 /\ UNCHANGED b

Lower == b' = c0 - 1 /\ UNCHANGED a

Upper == a' = c0 + 1 /\ UNCHANGED b

Probe ==
  /\ Searching
  /\ \/ At.letter > letter /\ Lower
     \/ At.letter < letter /\ Upper
  /\ UNCHANGED <<next, n, pc, node, letter, child, newnext, answer>>

FoundChild ==
  /\ pc = "get_child" /\ Searching
  /\ At.letter = letter
  /\ Return("get_child", At.child)
  /\ UNCHANGED <<next, n>>

NoChild ==
  /\ pc = "get_child" /\ ~Searching
  /\ Return("get_child", NULL)
  /\ UNCHANGED <<next, n>>

ReplaceChild ==
  /\ pc = "set_child" /\ Searching
  /\ At.letter = letter
  /\ next' = [next EXCEPT ![node] = [@ EXCEPT ![c0] = [letter |-> letter, child |-> child]]]
  /\ Return("set_child", child)
  /\ UNCHANGED n

StartCopy ==
  /\ pc = "set_child" /\ ~Searching
  /\ pc' = "copy"
  /\ UNCHANGED <<next, n, locals, answer>>

(***************************************************************************)
(* The edges before the new one.                                           *)
(***************************************************************************)
Before == Len(newnext) < n[node] /\ next[node][Len(newnext) + 1].letter < letter

CopyLower ==
  /\ pc = "copy"
  /\ Before
  /\ newnext' = Append(newnext, next[node][Len(newnext) + 1])
  /\ UNCHANGED <<next, n, pc, node, letter, child, a, b, answer>>

(* Mutant of OneMore: the length has one bit and wraps. *)
OneMoreBit(m) == (m + 1) % 2

OneMore(m) == (m + 1) % Width

(***************************************************************************)
(* The new edge, the edges after it, and the new array.                    *)
(***************************************************************************)
AddChild ==
  /\ pc = "copy"
  /\ ~Before
  /\ next' = [next EXCEPT ![node] =
       newnext \o <<[letter |-> letter, child |-> child]>>
               \o SubSeq(@, Len(newnext) + 1, n[node])]
  /\ n' = [n EXCEPT ![node] = OneMore(@)]
  /\ Return("set_child", child)

Step ==
  \/ Probe \/ FoundChild \/ NoChild \/ ReplaceChild
  \/ StartCopy \/ CopyLower \/ AddChild

Next ==
  \/ \E k \in Node : NewNode(k)
  \/ \E k \in Node, l \in Letter :
       GetChild(k, l) \/ \E c \in Node : SetChild(k, l, c)
  \/ Step

Spec == Init /\ [][Next]_nodeVars

-----------------------------------------------------------------------------

(***************************************************************************)
(* The child under l as the first m edges of an array have it.             *)
(***************************************************************************)
ChildIn(array, m, l) ==
  IF \E j \in 1..m : array[j].letter = l
    THEN array[CHOOSE j \in 1..m : array[j].letter = l].child
    ELSE NULL

ChildOf(k, l) == ChildIn(next[k], n[k], l)

(***************************************************************************)
(* A client of dawgnode.h sees a map from letters to children: the search  *)
(* finds what is there, an edge is added in its place, replaced if it is   *)
(* there, and no other is lost or changed.                                 *)
(***************************************************************************)
Client ==
  INSTANCE ChildMap WITH children <- [k \in Node |-> [l \in Letter |-> ChildOf(k, l)]]

ImplementsChildMap == Client!Spec

(***************************************************************************)
(* Every search and every copy comes to an end.                            *)
(***************************************************************************)
CallsReturn == pc # "idle" ~> pc = "idle"

-----------------------------------------------------------------------------
(***************************************************************************)
(* Why it does.  Consistent is inductive; NodeTableProofs proves it.       *)
(***************************************************************************)

TypeOK ==
  /\ next \in [Node -> Seq(Edge)]
  /\ n \in [Node -> Nat]
  /\ pc \in {"idle", "get_child", "set_child", "copy"}
  /\ a \in Nat /\ b \in Int
  /\ newnext \in Seq(Edge)

(***************************************************************************)
(* dawgnode.h says of the edges "always sorted by letter", and n is the    *)
(* length of the array.                                                    *)
(***************************************************************************)
Sorted(s) == \A j, k \in 1..Len(s) : j < k => s[j].letter < s[k].letter

SortedEdges == \A k \in Node : n[k] = Len(next[k]) /\ Sorted(next[k])

(***************************************************************************)
(* Only what is between a and b may still be the edge that is searched;    *)
(* what is copied comes before it, and the letter is not there.            *)
(***************************************************************************)
SearchState ==
  pc \in {"get_child", "set_child"} =>
    /\ 1 <= a /\ a <= b + 1 /\ b <= n[node]
    /\ \A j \in 1..n[node] :
         /\ j < a => next[node][j].letter < letter
         /\ j > b => next[node][j].letter > letter

CopyState ==
  pc = "copy" =>
    /\ \A j \in 1..n[node] : next[node][j].letter # letter
    /\ Len(newnext) <= n[node]
    /\ \A j \in 1..Len(newnext) :
         newnext[j] = next[node][j] /\ next[node][j].letter < letter

CallState ==
  /\ pc # "idle" => node \in Node /\ letter \in Letter
  /\ pc \in {"set_child", "copy"} => child \in Node
  /\ pc # "copy" => newnext = <<>>
  /\ SearchState /\ CopyState

Consistent == TypeOK /\ SortedEdges /\ CallState
=============================================================================
