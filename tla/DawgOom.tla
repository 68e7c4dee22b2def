------------------------------ MODULE DawgOom ------------------------------
(***************************************************************************)
(* The construction of Dawg when malloc may return NULL (dawg.c,           *)
(* dawgnode.c, hash/hashtable.c).  Each place that tests for NULL, or      *)
(* ignores a result that says so, is an action beside the one of Dawg that *)
(* succeeds.  Allocations whose NULL is dereferenced at once (items of the *)
(* stack, a new registry table) end the process and are left out.          *)
(***************************************************************************)
EXTENDS Dawg

CONSTANTS AddsAfterFailure,  \* clients go on adding after a MemoryError
          MaxLeaked          \* bound: no edge fails when so many nodes leaked

ASSUME OomAssumption == AddsAfterFailure \in BOOLEAN /\ MaxLeaked \in Nat

VARIABLES failed,   \* what failed since the last DAWG_clear: "nothing",
                    \* "node" or "previous" (reported), "edge" (not reported)
          gaps,     \* a registration failed since the last DAWG_clear
          severed   \* an edge failed since DAWG_init

faults == <<failed, gaps, severed>>
oomVars == <<vars, faults>>

-----------------------------------------------------------------------------

(***************************************************************************)
(* The first call cannot allocate the root, or DAWG_clear the list of the  *)
(* nodes to free.                                                          *)
(***************************************************************************)
NoRoot(w) ==
  /\ pc = "idle"
  /\ StringCmp(prev_word, w) <= 0
  /\ state # "CLOSED" /\ q0 = NULL
  /\ Return(DAWG_NO_MEM)
  /\ UNCHANGED <<graph, registry, summary, faults>>

NoListToFree ==
  /\ pc = "idle"
  /\ q0 # NULL
  /\ Return(DAWG_NO_MEM)
  /\ UNCHANGED <<graph, registry, summary, faults>>

(* Mutants: the object is taken to hold a word; the word counts all the same. *)
ActiveAnyway == "ACTIVE"
CountedAnyway == count + 1

(***************************************************************************)
(* The call returns in the middle of the suffix: what it did to the graph  *)
(* and to the registry stays, the summary is that before the call.         *)
(***************************************************************************)
StateAfterFailure == state
CountAfterFailure == count

NoNode ==
  /\ pc = "suffix"
  /\ i < Len(word)
  /\ state' = StateAfterFailure
  /\ count' = CountAfterFailure
  /\ failed' = IF failed = "nothing" THEN "node" ELSE failed
  /\ Return(DAWG_NO_MEM)
  /\ UNCHANGED <<graph, registry, longest_word, prev_word, gaps, severed>>

(***************************************************************************)
(* dawgnode_set_child cannot enlarge the array of edges.  Nobody looks at  *)
(* its result: the new node is lost, and the rest of the suffix, marker    *)
(* included, goes to it.                                                   *)
(***************************************************************************)
NoEdge ==
  /\ pc = "suffix"
  /\ i < Len(word)
  /\ Cardinality(leaked) < MaxLeaked
  /\ \E n \in Fresh(live \cup leaked) :
       /\ next' = [next EXCEPT ![n] = NoEdges]
       /\ eow' = [eow EXCEPT ![n] = FALSE]
       /\ live' = live \cup {n}
       /\ cur' = n
  /\ i' = i + 1
  /\ failed' = "edge" /\ severed' = TRUE
  /\ UNCHANGED <<q0, leaked, registry, summary, ret, pc, caller, word, stack, gaps>>

(***************************************************************************)
(* The word was added, but its copy, the previous word, cannot be          *)
(* allocated: prev_word has a length and no letters.  The empty word needs *)
(* none.                                                                   *)
(***************************************************************************)
NoPreviousWord ==
  /\ pc = "suffix"
  /\ i = Len(word)
  /\ eow' = Marked
  /\ count' = Counted
  /\ state' = "ACTIVE"
  /\ longest_word' = IF Len(word) > longest_word THEN Len(word) ELSE longest_word
  /\ prev_word' = NoPrevious
  /\ failed' = IF failed = "nothing" /\ word # <<>> THEN "previous" ELSE failed
  /\ Return(DAWG_NO_MEM)
  /\ UNCHANGED <<q0, next, live, leaked, registry, gaps, severed>>

(***************************************************************************)
(* hashtable_add fails in DAWG_replace_or_register and nobody looks at its *)
(* result: the node stays unregistered, and is not shared.                 *)
(***************************************************************************)
NoRegistration ==
  /\ pc = "minimize" /\ stack # <<>>
  /\ Lookup(stack[Len(stack)].child) = {}
  /\ stack' = Popped
  /\ gaps' = TRUE
  /\ UNCHANGED <<graph, registry, summary, ret, pc, caller, word, i, cur>>
  /\ UNCHANGED <<failed, severed>>

Fault ==
  \/ \E w \in Word : NoRoot(w)
  \/ NoListToFree
  \/ NoNode
  \/ NoEdge
  \/ NoPreviousWord
  \/ NoRegistration

-----------------------------------------------------------------------------

(***************************************************************************)
(* What clients do after a failure: they read, they clear, and when they   *)
(* were told and caught the MemoryError they may add again.  After "edge"  *)
(* and "previous" the next add or close dereferences NULL.  DAWG_clear     *)
(* ends all of this, whatever failed before.                               *)
(***************************************************************************)
Usable == failed = "nothing" \/ (failed = "node" /\ AddsAfterFailure)

OomInit == Init /\ failed = "nothing" /\ gaps = FALSE /\ severed = FALSE

OomCall ==
  \/ /\ Usable
     /\ \/ \E w \in Word : AddWord(w)
        \/ Close
        \/ CloseNothing
     /\ UNCHANGED faults
  \/ /\ Usable
     /\ \E w \in Word : RejectLess(w) \/ RejectFrozen(w)
     /\ UNCHANGED faults
  \/ /\ Clear
     /\ failed' = "nothing" /\ gaps' = FALSE
     /\ UNCHANGED severed

OomNext ==
  \/ OomCall
  \/ Step /\ UNCHANGED faults
  \/ Fault

OomSpec == OomInit /\ [][OomNext]_oomVars

-----------------------------------------------------------------------------

(***************************************************************************)
(* Whatever failed, the object can be read and freed: no pointer to a      *)
(* freed node, the registry holds allocated nodes under their present      *)
(* hash, and no node is lost, to the readers or to DAWG_clear, but those   *)
(* below an edge that failed.                                              *)
(***************************************************************************)
ReadableAfterFailure ==
  /\ NoDangling
  /\ RegistryValid
  /\ failed # "edge" => NoLeak
  /\ ~severed => leaked = {}

(***************************************************************************)
(* DAWG_clear after any failure, also one nobody noticed, restores all     *)
(* that the construction relies on, for every call after it; the nodes     *)
(* below an edge that failed are no part of the graph any more.            *)
(***************************************************************************)
RecoveredByClear ==
  failed = "nothing" /\ ~gaps =>
    /\ ObjectState /\ CallState
    /\ UnsharedTail /\ TailBounds
    /\ NoLeak

(***************************************************************************)
(* count stays the "number of distinct words" (dawg.h) after every failure *)
(* that is reported.                                                       *)
(***************************************************************************)
CountExact ==
  pc = "idle" /\ failed # "edge" => count = Cardinality(Lang)

(***************************************************************************)
(* A client sees a set of words and is told when a call failed.            *)
(***************************************************************************)
FallibleClient ==
  INSTANCE FallibleSet WITH words <- Lang, last <- prev_word, lost <- failed = "edge"

ImplementsFallibleSet == FallibleClient!FallibleSpec
=============================================================================
