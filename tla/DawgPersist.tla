---------------------------- MODULE DawgPersist ----------------------------
(***************************************************************************)
(* Saving and restoring a DAWG (dawg_pickle.c): DAWG_save writes every     *)
(* node the traversal reaches, DAWG_load builds copies at new addresses,   *)
(* clears the object and installs the copies.  The bytes are abstracted to *)
(* the record they encode.  What is loaded is what bindump returned, of    *)
(* this or of another DAWG built alike.                                    *)
(***************************************************************************)
EXTENDS Dawg

CONSTANTS Copies(_, _),      \* Copies(S, used): where malloc may put copies of
                             \* the nodes S, given the addresses in use
          AddsAfterRestore   \* clients add to a DAWG saved while ACTIVE

ASSUME AddsAssumption == AddsAfterRestore \in BOOLEAN

VARIABLES dump,       \* the bytes bindump returned last
          restored    \* the object holds a dump that was saved while ACTIVE

persistent == <<dump, restored>>
persistVars == <<vars, persistent>>

-----------------------------------------------------------------------------

(***************************************************************************)
(* DAWG_save: the nodes the traversal reaches get sequential numbers; the  *)
(* addresses stand for the numbers here.                                   *)
(***************************************************************************)
SavedNodes == Reachable(next, q0, live)

Image ==
  [state |-> state, root |-> q0, nodes |-> SavedNodes,
   next  |-> [n \in SavedNodes |-> next[n]],
   eow   |-> [n \in SavedNodes |-> eow[n]],
   count |-> count, longest_word |-> longest_word]

Save ==
  /\ pc = "idle"
  /\ dump' = Image
  /\ UNCHANGED <<vars, restored>>

-----------------------------------------------------------------------------

(* Mutants: numbers are not turned into addresses, the marker is not read.  *)
NotLinked(copy, m) == m
Unmarked(m) == FALSE

(***************************************************************************)
(* Step 3 of DAWG_load: the number of a child becomes its new address.     *)
(***************************************************************************)
Linked(copy, m) == IF m = NULL THEN NULL ELSE copy[m]

LoadedMarker(m) == dump.eow[m]

(***************************************************************************)
(* load_node, for every node of the dump: malloc returns unused addresses, *)
(* all different.  The old nodes are still allocated.                      *)
(***************************************************************************)
Allocated(copy) ==
  /\ copy \in [dump.nodes -> Node \ (live \cup leaked)]
  /\ \A m, n \in dump.nodes : copy[m] = copy[n] => m = n

(***************************************************************************)
(* The nodes the DAWG_clear in the middle of DAWG_load frees.              *)
(***************************************************************************)
Freed == Reachable(next, q0, live)

IsCopy(copy, n) == \E m \in dump.nodes : copy[m] = n
Original(copy, n) == CHOOSE m \in dump.nodes : copy[m] = n

Installed(copy) ==
  /\ live' = {copy[m] : m \in dump.nodes}
  /\ leaked' = leaked \cup (live \ Freed)
  /\ next' = [n \in Node |->
       IF IsCopy(copy, n)
         THEN [l \in Letter |-> Linked(copy, dump.next[Original(copy, n)][l])]
         ELSE IF n \in Freed THEN NoEdges ELSE next[n]]
  /\ eow' = [n \in Node |->
       IF IsCopy(copy, n) THEN LoadedMarker(Original(copy, n))
                          ELSE eow[n] /\ n \notin Freed]

(* Mutants: the maximum is not restored, the state is not looked at. *)
OldLongest == longest_word
AllRecreated(copy, e, g) == {Entry(copy[m], e, g) : m \in dump.nodes}

(***************************************************************************)
(* The header fields, and the registry: of an ACTIVE dump every node is    *)
(* registered, the root and the nodes of the last word included.           *)
(***************************************************************************)
RestoredLongest == dump.longest_word

Recreated(copy, e, g) ==
  IF dump.state = "ACTIVE" THEN {Entry(copy[m], e, g) : m \in dump.nodes} ELSE {}

Load ==
  /\ pc = "idle"
  /\ \E copy \in Copies(dump.nodes, live \cup leaked) :
       /\ Allocated(copy)
       /\ Installed(copy)
       /\ q0' = Linked(copy, dump.root)
       /\ reg' = Recreated(copy, eow', next')
  /\ reg_ready' = TableForReuse
  /\ count' = dump.count /\ longest_word' = RestoredLongest
  /\ state' = dump.state /\ prev_word' = NoPrevious
  /\ restored' = (dump.state = "ACTIVE")
  /\ Return(0)
  /\ UNCHANGED dump

-----------------------------------------------------------------------------

PersistInit ==
  /\ Init
  /\ dump = Image
  /\ restored = FALSE

(***************************************************************************)
(* What may be added to a restored DAWG: nothing, or a word no smaller     *)
(* than any it has, the order in which an unbroken construction would see. *)
(***************************************************************************)
MayAdd(w) == restored => AddsAfterRestore /\ \A v \in Lang : LessEq(v, w)

PersistCall ==
  \/ /\ \/ \E w \in Word : \/ MayAdd(w) /\ AddWord(w)
                           \/ RejectLess(w)
                           \/ RejectFrozen(w)
        \/ Close
        \/ CloseNothing
     /\ UNCHANGED restored
  \/ Clear /\ restored' = FALSE

PersistNext ==
  \/ PersistCall /\ UNCHANGED dump
  \/ Step /\ UNCHANGED persistent
  \/ Save
  \/ Load

PersistSpec == PersistInit /\ [][PersistNext]_persistVars
FairPersistSpec == PersistSpec /\ WF_persistVars(Step /\ UNCHANGED persistent)

-----------------------------------------------------------------------------

(***************************************************************************)
(* A client sees a set that can be stored: loading gives back the words    *)
(* and the state that were saved, whatever the object held before, and     *)
(* from there on the set changes as any other.                             *)
(***************************************************************************)
SavedLang == {w \in Universe : Accepts(dump.next, dump.eow, dump.root, w)}

StoredClient ==
  INSTANCE StoredSet WITH words <- Lang, last <- prev_word,
                          storedWords <- SavedLang, storedState <- dump.state

ImplementsStoredSet == StoredClient!StoredSpec

(***************************************************************************)
(* A CLOSED or EMPTY dump restores everything the construction relies on:  *)
(* only a dump that was saved while ACTIVE leaves the invariant.           *)
(***************************************************************************)
ConsistentUnlessRestored == ~restored => Consistent /\ RestRegistered

(***************************************************************************)
(* A loaded graph is whole, even of an ACTIVE dump: the numbers of the     *)
(* dump have all become addresses of allocated nodes, everything the       *)
(* object held before was freed, and what is read are the words saved.     *)
(***************************************************************************)
LoadedWhole == NoDangling /\ NoLeak /\ GraphOfWords
=============================================================================
