----------------------------- MODULE DawgClass -----------------------------
(***************************************************************************)
(* The Python object around a DAWG (DAWG_class.c, DAWGIterator_class.c):   *)
(* what it derives from the graph and keeps, statistics, word numbers and  *)
(* iterators, and the version numbers that say whether it may still be     *)
(* used.                                                                   *)
(***************************************************************************)
EXTENDS DawgPersist, Functions

CONSTANTS Iterator,          \* iterator objects
          Clients,           \* bound: a client saves and loads, or uses also
                             \* statistics, iterators or word numbers
          IterateOverLoad,   \* iterators may be in use when binload is called
          Adds,              \* bound: for each client, the words it adds
          MaxVersion         \* bound: for each client, its last version

ASSUME FiniteAssumption == IsFiniteSet(Letter)
ASSUME ClientsAssumption == Clients \subseteq {"stores", "counts", "iterates", "numbers"}
ASSUME UseAssumption == IterateOverLoad \in BOOLEAN
ASSUME BoundsAssumption ==
  Adds \in [Clients -> SUBSET Word] /\ MaxVersion \in [Clients -> Nat]

VARIABLES version,
          stats_version, stats,   \* the cached statistics
          mph_version, number,    \* the cached numbers, a field of the nodes
          iter,                   \* the iterators in use
          client                  \* which of Clients this one is

caches == <<stats_version, stats, mph_version, number>>
object == <<version, caches, iter, client>>
classVars == <<persistVars, object>>

-----------------------------------------------------------------------------

(***************************************************************************)
(* DAWG_get_stats and the callback it passes over the nodes.               *)
(***************************************************************************)
Edges == {e \in Reachable(next, q0, live) \X Letter : next[e[1]][e[2]] # NULL}

Statistics ==
  [nodes_count  |-> Cardinality(Reachable(next, q0, live)),
   edges_count  |-> Cardinality(Edges),
   words_count  |-> count,
   longest_word |-> longest_word]

(***************************************************************************)
(* update_stats                                                            *)
(***************************************************************************)
UpdateStats ==
  /\ stats' = IF stats_version # version THEN Statistics ELSE stats
  /\ stats_version' = version

(***************************************************************************)
(* DAWG_mph_numerate_nodes: a node's number is its marker plus the numbers *)
(* of its children, which are visited before it.  After k rounds it is     *)
(* right for the nodes that no path of k letters leaves.                   *)
(***************************************************************************)
Labels(n) == {l \in Letter : next[n][l] # NULL}

NumberFrom(numbers, n) ==
  (IF eow[n] THEN 1 ELSE 0) + SumFunction([l \in Labels(n) |-> numbers[next[n][l]]])

Round(visited, numbers) ==
  [n \in Node |-> IF n \in visited THEN NumberFrom(numbers, n) ELSE number[n]]

Numbered ==
  LET visited == Reachable(next, q0, live)
      after[k \in 0..Cardinality(visited)] ==
        IF k = 0 THEN number ELSE Round(visited, after[k - 1])
  IN  after[Cardinality(visited)]

-----------------------------------------------------------------------------

NoIterator == [version |-> 0, stack |-> <<>>, words |-> {}, used |-> FALSE]

(***************************************************************************)
(* dawgobj_new                                                             *)
(***************************************************************************)
ClassInit ==
  /\ PersistInit
  /\ version = 0
  /\ stats_version = -1 /\ stats = Statistics
  /\ mph_version = -1 /\ number = [n \in Node |-> 0]
  /\ iter = [it \in Iterator |-> NoIterator]
  /\ client \in Clients

(* Mutants: the version does not change. *)
SameAfterAdd(result) == version
SameAfterClose == version

(***************************************************************************)
(* The version after add_word and add_word_unchecked: it changes when the  *)
(* word is new.  close and clear always change it.                         *)
(***************************************************************************)
VersionAfterAdd(result) == IF result = 1 THEN version + 1 ELSE version
VersionAfterClose == version + 1
VersionAfterClear == version + 1

(***************************************************************************)
(* dawgnode_new clears the number of a node; load_node does not, and the   *)
(* copies Binload makes have the numbers their memory had.                 *)
(***************************************************************************)
NumbersCleared ==
  number' = [n \in Node |-> IF n \in live' \ live THEN 0 ELSE number[n]]

Method ==
  /\ \/ \E w \in Word : \/ /\ MayAdd(w) /\ AddWord(w)
                           /\ w \in Adds[client] /\ version < MaxVersion[client]
                        \/ RejectLess(w)
                        \/ RejectFrozen(w)
        /\ UNCHANGED <<version, restored>>
     \/ Close /\ version < MaxVersion[client] /\ UNCHANGED <<version, restored>>
     \/ /\ CloseNothing /\ version < MaxVersion[client]
        /\ version' = VersionAfterClose /\ UNCHANGED restored
     \/ /\ Clear /\ version < MaxVersion[client]
        /\ version' = VersionAfterClear /\ restored' = FALSE
  /\ NumbersCleared
  /\ UNCHANGED <<dump, stats_version, stats, mph_version, iter, client>>

Progress ==
  /\ \/ /\ SkipPrefix \/ EndOfPrefix \/ Replace \/ Register \/ Minimized \/ AddSuffix
        /\ UNCHANGED version
     \/ EndAdd /\ version' = VersionAfterAdd(ret')
     \/ EndClose /\ version' = VersionAfterClose
  /\ NumbersCleared
  /\ UNCHANGED <<persistent, stats_version, stats, mph_version, iter, client>>

GetStats ==
  /\ client = "counts"
  /\ pc = "idle"
  /\ UpdateStats
  /\ UNCHANGED <<persistVars, version, mph_version, number, iter, client>>

Bindump ==
  /\ Save
  /\ UpdateStats
  /\ UNCHANGED <<version, mph_version, number, iter, client>>

(* Mutant of NumbersAfterLoad: the numbers stay valid. *)
NumbersKept == mph_version

NumbersAfterLoad == -2

(***************************************************************************)
(* binload, also from the constructor: the versions start over.            *)
(***************************************************************************)
Binload ==
  /\ IterateOverLoad \/ \A it \in Iterator : ~iter[it].used
  /\ Load
  /\ version' = -1
  /\ stats_version' = -2
  /\ mph_version' = NumbersAfterLoad
  /\ UNCHANGED <<stats, number, iter, client>>

(***************************************************************************)
(* word2index and index2word number the words again when they have to.     *)
(***************************************************************************)
Renumber ==
  /\ client = "numbers"
  /\ pc = "idle"
  /\ mph_version # version
  /\ number' = Numbered
  /\ mph_version' = version
  /\ UNCHANGED <<persistVars, version, stats_version, stats, iter, client>>

-----------------------------------------------------------------------------

(***************************************************************************)
(* DAWGIterator_new.  The field words is what the iterator is to yield.    *)
(***************************************************************************)
NewIterator(it) ==
  /\ client = "iterates"
  /\ pc = "idle"
  /\ ~iter[it].used
  /\ iter' = [iter EXCEPT ![it] =
       [version |-> version, stack |-> <<q0>>, words |-> Lang, used |-> TRUE]]
  /\ UNCHANGED <<persistVars, version, caches, client>>

(***************************************************************************)
(* DAWGIterator_next, one item of the stack: the children are pushed in    *)
(* the order of the edges, so that the one with the largest label ends on  *)
(* top.  There is one such sequence of labels.                             *)
(***************************************************************************)
FromLargest(labels) ==
  {s \in [1..Cardinality(labels) -> labels] :
     \A j, k \in 1..Cardinality(labels) : j < k => s[j] > s[k]}

Advance(it) ==
  /\ pc = "idle"
  /\ iter[it].used
  /\ iter[it].version = version
  /\ iter[it].stack # <<>> /\ Head(iter[it].stack) # NULL
  /\ \E order \in FromLargest(Labels(Head(iter[it].stack))) :
       iter' = [iter EXCEPT ![it].stack =
         [k \in 1..Len(order) |-> next[Head(@)][order[k]]] \o Tail(@)]
  /\ UNCHANGED <<persistVars, version, caches, client>>

(***************************************************************************)
(* The iterator raises an error or stops, or is dropped: DAWGIterator_del. *)
(***************************************************************************)
Drop(it) ==
  /\ pc = "idle"
  /\ iter[it].used
  /\ iter' = [iter EXCEPT ![it] = NoIterator]
  /\ UNCHANGED <<persistVars, version, caches, client>>

ClassNext ==
  \/ Method
  \/ Progress
  \/ GetStats
  \/ Bindump
  \/ Binload
  \/ Renumber
  \/ \E it \in Iterator : NewIterator(it) \/ Advance(it) \/ Drop(it)

ClassSpec == ClassInit /\ [][ClassNext]_classVars /\ WF_classVars(Progress)

-----------------------------------------------------------------------------

(***************************************************************************)
(* While the versions agree the statistics are those of the graph.         *)
(* DAWG_save allocates its buffer from them and asserts that it fills it.  *)
(***************************************************************************)
StatsExact ==
  pc = "idle" /\ stats_version = version =>
    /\ stats.nodes_count = Cardinality(live)
    /\ stats.edges_count =
         Cardinality({e \in live \X Letter : next[e[1]][e[2]] # NULL})
    /\ stats.words_count = Cardinality(Lang)

(***************************************************************************)
(* While the versions agree the number of every node is the number of      *)
(* words from it, which word2index and index2word count with.              *)
(***************************************************************************)
NumbersExact ==
  pc = "idle" /\ mph_version = version =>
    \A n \in live : number[n] = Cardinality(RightLanguage(n))

(***************************************************************************)
(* An iterator whose version is the object's may read its nodes: they are  *)
(* allocated, and the set it walks is the one it was made for ("version,   *)
(* used to invalidate iterator when DAWG has chanbed",                     *)
(* DAWGIterator_class.h).                                                  *)
(***************************************************************************)
IteratorValid ==
  \A it \in Iterator :
    pc = "idle" /\ iter[it].used /\ iter[it].version = version =>
      /\ \A k \in 1..Len(iter[it].stack) : iter[it].stack[k] \in live \cup {NULL}
      /\ iter[it].words = Lang
=============================================================================
