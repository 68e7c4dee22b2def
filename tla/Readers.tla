------------------------------ MODULE Readers ------------------------------
(***************************************************************************)
(* The clients of a finished DAWG: one that calls the methods of module    *)
(* Queries, dump (DAWG_class.c) among them, and one that takes the words   *)
(* of an iterator (module Iterator).  They read one graph and write        *)
(* nothing the other reads, so a behaviour has one of the two.             *)
(***************************************************************************)
EXTENDS Queries

CONSTANTS Pattern,    \* the patterns asked for
          Wildcard    \* the letters used as wildcard

ASSUME PatternAssumption == Pattern \subseteq Seq(Nat) /\ Wildcard \subseteq Nat

VARIABLES client,     \* "asks" or "iterates"
          pattern, wildcard, matchtype, stack, buffer, yielded, stopped

It == INSTANCE Iterator

iterator == <<pattern, wildcard, matchtype, stack, buffer, yielded, stopped>>

readers == <<vars, client, iterator>>

NoIterator ==
  /\ pattern = <<>> /\ wildcard = {} /\ matchtype = "MATCH_AT_LEAST_PREFIX"
  /\ stack = <<>> /\ buffer = <<>> /\ yielded = <<>> /\ stopped = FALSE

ReadersInit ==
  /\ Init
  /\ \/ client = "asks" /\ NoIterator
     \/ client = "iterates" /\ It!Init

-----------------------------------------------------------------------------

(***************************************************************************)
(* dump_aux, called for every node below the root: the node with its       *)
(* marker, and its edges.  The traversal has no marks and comes to a       *)
(* shared node more than once; the sets take its tuples once.              *)
(***************************************************************************)
DumpedNodes == {<<n, Marker(n)>> : n \in Below(words)}

(* Mutant of DumpedEdges: the traversal ends at the root. *)
RootEdges == {<<words, l, Child(words, l)>> : l \in Labels(words)}

DumpedEdges ==
  UNION {{<<n, l, Child(n, l)>> : l \in Labels(n)} : n \in Below(words)}

(***************************************************************************)
(* A DAWG with no root is not dumped: dump_aux would read its marker.      *)
(***************************************************************************)
AskDump ==
  /\ words # {}
  /\ Answer("dump", <<>>, [nodes |-> DumpedNodes, edges |-> DumpedEdges])

-----------------------------------------------------------------------------

Asks ==
  /\ client = "asks"
  /\ QueryNext \/ AskDump
  /\ UNCHANGED <<client, iterator>>

Iterates ==
  /\ client = "iterates"
  /\ It!Next
  /\ UNCHANGED <<vars, client>>

ReadersNext == Asks \/ Iterates

ReadersSpec ==
  /\ ReadersInit
  /\ [][ReadersNext]_readers
  /\ WF_readers(client = "asks" /\ Step /\ UNCHANGED <<client, iterator>>)
  /\ WF_readers(Iterates /\ ~stopped)

-----------------------------------------------------------------------------

(***************************************************************************)
(* exists, longest_prefix, match and words answer about the same set       *)
(* (README.rst, "exists"; unittests.py, test_match, test_longest_prefix).  *)
(***************************************************************************)
AnswersExact == ExistsExact /\ PrefixExact /\ WordsInOrder

(***************************************************************************)
(* dump's two sets are the automaton, as dump2dot.py draws it: from the    *)
(* one node without an edge into it the marked nodes are reached by the    *)
(* words of the set and by no others.                                      *)
(***************************************************************************)
DumpedRoots(d) ==
  {n \in {t[1] : t \in d.nodes} : \A e \in d.edges : e[3] # n}

DumpedTarget(d, w) ==
  LET after[k \in 0..Len(w)] ==
        IF k = 0 THEN DumpedRoots(d)
                 ELSE {e[3] : e \in {f \in d.edges : f[1] \in after[k - 1] /\ f[2] = w[k]}}
  IN  after[Len(w)]

DumpIsAutomaton ==
  answer.call = "dump" =>
    /\ Cardinality(DumpedRoots(answer.value)) = 1
    /\ \A w \in Asked :
         w \in words <=>
           \E n \in DumpedTarget(answer.value, w) : <<n, TRUE>> \in answer.value.nodes

(***************************************************************************)
(* The words of the iterator are those that match, each once, and no item  *)
(* of its stack writes behind its buffer (see module Iterator).            *)
(***************************************************************************)
YieldsMatching == client = "iterates" => It!InBuffer /\ It!YieldsMatching

(***************************************************************************)
(* Every call returns, and an iterator that is asked again and again stops.*)
(***************************************************************************)
ReadersReturn == CallsReturn /\ (client = "iterates" ~> stopped)
=============================================================================
