------------------------------- MODULE PyDawg -------------------------------
(***************************************************************************)
(* The second implementation, in Python (pydawg.py), one action per method *)
(* call.  It keeps no counts and no hashes of nodes: the register is a set *)
(* of objects, what is no longer referred to is collected as garbage, and  *)
(* word numbers are kept in the nodes until a word is added.               *)
(***************************************************************************)
EXTENDS Automaton, FiniteSets, FiniteSetsExt, Functions

CONSTANTS Word,          \* the words clients add and ask for
          Universe,      \* the words whose membership is observed
          Node,          \* the objects there may be
          q0,            \* DAWG.q0, made by __init__
          Objects(_, _)  \* Objects(m, used): where m new objects may be put

ASSUME WordAssumption == Word \subseteq Universe /\ Universe \subseteq Seq(Letter)

(***************************************************************************)
(* What is observed contains the suffixes of the words.                    *)
(***************************************************************************)
ASSUME SuffixAssumption ==
  \A w \in Word : \A k \in 0..Len(w) : SubSeq(w, k + 1, Len(w)) \in Universe

ASSUME NodeAssumption == IsFiniteSet(Node) /\ q0 \in Node /\ NULL \notin Node

(***************************************************************************)
(* New objects are put where no object is, each at a place of its own.     *)
(***************************************************************************)
ASSUME ObjectsAssumption ==
  \A w \in Word, used \in SUBSET Node : \A m \in 0..Len(w) :
    \A new \in Objects(m, used) :
      /\ new \in [1..m -> Node \ used]
      /\ \A j, k \in 1..m : j # k => new[j] # new[k]

VARIABLES children, final, number,   \* the attributes of the nodes
          register,
          wp,                        \* the previous word
          numbers_valid,
          frozen,                    \* freeze was called
          added,                     \* the words that were added
          answer                     \* what the last call returned

graph == <<children, final, register>>
vars == <<graph, number, wp, numbers_valid, frozen, added, answer>>

None == -1
NoAnswer == [call |-> "none"]

Init ==
  /\ children = [n \in Node |-> NoEdges]
  /\ final = [n \in Node |-> FALSE]
  /\ number = [n \in Node |-> None]
  /\ register = {}
  /\ wp = <<>>
  /\ numbers_valid = FALSE
  /\ frozen = FALSE
  /\ added = {}
  /\ answer = NoAnswer

-----------------------------------------------------------------------------

(***************************************************************************)
(* The objects that can be got at from the objects S over edges of g.      *)
(***************************************************************************)
Behind(g, S) ==
  LET after[k \in 0..Cardinality(Node)] ==
        IF k = 0 THEN S
        ELSE LET B == after[k - 1]
             IN  B \cup ({g[n][l] : n \in B, l \in Letter} \ {NULL})
  IN  after[Cardinality(Node)]

Used == Behind(children, {q0} \cup register)

(***************************************************************************)
(* The new state of the graph, without the objects nothing refers to.      *)
(***************************************************************************)
Becomes(g, f, reg) ==
  LET before == Used
      used == Behind(g, {q0} \cup reg)
  IN  /\ children' = [n \in Node |-> IF n \in used THEN g[n] ELSE NoEdges]
      /\ final' = [n \in Node |-> f[n] /\ n \in used]
      /\ register' = reg
      /\ number' = [n \in Node |-> IF n \in before \cap used THEN number[n] ELSE None]

(* Mutant of Equivalence: the number of edges and the labels are enough. *)
SameLabels(g, p, q) ==
  final[p] = final[q] /\ \A l \in Letter : g[p][l] = NULL <=> g[q][l] = NULL

(***************************************************************************)
(* equivalence(p, q): the same flag, labels and, by identity, children.    *)
(***************************************************************************)
Equivalence(g, p, q) == final[p] = final[q] /\ g[p] = g[q]

(* Mutant of Registered: the register is left as it is. *)
NotRegistered(m, state) == m.register

Registered(m, state) == m.register \cup {state}

(***************************************************************************)
(* One item of the stack: the child is replaced by an equivalent node of   *)
(* the register, or put into it.                                           *)
(***************************************************************************)
Replaced(m, parent, letter, state) ==
  LET found == {r \in m.register : Equivalence(m.children, state, r)}
  IN  IF found # {}
        THEN [m EXCEPT !.children[parent][letter] = CHOOSE r \in found : TRUE]
        ELSE [m EXCEPT !.register = Registered(m, state)]

(***************************************************************************)
(* _replace_or_register(state, suffix): the children and the register      *)
(* after k items of the stack are worked off, those of the last letters    *)
(* first, and after all are.                                               *)
(***************************************************************************)
WorkedOff(state, suffix) ==
  LET path == Run(children, state, suffix)
      after[k \in 0..Len(suffix)] ==
        IF k = 0 THEN [children |-> children, register |-> register]
        ELSE LET j == Len(suffix) - k
             IN  Replaced(after[k - 1], path[j], suffix[j + 1], path[j + 1])
  IN  after

ReplaceOrRegister(state, suffix) == WorkedOff(state, suffix)[Len(suffix)]

(***************************************************************************)
(* The length of the prefix of w that exists.                              *)
(***************************************************************************)
Existing(w) == Max({k \in 0..Len(w) : Run(children, q0, w)[k] # NULL})

(***************************************************************************)
(* The children with those that the letters of w behind the i-th lead to.  *)
(***************************************************************************)
WithSuffix(g, path, w, i) ==
  LET with[k \in i..Len(w)] ==
        IF k = i THEN g ELSE [with[k - 1] EXCEPT ![path[k - 1]][w[k]] = path[k]]
  IN  with[Len(w)]

(***************************************************************************)
(* add_word_unchecked.  Clients vouch for the order, and the README does   *)
(* not let them add to a closed DAWG; this code would not refuse.          *)
(***************************************************************************)
AddWordUnchecked(w) ==
  /\ LessEq(wp, w) /\ ~frozen
  /\ LET i == Existing(w)
         s == Run(children, q0, w)[i]
         m == ReplaceOrRegister(s, SubSeq(wp, i + 1, Len(wp)))
     IN  \E new \in Objects(Len(w) - i, Used) :
           LET path == [k \in i..Len(w) |-> IF k = i THEN s ELSE new[k - i]]
           IN  Becomes(WithSuffix(m.children, path, w, i),
                       [final EXCEPT ![path[Len(w)]] = TRUE], m.register)
  /\ wp' = w
  /\ numbers_valid' = FALSE
  /\ added' = added \cup {w}
  /\ answer' = NoAnswer
  /\ UNCHANGED frozen

(***************************************************************************)
(* add_word asserts the order first, strictly: a word that was just added  *)
(* is refused as well.                                                     *)
(***************************************************************************)
AddWord(w) == Less(wp, w) /\ AddWordUnchecked(w)

RejectWord(w) ==
  /\ ~Less(wp, w)
  /\ answer' = [call |-> "add_word", raised |-> "AssertionError"]
  /\ UNCHANGED <<graph, number, wp, numbers_valid, frozen, added>>

Freeze ==
  /\ LET m == ReplaceOrRegister(q0, wp)
     IN  Becomes(m.children, final, m.register)
  /\ numbers_valid' = FALSE
  /\ frozen' = TRUE
  /\ answer' = NoAnswer
  /\ UNCHANGED <<wp, added>>

-----------------------------------------------------------------------------

Edges(n) == {l \in Letter : children[n][l] # NULL}

Bit(b) == IF b THEN 1 ELSE 0

(* Mutant of Cleared: the numbers are not forgotten first. *)
NotCleared == number

(***************************************************************************)
(* _num_nodes, when the numbers are not valid: clear_aux forgets all, and  *)
(* num_aux counts the words from each node that has no number.             *)
(***************************************************************************)
Cleared ==
  LET reached == Behind(children, {q0})
  IN  [n \in Node |-> IF n \in reached THEN None ELSE number[n]]

Count(num) ==
  LET count[n \in Behind(children, {q0})] ==
        IF num[n] # None THEN num[n]
        ELSE Bit(final[n]) + SumFunction([l \in Edges(n) |-> count[children[n][l]]])
  IN  count

Counted(num) ==
  LET count == Count(num)
  IN  [n \in Node |-> IF n \in DOMAIN count THEN count[n] ELSE num[n]]

Numbers == IF numbers_valid THEN number ELSE Counted(Cleared)

Sum(num, n, L) == SumFunction([l \in L |-> num[children[n][l]]])

(***************************************************************************)
(* word2index: the words before each letter of w, and the flags passed.    *)
(***************************************************************************)
IndexOf(num, w) ==
  LET path == Run(children, q0, w)
      index[k \in 0..Len(w)] ==
        IF k = 0 THEN 0
        ELSE index[k - 1] + Bit(final[path[k]])
               + Sum(num, path[k - 1], {l \in Edges(path[k - 1]) : l < w[k]})
  IN  IF path[Len(w)] = NULL THEN None ELSE index[Len(w)]

Enough(num, n, count) ==
  {l \in Edges(n) : Sum(num, n, {m \in Edges(n) : m <= l}) >= count}

(***************************************************************************)
(* index2word: one iteration of its loop, and the loop.                    *)
(***************************************************************************)
Descended(num, m) ==
  IF Enough(num, m.state, m.count) = {}
    THEN [m EXCEPT !.count = @ - Sum(num, m.state, Edges(m.state))]
    ELSE LET c == Min(Enough(num, m.state, m.count))
             tmp == children[m.state][c]
         IN  [state |-> tmp, word |-> Append(m.word, c),
              count |-> m.count - Sum(num, m.state, {l \in Edges(m.state) : l < c})
                                - Bit(final[tmp])]

WordOf(num, index) ==
  LET after[k \in 0..Cardinality(Node)] ==
        IF k = 0 THEN [state |-> q0, word |-> <<>>, count |-> index]
        ELSE LET m == after[k - 1]
             IN  IF m.count <= 0 THEN m ELSE Descended(num, m)
  IN  after[Cardinality(Node)].word

Answer(a) ==
  /\ answer' = a
  /\ number' = Numbers /\ numbers_valid' = TRUE
  /\ UNCHANGED <<graph, wp, frozen, added>>

(***************************************************************************)
(* Numbers are asked for of sets without the empty word, as in module Mph, *)
(* and of indices in the range, which the code does not check.             *)
(***************************************************************************)
Word2Index(w) ==
  /\ <<>> \notin added
  /\ Answer([call |-> "word2index", word |-> w, index |-> IndexOf(Numbers, w)])

Index2Word(index) ==
  /\ <<>> \notin added
  /\ Answer([call |-> "index2word", index |-> index, word |-> WordOf(Numbers, index)])

Next ==
  \/ \E w \in Word : \/ AddWord(w) \/ AddWordUnchecked(w) \/ RejectWord(w)
                     \/ Word2Index(w)
  \/ Freeze
  \/ \E index \in 1..Cardinality(added) : Index2Word(index)

Spec == Init /\ [][Next]_vars

-----------------------------------------------------------------------------

(***************************************************************************)
(* The words read from the graph, which words() and the iteration list,    *)
(* are those that were added, although nodes are merged and numbers are    *)
(* kept meanwhile; and every path leads to one of them.                    *)
(***************************************************************************)
RightLanguage(n) == {w \in Universe : Accepts(children, final, n, w)}

HoldsAdded ==
  /\ RightLanguage(q0) = added
  /\ \A n \in Used \ {q0} : RightLanguage(n) # {}

(***************************************************************************)
(* After freeze no two nodes accept the same words; before, none that are  *)
(* in the register do (pydawg.py, "constraints make this much simpler").   *)
(***************************************************************************)
MinimalWhenFrozen ==
  LET merged == IF frozen THEN Behind(children, {q0}) ELSE register
      accepted == [n \in merged |-> RightLanguage(n)]
  IN  \A p, q \in merged : p # q => accepted[p] # accepted[q]

(***************************************************************************)
(* word2index gives each word its rank, index2word is its inverse, with    *)
(* whatever was added, merged and numbered before.                         *)
(***************************************************************************)
Rank(w) == Cardinality({v \in added : LessEq(v, w)})

IndicesExact ==
  /\ answer.call = "word2index" /\ answer.word \in added
       => answer.index = Rank(answer.word)
  /\ answer.call = "index2word"
       => answer.word \in added /\ Rank(answer.word) = answer.index
=============================================================================
