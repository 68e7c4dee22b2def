-------------------------------- MODULE Mph --------------------------------
(***************************************************************************)
(* Minimal perfect hashing (dawg_mph.c): DAWG_mph_word2index and           *)
(* DAWG_mph_index2word, one action per iteration of their outer loops, on  *)
(* a finished DAWG whose nodes are numbered.                               *)
(***************************************************************************)
EXTENDS MinimalGraph

CONSTANTS Universe,    \* the words sets are made of, and asked for
          EmptyWord    \* numbers are asked for of a set with the empty word

ASSUME UniverseAssumption == Universe \subseteq Seq(Nat) /\ IsFiniteSet(Universe)

ASSUME EmptyWordAssumption == EmptyWord \in BOOLEAN

VARIABLES words,          \* the set, and the root
          number,         \* DAWGNode.number
          pc,             \* the call under way, or "idle"
          word, i,        \* locals of word2index
          node, index,    \* state and index, or state and count
          out,            \* the word index2word builds
          answer          \* the last call and what it returned

vars == <<words, number, pc, word, i, node, index, out, answer>>

DAWG_NOT_EXISTS == 0

-----------------------------------------------------------------------------

(***************************************************************************)
(* DAWG_mph_numerate_nodes: the marker plus the numbers of the children.   *)
(***************************************************************************)
Numbers(root) ==
  LET count[m \in Below(root)] ==
        (IF Marker(m) THEN 1 ELSE 0)
          + SumFunction([l \in Labels(m) |-> count[Child(m, l)]])
  IN  count

(***************************************************************************)
(* The numbers of the children of n with labels L, added up.               *)
(***************************************************************************)
SumOf(n, L) == SumFunction([l \in L |-> number[Child(n, l)]])

(* Mutant of LabelsBelow: the label itself is counted too. *)
LabelsUpTo(n, c) == {l \in Labels(n) : l <= c}

LabelsBelow(n, c) == {l \in Labels(n) : l < c}

-----------------------------------------------------------------------------

NoAnswer == [call |-> "none"]

MayNumber == <<>> \in words => EmptyWord

Init ==
  /\ words \in SUBSET Universe
  /\ number = Numbers(words)
  /\ pc = "idle"
  /\ word = <<>> /\ i = 0 /\ node = {} /\ index = 0 /\ out = <<>>
  /\ answer = NoAnswer

Return(a) ==
  /\ answer' = a
  /\ pc' = "idle"
  /\ word' = <<>> /\ i' = 0 /\ node' = {} /\ index' = 0 /\ out' = <<>>
  /\ UNCHANGED <<words, number>>

(***************************************************************************)
(* word2index.  Of a DAWG with no root only other words than the empty one *)
(* are asked: the code reads the marker of the root at the end.            *)
(***************************************************************************)
Word2Index(w) ==
  /\ pc = "idle" /\ MayNumber
  /\ words = {} => w # <<>>
  /\ pc' = "word2index"
  /\ word' = w /\ i' = 0 /\ node' = words /\ index' = 0
  /\ answer' = NoAnswer
  /\ UNCHANGED <<words, number, out>>

Index(value) == [call |-> "word2index", word |-> word, index |-> value]

NextLetter ==
  /\ pc = "word2index"
  /\ i < Len(word)
  /\ LET c == word[i + 1]
         child == Child(node, c)
     IN  \/ /\ child = {}
            /\ Return(Index(DAWG_NOT_EXISTS))
         \/ /\ child # {}
            /\ index' = index + SumOf(node, LabelsBelow(node, c))
                              + (IF Marker(child) THEN 1 ELSE 0)
            /\ node' = child
            /\ i' = i + 1
            /\ UNCHANGED <<words, number, pc, word, out, answer>>

EndOfWord ==
  /\ pc = "word2index"
  /\ i = Len(word)
  /\ Return(Index(IF Marker(node) THEN index ELSE DAWG_NOT_EXISTS))

-----------------------------------------------------------------------------

Outcome(asked, found) == [call |-> "index2word", index |-> asked, found |-> found]

(***************************************************************************)
(* index2word: nothing out of range; index keeps the count of words still  *)
(* to skip, i the index asked for.                                         *)
(***************************************************************************)
OutOfRange(k) ==
  /\ pc = "idle"
  /\ k < 1 \/ k > Cardinality(words)
  /\ Return(Outcome(k, {}))

Index2Word(k) ==
  /\ pc = "idle" /\ MayNumber
  /\ k >= 1 /\ k <= Cardinality(words)
  /\ pc' = "index2word"
  /\ i' = k /\ node' = words /\ index' = k /\ out' = <<>>
  /\ answer' = NoAnswer
  /\ UNCHANGED <<words, number, word>>

(* Mutants: a child with exactly the words left to skip is skipped as well, *)
(* the marker on the way is not counted.                                    *)
EnoughMore(n, count) ==
  {l \in Labels(n) : SumOf(n, LabelsBelow(n, l)) + number[Child(n, l)] > count}
NothingCounted(child) == 0

(***************************************************************************)
(* The children the inner loop may stop at: with the words of the children *)
(* before it, it has enough words.  The loop stops at the first.           *)
(***************************************************************************)
Enough(n, count) ==
  {l \in Labels(n) : SumOf(n, LabelsBelow(n, l)) + number[Child(n, l)] >= count}

Counted(child) == IF Marker(child) THEN 1 ELSE 0

(***************************************************************************)
(* One iteration of the outer loop, and its condition.                     *)
(***************************************************************************)
Descend ==
  /\ pc = "index2word"
  /\ \/ /\ Enough(node, index) # {}
        /\ LET l == Min(Enough(node, index))
           IN  /\ out' = Append(out, l)
               /\ node' = Child(node, l)
               /\ index' = index - SumOf(node, LabelsBelow(node, l))
                                 - Counted(Child(node, l))
     \/ /\ Enough(node, index) = {}
        /\ index' = index - SumOf(node, Labels(node))
        /\ UNCHANGED <<node, out>>
  /\ pc' = IF index' > 0 THEN "index2word" ELSE "found"
  /\ UNCHANGED <<words, number, word, i, answer>>

Found ==
  /\ pc = "found"
  /\ Return(Outcome(i, {out}))

Step == NextLetter \/ EndOfWord \/ Descend \/ Found

Next ==
  \/ \E w \in Universe \cup {<<>>} : Word2Index(w)
  \/ \E k \in 0..(Cardinality(words) + 1) : OutOfRange(k) \/ Index2Word(k)
  \/ Step

Spec == Init /\ [][Next]_vars /\ WF_vars(Step)

-----------------------------------------------------------------------------

Rank(w) == Cardinality({v \in words : LessEq(v, w)})

(***************************************************************************)
(* word2index gives a word its rank in the lexicographic order, and says   *)
(* DAWG_NOT_EXISTS of any other ("Returns index of word, or None if word   *)
(* is not present in a DAWG", README.rst).                                 *)
(***************************************************************************)
IndexIsRank ==
  answer.call = "word2index" =>
    answer.index = IF answer.word \in words THEN Rank(answer.word) ELSE DAWG_NOT_EXISTS

(***************************************************************************)
(* index2word is its inverse on the range, and finds nothing outside.      *)
(***************************************************************************)
WordHasIndex ==
  answer.call = "index2word" =>
    answer.found = {w \in words : Rank(w) = answer.index}

(***************************************************************************)
(* Both functions return.                                                  *)
(***************************************************************************)
CallsReturn == pc # "idle" ~> pc = "idle"
=============================================================================
