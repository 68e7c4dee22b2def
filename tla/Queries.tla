------------------------------ MODULE Queries ------------------------------
(***************************************************************************)
(* The methods that only read a finished DAWG: exists, longest_prefix,     *)
(* match (dawg.c) and words (DAWG_class.c), one action per call, next to   *)
(* the numbers of module Mph.                                              *)
(***************************************************************************)
EXTENDS Mph, SequencesExt

CONSTANT Asked   \* the words asked for

ASSUME AskedAssumption == Asked \subseteq Seq(Nat)

-----------------------------------------------------------------------------

(***************************************************************************)
(* The node behind k letters of w; {} where the path has ended.            *)
(***************************************************************************)
Walk(w) ==
  LET after[k \in 0..Len(w)] ==
        IF k = 0 THEN words ELSE Child(after[k - 1], w[k])
  IN  after

(* Mutant of Exists: every path counts. *)
ExistsPath(w) == Walk(w)[Len(w)] # {}

Exists(w) == Marker(Walk(w)[Len(w)])

LongestPrefix(w) == Max({0} \cup {k \in 1..Len(w) : Walk(w)[k] # {}})

Match(w) == LongestPrefix(w) > 0

(***************************************************************************)
(* words_aux, from the node behind the letters p in the buffer: the word   *)
(* read so far if it is marked, then what is below each edge, in order.    *)
(***************************************************************************)
WordsOf(root) ==
  LET list[p \in UNION {{SubSeq(w, 1, k) : k \in 0..Len(w)} : w \in root}] ==
        (IF Marker(Behind(root, p)) THEN <<p>> ELSE <<>>)
          \o FlattenSeq([k \in 1..Cardinality(Labels(Behind(root, p))) |->
               list[Append(p, EdgeOrder(Labels(Behind(root, p)))[k])]])
  IN  list[<<>>]

-----------------------------------------------------------------------------

Answer(name, w, v) ==
  /\ pc = "idle"
  /\ Return([call |-> name, word |-> w, value |-> v])

(***************************************************************************)
(* A DAWG without a root is not asked for the empty word: DAWG_exists      *)
(* would read its marker.                                                  *)
(***************************************************************************)
AskExists(w) == (words # {} \/ w # <<>>) /\ Answer("exists", w, Exists(w))
AskLongestPrefix(w) == Answer("longest_prefix", w, LongestPrefix(w))
AskMatch(w) == Answer("match", w, Match(w))
AskWords ==
  Answer("words", <<>>, IF words = {} THEN <<>> ELSE WordsOf(words))

QueryNext ==
  \/ Next
  \/ \E w \in Asked : AskExists(w) \/ AskLongestPrefix(w) \/ AskMatch(w)
  \/ AskWords

QuerySpec == Init /\ [][QueryNext]_vars /\ WF_vars(Step)

-----------------------------------------------------------------------------

(***************************************************************************)
(* exists says whether the word is in the set (README.rst, "exists").      *)
(***************************************************************************)
ExistsExact == answer.call = "exists" => answer.value = (answer.word \in words)

(***************************************************************************)
(* README.rst means by the longest prefix "that exists in a set" one that  *)
(* is a word of it, and so does match; unittests.py (test_longest_prefix,  *)
(* "attri") and the code count the letters up to where the last word of    *)
(* the set leaves the path.  Claimed is what both allow: no prefix in the  *)
(* set is missed, and no letter is counted that no word goes on with.      *)
(***************************************************************************)
InSet(w) == {k \in 0..Len(w) : SubSeq(w, 1, k) \in words}
Common(w) == {k \in 0..Len(w) : \E v \in words : PrefixOf(SubSeq(w, 1, k), v)}

IsPrefixLength(w, k) ==
  /\ \A j \in InSet(w) : j <= k
  /\ k \in Common(w) \cup {0}

IsMatch(w, found) ==
  /\ (\E k \in InSet(w) : k > 0) => found
  /\ found => <<>> \in words \/ \E k \in Common(w) : k > 0

PrefixExact ==
  /\ answer.call = "longest_prefix" => IsPrefixLength(answer.word, answer.value)
  /\ answer.call = "match" => IsMatch(answer.word, answer.value)

(***************************************************************************)
(* words lists the set in lexicographic order ("Returns list of all        *)
(* words", README.rst; dump and load are tested by comparing such lists).  *)
(***************************************************************************)
WordsInOrder ==
  answer.call = "words" =>
    /\ ToSet(answer.value) = words
    /\ \A j, k \in 1..Len(answer.value) : j < k => Less(answer.value[j], answer.value[k])
=============================================================================
