----------------------------- MODULE Iterator ------------------------------
(***************************************************************************)
(* The iterators of a finished DAWG (DAWGIterator_class.c): one object and *)
(* the calls of its __next__, DAWGIterator_next, one action per item it    *)
(* takes from its stack.  The graph does not change meanwhile; DawgClass   *)
(* says when an iterator is refused.                                       *)
(***************************************************************************)
EXTENDS MinimalGraph, SequencesExt

CONSTANTS Universe,   \* the words sets are made of
          Pattern,    \* the patterns asked for
          Wildcard    \* the letters used as wildcard

Modes == {"MATCH_EXACT_LENGTH", "MATCH_AT_LEAST_PREFIX", "MATCH_AT_MOST_PREFIX"}

VARIABLES words,      \* the set, and the root
          pattern, wildcard, matchtype,   \* wildcard is {} when not used
          stack,      \* items [node, letter, depth], top first
          buffer,
          yielded,    \* the words returned so far
          stopped     \* __next__ raised StopIteration

vars == <<words, pattern, wildcard, matchtype, stack, buffer, yielded, stopped>>

-----------------------------------------------------------------------------

BufferIndices == 0..LongestWord(words)

(***************************************************************************)
(* find_all: without a wildcard it looks for a prefix, and another way of  *)
(* matching can only be given after a wildcard.  An empty set has no root, *)
(* here the node {}.                                                       *)
(***************************************************************************)
Init ==
  /\ words \in SUBSET Universe
  /\ pattern \in Pattern
  /\ \/ wildcard = {} /\ matchtype = "MATCH_AT_LEAST_PREFIX"
     \/ wildcard \in {{l} : l \in Wildcard} /\ matchtype \in Modes
  /\ stack = <<[node |-> words, letter |-> 0, depth |-> 0]>>
  /\ buffer = [k \in BufferIndices |-> 0]
  /\ yielded = <<>>
  /\ stopped = FALSE

Item == Head(stack)

TooDeep ==
  /\ matchtype # "MATCH_AT_LEAST_PREFIX"
  /\ Item.depth > Len(pattern)

(* Mutant of Output: the way of matching is not looked at. *)
OutputAnyMode == Item.depth >= Len(pattern) /\ Marker(Item.node)

Output ==
  /\ CASE matchtype = "MATCH_EXACT_LENGTH"    -> Item.depth = Len(pattern)
       [] matchtype = "MATCH_AT_MOST_PREFIX"  -> Item.depth <= Len(pattern)
       [] matchtype = "MATCH_AT_LEAST_PREFIX" -> Item.depth >= Len(pattern)
  /\ Marker(Item.node)

AnyLetter ==
  Item.depth >= Len(pattern) \/ pattern[Item.depth + 1] \in wildcard

(***************************************************************************)
(* The children that are pushed: all, or the one the pattern asks for.     *)
(***************************************************************************)
Followed ==
  IF AnyLetter THEN Labels(Item.node)
               ELSE Labels(Item.node) \cap {pattern[Item.depth + 1]}

Pushed ==
  LET letters == Reverse(EdgeOrder(Followed))
  IN  [k \in 1..Len(letters) |->
         [node |-> Child(Item.node, letters[k]), letter |-> letters[k],
          depth |-> Item.depth + 1]]

Rest == Tail(stack)

Buffered == [buffer EXCEPT ![Item.depth] = Item.letter]

Stop ==
  /\ ~stopped
  /\ stack = <<>> \/ (stack # <<>> /\ Item.node = {})
  /\ stopped' = TRUE
  /\ stack' = IF stack = <<>> THEN <<>> ELSE Rest
  /\ UNCHANGED <<words, pattern, wildcard, matchtype, buffer, yielded>>

Skip ==
  /\ stack # <<>> /\ Item.node # {}
  /\ TooDeep
  /\ stack' = Rest
  /\ UNCHANGED <<words, pattern, wildcard, matchtype, buffer, yielded, stopped>>

Visit ==
  /\ stack # <<>> /\ Item.node # {}
  /\ ~TooDeep
  /\ stack' = Pushed \o Rest
  /\ buffer' = Buffered
  /\ yielded' = IF Output
                  THEN Append(yielded, [k \in 1..Item.depth |-> Buffered[k]])
                  ELSE yielded
  /\ UNCHANGED <<words, pattern, wildcard, matchtype, stopped>>

(***************************************************************************)
(* After StopIteration a client may go on asking and is told so again.     *)
(***************************************************************************)
AskAgain ==
  /\ stopped
  /\ UNCHANGED vars

Next == Stop \/ Skip \/ Visit \/ AskAgain

Spec == Init /\ [][Next]_vars /\ WF_vars(Stop \/ Skip \/ Visit)

-----------------------------------------------------------------------------

(***************************************************************************)
(* No item is deeper than the buffer is long.                              *)
(***************************************************************************)
InBuffer == \A k \in 1..Len(stack) : stack[k].depth \in DOMAIN buffer

(***************************************************************************)
(* README.rst, "find_all": the words that agree with the pattern in every  *)
(* letter that is not a wildcard, and have the length asked for.           *)
(***************************************************************************)
Agrees(w) ==
  \A k \in 1..Len(w) : k <= Len(pattern) =>
    pattern[k] \in wildcard \/ pattern[k] = w[k]

Matching ==
  {w \in words : /\ Agrees(w)
                 /\ matchtype = "MATCH_EXACT_LENGTH" => Len(w) = Len(pattern)
                 /\ matchtype = "MATCH_AT_LEAST_PREFIX" => Len(w) >= Len(pattern)
                 /\ matchtype = "MATCH_AT_MOST_PREFIX" => Len(w) <= Len(pattern)}

(***************************************************************************)
(* An iterator that stops has returned every word that matches, each once, *)
(* although paths share nodes and the words are put together in one buffer.*)
(***************************************************************************)
YieldsMatching ==
  /\ ToSet(yielded) \subseteq Matching
  /\ \A j, k \in 1..Len(yielded) : yielded[j] = yielded[k] => j = k
  /\ stopped => ToSet(yielded) = Matching

(***************************************************************************)
(* An iterator that is asked again and again stops.                        *)
(***************************************************************************)
Stops == <>stopped
=============================================================================
