------------------------------ MODULE WordSet ------------------------------
(***************************************************************************)
(* What a DAWG object promises its clients, with no graph in it: a set of  *)
(* words that grows in lexicographic order, can be closed, and is erased   *)
(* by clear() (README.rst, "DAWG class"; DAWG_add_word, DAWG_close and     *)
(* DAWG_clear of dawg.c).  Module Dawg is shown to implement it.           *)
(***************************************************************************)
EXTENDS Words

CONSTANT Word       \* the words clients may add

VARIABLES words,    \* the set of words in the DAWG
          state,    \* "EMPTY", "ACTIVE" or "CLOSED" (DAWGState)
          last,     \* the previously added word, <<>> if none
          ret       \* what the last call returned

vars == <<words, state, last, ret>>

Init ==
  /\ words = {}
  /\ state = "EMPTY"
  /\ last = <<>>
  /\ ret = 0

(***************************************************************************)
(* A word is accepted when the set is not closed and the word is not less  *)
(* than the previous one; the result says whether the word is new.         *)
(***************************************************************************)
Add(w) ==
  /\ state # "CLOSED"
  /\ LessEq(last, w)
  /\ state' = "ACTIVE"
  /\ last' = w
  /\ words' = words \cup {w}
  /\ ret' = IF w \in words THEN 0 ELSE 1

RejectLess(w) ==
  /\ Less(w, last)
  /\ ret' = -2
  /\ UNCHANGED <<state, last, words>>

RejectFrozen ==
  /\ state = "CLOSED"
  /\ ret' = -3
  /\ UNCHANGED <<state, last, words>>

Close ==
  /\ state # "EMPTY"
  /\ state' = "CLOSED"
  /\ last' = <<>>
  /\ ret' = 1
  /\ UNCHANGED words

(***************************************************************************)
(* The exception: close() "don't allow to add any new words" (README.rst;  *)
(* the comment above DAWG_close_method says so as well), but a DAWG that   *)
(* has no word yet stays open.  See DawgClosing.                           *)
(***************************************************************************)
CloseNothing ==
  /\ state = "EMPTY"
  /\ ret' = 0
  /\ UNCHANGED <<state, last, words>>

Clear ==
  /\ state' = "EMPTY"
  /\ last' = <<>>
  /\ ret' = 0
  /\ words' = {}

Operate ==
  \/ \E w \in Word : Add(w) \/ RejectLess(w)
  \/ RejectFrozen
  \/ Close
  \/ CloseNothing

Next == Operate \/ Clear

Spec == Init /\ [][Next]_vars
=============================================================================
