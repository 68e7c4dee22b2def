------------------------------- MODULE KeySet ------------------------------
(***************************************************************************)
(* What the registry's hash table promises: a set of keys.  How keys hash  *)
(* and that the table grows is not seen, nor that a key whose contents     *)
(* change is taken out and put back: it never leaves the set.              *)
(***************************************************************************)
CONSTANT Key

VARIABLES keys,    \* the keys in the table
          usable   \* the table exists

Init == keys = {} /\ usable = TRUE

Add(k) == usable /\ k \notin keys /\ keys' = keys \cup {k} /\ UNCHANGED usable

Clear == keys' = {} /\ usable' = TRUE

Destroy == keys' = {} /\ usable' = FALSE

Next ==
  \/ \E k \in Key : Add(k)
  \/ Clear
  \/ Destroy

Spec == Init /\ [][Next]_<<keys, usable>>
=============================================================================
