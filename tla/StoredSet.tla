----------------------------- MODULE StoredSet -----------------------------
(***************************************************************************)
(* A set of words that can be written out and read back (README.rst,       *)
(* "bindump", "binload" and the pickle protocol).  Reading replaces the    *)
(* whole set, and a set that was ACTIVE when it was written accepts words  *)
(* again.  Module DawgPersist is shown to implement it.                    *)
(***************************************************************************)
EXTENDS WordSet

VARIABLES storedWords, storedState   \* what was written out last

stored == <<storedWords, storedState>>

StoredInit ==
  /\ Init
  /\ storedWords = {}
  /\ storedState = "EMPTY"

Save ==
  /\ storedState' = state
  /\ storedWords' = words
  /\ UNCHANGED vars

(***************************************************************************)
(* The previous word is not written: after a load any word may come first. *)
(***************************************************************************)
Load ==
  /\ state' = storedState
  /\ last' = <<>>
  /\ ret' = 0
  /\ words' = storedWords
  /\ UNCHANGED stored

StoredNext ==
  \/ Next /\ UNCHANGED stored
  \/ Save
  \/ Load

StoredSpec == StoredInit /\ [][StoredNext]_<<vars, stored>>
=============================================================================
