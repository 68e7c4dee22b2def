---------------------------- MODULE FallibleSet ----------------------------
(***************************************************************************)
(* What a DAWG promises its clients when memory may run out (DAWG_NO_MEM,  *)
(* MemoryError in Python): a call that fails leaves the set as it was, but *)
(* for two cases in which the code does something else.                    *)
(***************************************************************************)
EXTENDS WordSet

VARIABLE lost   \* memory was short in a way nobody is told of

fallibleVars == <<vars, lost>>

(***************************************************************************)
(* The rule: the caller is told, and nothing has changed.                  *)
(***************************************************************************)
Fail ==
  /\ ret' = -1
  /\ UNCHANGED <<words, state, last, lost>>

(***************************************************************************)
(* The word is in, although the call says that it failed.                  *)
(***************************************************************************)
FailButAdd(w) ==
  /\ state # "CLOSED"
  /\ LessEq(last, w)
  /\ words' = words \cup {w}
  /\ ret' = -1
  /\ state' = "ACTIVE"
  /\ last' = <<>>
  /\ UNCHANGED lost

(***************************************************************************)
(* Memory runs short unnoticed: the word of the call under way will not be *)
(* in, although the call goes on as if it were.  Clearing ends it.         *)
(***************************************************************************)
Lose ==
  /\ lost' = TRUE
  /\ UNCHANGED vars

AddNothing(w) ==
  /\ lost
  /\ state # "CLOSED"
  /\ LessEq(last, w)
  /\ w \notin words
  /\ \/ ret' = 1 /\ last' = w
     \/ ret' = -1 /\ last' = <<>>
  /\ state' = "ACTIVE"
  /\ UNCHANGED <<words, lost>>

FallibleNext ==
  \/ Operate /\ UNCHANGED lost
  \/ Clear /\ lost' = FALSE
  \/ Fail
  \/ Lose
  \/ \E w \in Word : FailButAdd(w) \/ AddNothing(w)

FallibleSpec == Init /\ lost = FALSE /\ [][FallibleNext]_fallibleVars
=============================================================================
