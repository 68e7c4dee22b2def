---------------------------- MODULE DawgClosing ----------------------------
(***************************************************************************)
(* The construction of Dawg for a client that remembers whether it has     *)
(* called close() since the last clear().  The method returns nothing      *)
(* (dawgmeth_close of DAWG_class.c), so the call is all such a client      *)
(* knows.                                                                  *)
(***************************************************************************)
EXTENDS Dawg

VARIABLE closed   \* close() was called, and no clear() since

closingVars == <<vars, closed>>

ClosingInit == Init /\ closed = FALSE

CallClose == CloseNothing \/ EndClose

CallOther ==
  \/ \E w \in Word : AddWord(w) \/ RejectLess(w) \/ RejectFrozen(w)
  \/ Close
  \/ SkipPrefix \/ EndOfPrefix
  \/ Replace \/ Register \/ Minimized
  \/ AddSuffix \/ EndAdd

ClosingNext ==
  \/ CallClose /\ closed' = TRUE
  \/ CallOther /\ UNCHANGED closed
  \/ Clear /\ closed' = FALSE

(***************************************************************************)
(* A call that was started runs on.                                        *)
(***************************************************************************)
ClosingSpec ==
  ClosingInit /\ [][ClosingNext]_closingVars
              /\ WF_closingVars(pc # "idle" /\ ClosingNext)

-----------------------------------------------------------------------------

(***************************************************************************)
(* "Don't allow to add any new words ... Can be reverted only by clear()"  *)
(* (README.rst, close; the doc string of dawgmeth_close): between a        *)
(* close() and the next clear() the set of words stays as it is.           *)
(***************************************************************************)
FrozenByClose == [][closed /\ closed' => Lang' = Lang]_closingVars
=============================================================================
