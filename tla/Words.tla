------------------------------- MODULE Words -------------------------------
(***************************************************************************)
(* Words are sequences of letters and letters are unsigned integers        *)
(* (DAWG_LETTER_TYPE in common.h).  The module translates string_cmp of    *)
(* dawg.c, the comparison DAWG_add_word checks the input order with, and   *)
(* states the lexicographic order it is meant to compute.                  *)
(***************************************************************************)
EXTENDS Integers, Sequences

(***************************************************************************)
(* The lexicographic order on words, the reference for StringCmp: s is     *)
(* less than t when it is smaller at the first difference, or is a proper  *)
(* prefix of t.                                                            *)
(***************************************************************************)
AgreeBelow(s, t, k) == \A j \in 1..(k - 1) : s[j] = t[j]

Less(s, t) ==
  \/ \E k \in 1..Len(s) : k <= Len(t) /\ s[k] < t[k] /\ AgreeBelow(s, t, k)
  \/ Len(s) < Len(t) /\ AgreeBelow(s, t, Len(s) + 1)

LessEq(s, t) == s = t \/ Less(s, t)

(***************************************************************************)
(* p is a prefix of s.                                                     *)
(***************************************************************************)
PrefixOf(p, s) == Len(p) <= Len(s) /\ AgreeBelow(p, s, Len(p) + 1)

-----------------------------------------------------------------------------

(***************************************************************************)
(* string_cmp: the first index where the two arrays differ decides; when   *)
(* one is a prefix of the other their lengths do.                          *)
(***************************************************************************)
ShorterLen(s1, s2) == IF Len(s1) < Len(s2) THEN Len(s1) ELSE Len(s2)

Mismatches(s1, s2) == {k \in 1..ShorterLen(s1, s2) : s1[k] # s2[k]}

StringCmp(s1, s2) ==
  IF Mismatches(s1, s2) # {}
    THEN LET k == CHOOSE k \in Mismatches(s1, s2) :
                    \A m \in Mismatches(s1, s2) : k <= m
         IN  IF s1[k] < s2[k] THEN -1 ELSE 1
    ELSE IF Len(s2) < Len(s1) THEN 1
    ELSE IF Len(s1) < Len(s2) THEN -1
    ELSE 0
=============================================================================
