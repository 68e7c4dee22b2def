------------------------------ MODULE MCDawg -------------------------------
(***************************************************************************)
(* Values of the constants of Dawg for TLC.                                *)
(***************************************************************************)
EXTENDS Dawg

CONSTANTS MaxLength,   \* the longest word observed
          Nodes,       \* how many nodes malloc may hand out
          Buckets,     \* how many different hashes there are
          Added        \* index into WordChoices

WordsUpTo(length) == UNION {[1..k -> Letter] : k \in 0..length}

(***************************************************************************)
(* Words that share prefixes and suffixes in every way the algorithm tells *)
(* apart: nested prefixes, common suffixes under different prefixes, and   *)
(* nodes that are equivalent but for the marker.                           *)
(***************************************************************************)
WordChoices ==
  <<([1..3 -> Letter] \ {<<1, 2, 1>>, <<2, 1, 1>>}) \cup {<<>>, <<1, 2>>, <<2, 2>>},
    {<<1>>, <<1, 1>>, <<1, 2>>, <<2, 2>>},
    {<<1>>, <<2, 1>>},
    {<<1>>, <<2>>},
    {<<1, 1, 2>>, <<1, 2>>, <<2, 1, 2>>, <<2, 2>>},
    {<<1>>, <<1, 2>>, <<2>>, <<2, 2>>}>>

MCWord == WordChoices[Added]

MCUniverse == WordsUpTo(MaxLength)

MCNode == 1..Nodes

(***************************************************************************)
(* malloc hands out the lowest free address, so a freed node is reused by  *)
(* the next allocation.                                                    *)
(***************************************************************************)
MCFresh(S) == {n \in MCNode : n \notin S /\ \A m \in 1..(n - 1) : m \in S}

(***************************************************************************)
(* A hash with collisions that depends on the children, and in a node      *)
(* without any on the marker: nodes that differ only in it may collide.    *)
(***************************************************************************)
MCHash(b, f) ==
  LET sum[l \in 0..3] == IF l = 0 THEN 0
                         ELSE sum[l - 1] + (IF l \in Letter THEN l * f[l] ELSE 0)
  IN  (IF sum[3] = 0 /\ b THEN 1 ELSE sum[3]) % Buckets
=============================================================================
