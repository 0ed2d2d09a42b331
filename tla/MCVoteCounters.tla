--------------------------- MODULE MCVoteCounters ----------------------------
(***************************************************************************)
(* An instance of VoteCounters for TLC: two users of one poll, one young   *)
(* and one old, two options, three requests.                               *)
(***************************************************************************)
EXTENDS VoteCounters, TLC

CONSTANTS k1, k2, optA, optB, young, old

MCKeys == {k1, k2}
MCOptions == {optA, optB}
MCGroups == {young, old}
MCGroupOf == k1 :> young @@ k2 :> old

\* Requests are interchangeable, so are options, and so are the two users if
\* their groups are exchanged with them.
MCSymmetry ==
  Permutations(Requests) \cup Permutations(Options)
    \cup {k1 :> k2 @@ k2 :> k1 @@ young :> old @@ old :> young}
=============================================================================
