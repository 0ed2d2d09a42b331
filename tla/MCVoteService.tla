--------------------------- MODULE MCVoteService ----------------------------
(***************************************************************************)
(* Instances of VoteService for TLC: one user, a single choice poll and a  *)
(* multiple choice poll with two options each.                             *)
(***************************************************************************)
EXTENDS VoteService

CONSTANTS single, multi, optA, optB

MCPolls == {single, multi}
MCOptions == {optA, optB}
MCOptionsOf == [p \in Polls |-> {optA, optB}]
MCSingleChoice == {single} \cap Polls

=============================================================================
