----------------------------- MODULE VoteLedger -----------------------------
(***************************************************************************)
(* What the vote service promises the rest of the platform: one atomic     *)
(* change of a user's selection per request, and events that report the    *)
(* change.  A key is a <<user, poll>> pair; `selection' is what the votes  *)
(* table says and `events' is what every other service will ever learn.    *)
(*                                                                         *)
(* The promise has one hole, which the code leaves open: a removal that    *)
(* overlaps a vote of the same user may delete the selection and report    *)
(* nothing (LoseRemoval).  RemovalsMayBeLost says whether the behaviours   *)
(* under consideration contain RemoveVote requests at all.                 *)
(***************************************************************************)
EXTENDS Integers, FiniteSets

CONSTANTS
  Keys,               \* the <<user, poll>> pairs
  Options,            \* the option ids
  Requests,           \* the requests: each changes a selection at most once
  RemovalsMayBeLost   \* whether LoseRemoval can happen

VARIABLES
  selection,          \* [Keys -> SUBSET Options]
  events              \* the events reported, as the outbox holds them

ledgerVars == <<selection, events>>

TopicVoteCast == "vote.cast"
TopicVoteRemoved == "vote.removed"

Event == [by : Requests, topic : {TopicVoteCast, TopicVoteRemoved},
          key : Keys, opts : SUBSET Options]

\* The vote.removed event of request r, if it removes anything.
Removed(r, k, S) ==
  IF S = {} THEN {}
  ELSE {[by |-> r, topic |-> TopicVoteRemoved, key |-> k, opts |-> S]}

\* The vote.cast event of request r, if it adds anything.
Cast(r, k, S) ==
  IF S = {} THEN {}
  ELSE {[by |-> r, topic |-> TopicVoteCast, key |-> k, opts |-> S]}

-----------------------------------------------------------------------------
Init ==
  /\ selection = [k \in Keys |-> {}]
  /\ events = {}

\* A vote: the new selection replaces the old one and the difference of the
\* two, in both directions, is reported.
Change(r, k, S) ==
  /\ S # {}
  /\ selection' = [selection EXCEPT ![k] = S]
  /\ events' = events \cup Removed(r, k, selection[k] \ S)
                      \cup Cast(r, k, S \ selection[k])

\* A removal: the whole selection goes and all of it is reported.
Remove(r, k) ==
  /\ selection' = [selection EXCEPT ![k] = {}]
  /\ events' = events \cup Removed(r, k, selection[k])

\* A removal that no event reports.
LoseRemoval(k) ==
  /\ RemovalsMayBeLost
  /\ selection' = [selection EXCEPT ![k] = {}]
  /\ events' = events

Next ==
  \E k \in Keys :
    \/ \E r \in Requests, S \in SUBSET Options : Change(r, k, S)
    \/ \E r \in Requests : Remove(r, k)
    \/ LoseRemoval(k)

Spec == Init /\ [][Next]_ledgerVars
=============================================================================
