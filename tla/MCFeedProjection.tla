------------------------- MODULE MCFeedProjection ---------------------------
(***************************************************************************)
(* Instances of FeedProjection for TLC: one poll, one user, one or two     *)
(* options, an update.                                                     *)
(*                                                                         *)
(* The events the feed consumes are those that the services of VoteCounters*)
(* count, each of them from a consumer group of its own; the feed is looked*)
(* at beside them, over the same ledger, while they have consumed nothing. *)
(***************************************************************************)
EXTENDS VoteCounters, Sequences

CONSTANTS MaxUpdates, k1, optA, optB

VARIABLES poll, content, queue, running, item, pendingOptions, pendingTotal,
          applied, overtook

MCKeys == {k1}
MCOptions == {optA, optB}
MCOneOption == {optA}
MCGroups == {"any"}
MCGroupOf == [k \in MCKeys |-> "any"]

Feed == INSTANCE FeedProjection

ASSUME FeedAssumption == Feed!FeedConstants

\* What the feed neither reads nor writes.
countersVars == <<pollType, lost, group, pollVars, statsVars, late>>

MCInit == Init /\ pollType = "multiple" /\ Feed!Init

MCNext == Feed!Next /\ UNCHANGED countersVars

\* The reader fetches each partition in a goroutine of its own and hands their
\* messages on in turn; nobody has to restart the service.
projectionVars == Feed!vars
Fairness == \A topic \in Feed!Topics : WF_projectionVars(Feed!Handle(topic))

MCSpec == MCInit /\ [][MCNext]_<<countersVars, projectionVars>> /\ Fairness

-----------------------------------------------------------------------------
(* What FeedProjection says of the feed. *)

\* No vote that comes before the item is forgotten or left behind.
EarlyVotesKept == Feed!EarlyVotesKept

\* The item counts what was consumed, exactly if it came in order.
ItemCounts == Feed!ItemCounts

\* The item shows the poll as it is, and a deleted poll is gone for good.
ItemShowsPoll == Feed!ItemShowsPoll

\* A created poll is listed in the end, or deleted, or the consumer stopped.
EventuallyListed == Feed!EventuallyListed

\* The end-to-end test's expectation.
FeedContainsCreatedPoll == Feed!FeedContainsCreatedPoll
=============================================================================
