------------------------------ MODULE MCPages -------------------------------
(***************************************************************************)
(* Small instances, for TLC, of the lists that are read page after page:   *)
(* those of the feed (FeedPages), with a handful of items of two creators  *)
(* and one reader, and that of the poll service (PollLists), all polls or  *)
(* those of one tag.  They have no state in common, so a behaviour is one  *)
(* of either.                                                              *)
(***************************************************************************)
EXTENDS FeedPages

CONSTANTS
  alice, bob, guest,
  news,
  Polls, Tags, Filters, Microsecond, MaxTime, None  \* of the list of polls

VARIABLES part,                            \* "feed" or "polls"
          clock, polls, pollChanges, walk, listed, steadyPolls, changed

listVars == <<clock, polls, pollChanges, walk, listed, steadyPolls, changed>>

MCCreator == [i \in 1 .. N |-> IF i % 2 = 1 THEN alice ELSE bob]
MCViewers == {alice, guest}

MCTags == {news}
MCFilters == {{}, {news}}

Lists == INSTANCE PollLists WITH
           changes <- pollChanges, shown <- listed, steady <- steadyPolls

ASSUME ListsAssumption == Lists!ListsAssumption

\* The part that is not looked at stays at its beginning, one of them.
MCInit ==
  /\ part \in {"feed", "polls"}
  /\ Init /\ (part = "polls" => Listed = {} /\ horizon = 0)
  /\ Lists!Init

MCNext ==
  \/ part = "feed" /\ Next /\ UNCHANGED <<part, listVars>>
  \/ part = "polls" /\ Lists!Next /\ UNCHANGED <<part, vars>>

MCSpec == MCInit /\ [][MCNext]_<<part, vars, listVars>>

\* What PollLists says of the pages of polls.
SteadyPollsOnce == Lists!SteadyPollsOnce
=============================================================================
