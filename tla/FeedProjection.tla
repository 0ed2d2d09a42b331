--------------------------- MODULE FeedProjection ----------------------------
(***************************************************************************)
(* The feed service's copy of one poll: what its consumer makes of the     *)
(* poll's life (poll.created, poll.updated, poll.deleted) and of its votes *)
(* (the events of VoteLedger).                                             *)
(*                                                                         *)
(* Every event reaches the consumer once (EventPipeline) and the events of *)
(* one topic reach it in their order, for the poll id is their key.  The   *)
(* five topics are five partitions: nothing orders one after another.  An  *)
(* event that comes before poll.created finds no feed item; votes are then *)
(* kept as pending, an update is forgotten or, when it has tags, violates  *)
(* the foreign key of feed_item_tags and stops the consumer.               *)
(***************************************************************************)
EXTENDS Integers, FiniteSets, Sequences

CONSTANTS
  Keys,               \* the <<user, poll>> pairs of the poll
  Options,            \* its options
  Requests,           \* the Vote and RemoveVote requests
  RemovalsMayBeLost,  \* whether a RemoveVote may race a Vote (VoteLedger)
  MaxUpdates,         \* how often the poll is updated at the most
  None                \* no feed item


VARIABLES
  selection, events,  \* the vote ledger
  known,              \* [Requests -> the events there were before its own] (history)
  poll,               \* the poll in the poll service: "none", "live" or "deleted"
  content,            \* its question and tags: which version, whether with tags
  queue,              \* [Topics -> Seq(events)]: committed, not yet consumed
  running,            \* whether the goroutine of the consumer runs
  item,               \* the feed item, or None
  pendingOptions,     \* pending_feed_item_option_votes, 0 where there is no row
  pendingTotal,       \* pending_feed_item_votes, likewise
  applied,            \* the vote events consumed (history)
  overtook            \* what was consumed before what it refers to (history):
                      \* "updated" or "deleted" before poll.created, "removed"
                      \* before a cast it takes back

ledgerVars == <<selection, events, known>>
pollVars == <<poll, content>>
feedVars == <<item, pendingOptions, pendingTotal>>
vars == <<ledgerVars, pollVars, queue, running, feedVars, applied, overtook>>

Ledger == INSTANCE VoteLedger

PollTopics == {"poll.created", "poll.updated", "poll.deleted"}
VoteTopics == {Ledger!TopicVoteCast, Ledger!TopicVoteRemoved}
Topics == PollTopics \cup VoteTopics

Content == [version : 0 .. MaxUpdates, tagged : BOOLEAN]
FeedItem == [content : Content, votes : [Options -> Nat], total : Nat]

\* The constants: None is no item, and the options can be counted (assumed
\* where they get their values).
FeedConstants ==
  /\ RemovalsMayBeLost \in BOOLEAN
  /\ MaxUpdates \in Nat
  /\ IsFiniteSet(Options)
  /\ None \notin FeedItem

Init ==
  /\ Ledger!Init
  /\ known = [r \in Requests |-> {}]
  /\ poll = "none"
  /\ content \in {c \in Content : c.version = 0}
  /\ queue = [t \in Topics |-> <<>>]
  /\ running = TRUE
  /\ item = None
  /\ pendingOptions = [o \in Options |-> 0]
  /\ pendingTotal = 0
  /\ applied = {}
  /\ overtook = {}

-----------------------------------------------------------------------------
\* CreatePoll, UpdatePoll and DeletePoll of the poll service: the row and the
\* event in one transaction.
Emit(topic, e) == queue' = [queue EXCEPT ![topic] = Append(@, e)]

\* Mutant of CreatePoll: no event.
CreatePollSilently ==
  /\ poll = "none"
  /\ poll' = "live"
  /\ UNCHANGED <<ledgerVars, content, queue, running, feedVars, applied, overtook>>

CreatePoll ==
  /\ poll = "none"
  /\ poll' = "live"
  /\ Emit("poll.created", content)
  /\ UNCHANGED <<ledgerVars, content, running, feedVars, applied, overtook>>

\* An update carries the whole of the poll, its tags as they are now.
UpdatePoll(c) ==
  /\ poll = "live"
  /\ c \in Content /\ c.version = content.version + 1
  /\ content' = c
  /\ Emit("poll.updated", c)
  /\ UNCHANGED <<ledgerVars, poll, running, feedVars, applied, overtook>>

DeletePoll ==
  /\ poll = "live"
  /\ poll' = "deleted"
  /\ Emit("poll.deleted", content)
  /\ UNCHANGED <<ledgerVars, content, running, feedVars, applied, overtook>>

\* A vote, or a removal, of somebody who saw the poll alive: the answer of the
\* poll service may be older than its deletion, and RemoveVote never asks.  A
\* request reports at most one event of a topic.
Serve(r, k) ==
  /\ poll # "none"
  /\ \A e \in events : e.by # r
  /\ (\E S \in SUBSET Options : Ledger!Change(r, k, S)) \/ Ledger!Remove(r, k)
  /\ known' = [known EXCEPT ![r] = events]
  /\ LET reported(t) == {e \in events' \ events : e.topic = t}
     IN queue' = [t \in Topics |->
          IF reported(t) = {} THEN queue[t]
          ELSE Append(queue[t], CHOOSE e \in reported(t) : TRUE)]
  /\ UNCHANGED <<pollVars, running, feedVars, applied, overtook>>

LoseRemoval(k) ==
  /\ selection[k] # {}
  /\ Ledger!LoseRemoval(k)
  /\ UNCHANGED <<known, pollVars, queue, running, feedVars, applied, overtook>>

-----------------------------------------------------------------------------
Clamp(n) == IF n < 0 THEN 0 ELSE n

Consume(topic) ==
  /\ running /\ queue[topic] # <<>>
  /\ queue' = [queue EXCEPT ![topic] = Tail(@)]
  /\ UNCHANGED <<ledgerVars, pollVars>>

\* Mutant of HandlePollCreated: the pending votes stay where they are.
HandlePollCreatedOnly ==
  /\ Consume("poll.created")
  /\ item' = [content |-> Head(queue["poll.created"]),
              votes |-> [o \in Options |-> 0], total |-> 0]
  /\ UNCHANGED <<pendingOptions, pendingTotal, running, applied, overtook>>

\* CreateFeedItem and ApplyPendingVotes: the item is inserted, the pending
\* votes are added to its counters and their rows deleted.
HandlePollCreated ==
  /\ Consume("poll.created")
  /\ item' = [content |-> Head(queue["poll.created"]),
              votes |-> [o \in Options |-> Clamp(pendingOptions[o])],
              total |-> Clamp(pendingTotal)]
  /\ pendingOptions' = [o \in Options |-> 0]
  /\ pendingTotal' = 0
  /\ UNCHANGED <<running, applied, overtook>>

\* Mutant of HandlePollUpdated: the question is updated, the tags are not.
HandlePollUpdatedKeepsTags ==
  /\ Consume("poll.updated")
  /\ item' = IF item = None THEN None
             ELSE [item EXCEPT !.content.version = Head(queue["poll.updated"]).version]
  /\ overtook' = IF item = None THEN overtook \cup {"updated"} ELSE overtook
  /\ UNCHANGED <<pendingOptions, pendingTotal, running, applied>>

\* UpdateFeedItem: the row and its tags, or nothing if there is no row.
HandlePollUpdated ==
  /\ Consume("poll.updated")
  /\ item # None \/ ~ Head(queue["poll.updated"]).tagged
  /\ item' = IF item = None THEN None
             ELSE [item EXCEPT !.content = Head(queue["poll.updated"])]
  /\ overtook' = IF item = None THEN overtook \cup {"updated"} ELSE overtook
  /\ UNCHANGED <<pendingOptions, pendingTotal, running, applied>>

\* UpdateFeedItem of a missing row, with tags: the foreign key of
\* feed_item_tags rejects them, the transaction is rolled back, Subscribe
\* returns the error and the consumer is gone.
UpdateRejected ==
  /\ running /\ queue["poll.updated"] # <<>>
  /\ item = None /\ Head(queue["poll.updated"]).tagged
  /\ running' = FALSE
  /\ UNCHANGED <<ledgerVars, pollVars, queue, feedVars, applied, overtook>>

\* DeleteFeedItem: the item with its options and tags, if there is one.
HandlePollDeleted ==
  /\ Consume("poll.deleted")
  /\ item' = None
  /\ overtook' = IF queue["poll.created"] # <<>> THEN overtook \cup {"deleted"} ELSE overtook
  /\ UNCHANGED <<pendingOptions, pendingTotal, running, applied>>

\* e takes back what an earlier cast, not consumed yet, added.
Overtakes(e) ==
  /\ e.topic = Ledger!TopicVoteRemoved
  /\ \E f \in known[e.by] \ applied :
       f.topic = Ledger!TopicVoteCast /\ f.key = e.key /\ f.opts \cap e.opts # {}

Delta(e) == IF e.topic = Ledger!TopicVoteCast THEN 1 ELSE -1

\* IncrementOptionVotes and UpdateTotalVotes, of an item that is there.
CountVotes(e) ==
  [item EXCEPT
     !.votes = [o \in Options |-> IF o \in e.opts THEN Clamp(@[o] + Delta(e)) ELSE @[o]],
     !.total = Clamp(@ + Delta(e) * Cardinality(e.opts))]

\* Mutant of KeepPending: a removal before the item is there is dropped.
KeepPendingClamped(e) ==
  /\ pendingOptions' = [o \in Options |->
       IF o \in e.opts THEN Clamp(pendingOptions[o] + Delta(e)) ELSE pendingOptions[o]]
  /\ pendingTotal' = Clamp(pendingTotal + Delta(e) * Cardinality(e.opts))

\* AddPendingOptionVotes and AddPendingTotalVotes: the sum of the deltas.
KeepPending(e) ==
  /\ pendingOptions' = [o \in Options |->
       IF o \in e.opts THEN pendingOptions[o] + Delta(e) ELSE pendingOptions[o]]
  /\ pendingTotal' = pendingTotal + Delta(e) * Cardinality(e.opts)

\* handleVoteCast and handleVoteRemoved: count the votes of the event in the
\* item, or keep them if there is none.
HandleVote(topic) ==
  /\ Consume(topic)
  /\ LET e == Head(queue[topic]) IN
       /\ \/ /\ item # None
             /\ item' = CountVotes(e)
             /\ UNCHANGED <<pendingOptions, pendingTotal>>
          \/ /\ item = None
             /\ KeepPending(e)
             /\ item' = None
       /\ applied' = applied \cup {e}
       /\ overtook' = IF Overtakes(e) THEN overtook \cup {"removed"} ELSE overtook
  /\ UNCHANGED running

\* The feed service is started again, by hand or by a deployment.
Restart ==
  /\ ~ running
  /\ running' = TRUE
  /\ UNCHANGED <<ledgerVars, pollVars, queue, feedVars, applied, overtook>>

Handle(topic) ==
  \/ topic = "poll.created" /\ HandlePollCreated
  \/ topic = "poll.updated" /\ (HandlePollUpdated \/ UpdateRejected)
  \/ topic = "poll.deleted" /\ HandlePollDeleted
  \/ topic \in VoteTopics /\ HandleVote(topic)

Next ==
  \/ CreatePoll
  \/ \E c \in Content : UpdatePoll(c)
  \/ DeletePoll
  \/ \E r \in Requests, k \in Keys : Serve(r, k)
  \/ \E k \in Keys : LoseRemoval(k)
  \/ \E topic \in Topics : Handle(topic)
  \/ Restart

Spec == Init /\ [][Next]_vars

-----------------------------------------------------------------------------
\* The casts of an option consumed, less its removals; and the sum of the votes
\* of the options, as so many up less so many down.
Named(topic, o) == {e \in applied : e.topic = topic /\ o \in e.opts}
NetOf(o) == Cardinality(Named(Ledger!TopicVoteCast, o))
            - Cardinality(Named(Ledger!TopicVoteRemoved, o))
Up(votes) == UNION {{o} \X (1 .. votes[o]) : o \in Options}
Down(votes) == UNION {{o} \X (1 .. - votes[o]) : o \in Options}
SumOf(votes) == Cardinality(Up(votes)) - Cardinality(Down(votes))

\* poll.created is on its way, or was consumed and the item is not deleted yet.
AwaitsItem == poll = "none" \/ queue["poll.created"] # <<>>

\* Votes that come before the item are kept to the last one, those of a removal
\* that came first included; none is left behind when the item is there.
EarlyVotesKept ==
  /\ AwaitsItem =>
       /\ item = None
       /\ \A o \in Options : pendingOptions[o] = NetOf(o)
       /\ pendingTotal = SumOf(pendingOptions)
  /\ item # None =>
       pendingTotal = 0 /\ \A o \in Options : pendingOptions[o] = 0

\* The item never shows fewer votes than were consumed, before it or after; it
\* shows exactly those if no removal was consumed before its cast, and its
\* total never exceeds the sum of its options.
ItemCounts ==
  item # None =>
    /\ \A o \in Options : item.votes[o] >= NetOf(o)
    /\ item.total <= SumOf(item.votes)
    /\ "removed" \notin overtook =>
         /\ \A o \in Options : item.votes[o] = NetOf(o)
         /\ item.total = SumOf(item.votes)

\* Once every update is consumed the item shows the poll as it is, if no update
\* was consumed before the creation; and a deleted poll is gone for good once the
\* deletion is consumed, if that was not before the creation.
ItemShowsPoll ==
  /\ item # None /\ queue["poll.updated"] = <<>> /\ "updated" \notin overtook =>
       item.content = content
  /\ poll = "deleted" /\ queue["poll.deleted"] = <<>> /\ "deleted" \notin overtook =>
       item = None
  /\ poll # "none" /\ item = None =>
       queue["poll.created"] # <<>> \/ poll = "deleted"

\* A created poll is listed in the end, or deleted, or the consumer stopped.
EventuallyListed ==
  poll = "live" ~> item # None \/ poll = "deleted" \/ ~ running

\* The end-to-end test's expectation, "feed contains created poll".
FeedContainsCreatedPoll == poll = "live" ~> item # None \/ poll = "deleted"
=============================================================================
