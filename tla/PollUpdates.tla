----------------------------- MODULE PollUpdates ----------------------------
(***************************************************************************)
(* Updates and deletions of one poll, statement by statement, beside the   *)
(* transactions of the poll service's consumer that count its votes.       *)
(*                                                                         *)
(* A request is one transaction in READ COMMITTED: each of its statements  *)
(* sees what is committed when it starts and what the request wrote, and   *)
(* waits for the rows that others have locked.  PostgreSQL aborts one of   *)
(* the transactions that wait for each other.                              *)
(***************************************************************************)
EXTENDS Integers, FiniteSets, FiniteSetsExt

CONSTANTS
  Requests,
  Kinds,         \* the requests there may be, members of Kind
  Tags,          \* the tags of the poll, by their places in the order of names
  InitialTags,   \* those it may be created with
  Votes,         \* how many vote events its consumer comes to
  Initial        \* the question it is created with

\* A request: whether it deletes the poll, else whether it sets the question
\* (or the image), whether the tags and which; whether it is of the creator.
Kind == {k \in [delete : BOOLEAN, question : BOOLEAN, retag : BOOLEAN,
                tags : SUBSET Tags, mine : BOOLEAN] :
           k.delete \/ k.question \/ k.retag}

\* What the constants are (assumed where they get their values).
UpdatesAssumption ==
  /\ IsFiniteSet(Requests) /\ Requests \cap {Initial, "consumer"} = {} /\ Kinds \subseteq Kind
  /\ Tags \subseteq Nat /\ InitialTags \subseteq SUBSET Tags
  /\ Votes \in Nat

VARIABLES
  live,      \* whether the poll's row is there
  question,  \* the request that set its question
  tags,      \* the committed rows of poll_tags: the tag and who inserted it
  tx,        \* [Requests -> the transaction]
  consumer,  \* the transaction of the consumer, or that it stopped
  votes,     \* the vote events it has not handled
  outbox,    \* the updates whose event is not published
  shown,     \* the poll as the last event that was published has it
  began,     \* [Requests -> when its transaction began]: created_at of its event
  met,       \* [Requests -> those that were open beside it] (history)
  last       \* the update that was committed last (history)

pollVars == <<live, question, tags>>
historyVars == <<began, met, last>>
vars == <<pollVars, tx, consumer, votes, outbox, shown, historyVars>>

Named(rows) == {row[1] : row \in rows}
Content == [question |-> question, tags |-> Named(tags)]

New == [stage |-> "new", kind |-> CHOOSE k \in Kinds : TRUE, lock |-> "none",
        found |-> {}, removed |-> {}, missing |-> {}, added |-> {},
        event |-> [question |-> Initial, tags |-> {}]]

Init ==
  /\ live = TRUE
  /\ question = Initial
  /\ tags \in {T \X {Initial} : T \in InitialTags}
  /\ tx = [r \in Requests |-> New]
  /\ consumer = "idle"
  /\ votes = Votes
  /\ outbox = {}
  /\ shown = Content
  /\ began = [r \in Requests |-> 0]
  /\ met = [r \in Requests |-> {}]
  /\ last = Initial

Ended == {"committed", "refused", "aborted", "victim"}
Open(r) == tx[r].stage \notin {"new"} \cup Ended
Others(r) == {x \in Requests \ {r} : Open(x)}

\* What a request sees: what is committed and what it wrote itself.
Sees(r) ==
  [question |-> IF tx[r].kind.question THEN r ELSE question,
   tags |-> (tags \ tx[r].removed) \cup tx[r].added]

-----------------------------------------------------------------------------
\* The row that DELETE FROM poll_tags comes to next, of those it saw that are
\* still there and not its own yet, in the order of their index; the tag that
\* is inserted next, in the order of names.  In the mutant that order is lost.
Left(r) == (tx[r].found \cap tags) \ tx[r].removed
NextRow(r) == CHOOSE row \in Left(r) : \A other \in Left(r) : row[1] <= other[1]
NextTagAsGiven(r) ==
  IF began[r] % 2 = 0 THEN Max(tx[r].missing) ELSE Min(tx[r].missing)
NextTag(r) == Min(tx[r].missing)

\* Who keeps the next statement of somebody waiting.  Rows of polls are locked
\* by UPDATE ("update"), by DELETE ("delete") and, weakly, by the foreign key
\* of a row that is inserted into poll_tags ("share"); rows of poll_tags by who
\* removes or inserts them.
Holders(r, locks) == {x \in Others(r) : tx[x].lock \in locks}

CounterHolds == IF consumer = "counted" THEN {"consumer"} ELSE {}
OptionsHeld == IF consumer \in {"options", "counted"} THEN {"consumer"} ELSE {}

Blockers(r) ==
  CASE tx[r].stage = "update" -> Holders(r, {"update", "delete"}) \cup CounterHolds
    [] tx[r].stage = "removing" ->
         {x \in Others(r) : Left(r) # {} /\ NextRow(r) \in tx[x].removed}
    [] tx[r].stage = "insert" ->
         {x \in Others(r) : NextTag(r) \in Named(tx[x].added \cup tx[x].removed)}
    [] tx[r].stage = "refer" -> Holders(r, {"delete"})
    [] tx[r].stage = "delete" ->
         Holders(r, {"share", "update", "delete"}) \cup CounterHolds
    [] tx[r].stage = "cascade" -> OptionsHeld
    [] OTHER -> {}

ConsumerBlockers ==
  CASE consumer = "start" ->
         {x \in Requests : tx[x].kind.delete /\ tx[x].stage \in {"removing", "deleted"}}
    [] consumer = "options" -> {x \in Requests : Open(x) /\ tx[x].lock \in {"update", "delete"}}
    [] OTHER -> {}

BlockersOf(a) == IF a = "consumer" THEN ConsumerBlockers ELSE Blockers(a)
Actors == Requests \cup {"consumer"}

\* Everybody in a group waits for somebody in it; a ring has nobody to spare.
Stuck(group) == \A x \in group : BlockersOf(x) \cap group # {}
InDeadlock(a) ==
  \E ring \in SUBSET Actors :
    a \in ring /\ Stuck(ring) /\ \A x \in ring : ~ Stuck(ring \ {x})

-----------------------------------------------------------------------------
Step(r, from, new) ==
  /\ tx[r].stage = from
  /\ Blockers(r) = {}
  /\ tx' = [tx EXCEPT ![r] = new]

Unchanged == UNCHANGED <<pollVars, consumer, votes, outbox, shown, historyVars>>

\* The stages of an update with tags, and of one without.
AfterRow(kind) == IF kind.retag THEN "replace" ELSE "read"

\* WithTx begins; NOW() is the created_at of the event it will write.
Begin(r, kind) ==
  /\ tx[r].stage = "new"
  /\ tx' = [tx EXCEPT ![r] = [New EXCEPT !.kind = kind,
       !.stage = IF kind.delete THEN "delete"
                 ELSE IF kind.question THEN "update" ELSE "replace"]]
  /\ began' = [began EXCEPT ![r] = 1 + Max({began[x] : x \in Requests})]
  /\ met' = [x \in Requests |-> IF x = r THEN Others(r)
                                ELSE IF Open(x) THEN met[x] \cup {r} ELSE met[x]]
  /\ UNCHANGED <<pollVars, consumer, votes, outbox, shown, last>>

\* Mutant of UpdateByIDAndCreator: the row is not locked until the commit.
UpdateUnlocked(r) ==
  /\ Step(r, "update", [tx[r] EXCEPT
       !.stage = IF live /\ tx[r].kind.mine THEN AfterRow(tx[r].kind) ELSE "refused"])
  /\ Unchanged

\* UPDATE polls: the row if it is there and the creator's.  Without a question
\* or an image the function does nothing at all (Begin).
UpdateByIDAndCreator(r) ==
  /\ Step(r, "update",
       IF live /\ tx[r].kind.mine
       THEN [tx[r] EXCEPT !.stage = AfterRow(tx[r].kind), !.lock = "update"]
       ELSE [tx[r] EXCEPT !.stage = "refused"])
  /\ Unchanged

\* DELETE FROM poll_tags starts: it will remove the rows it sees.  The names
\* of the tags are ensured before, sorted, so that nobody waits in a ring.
FindTags(r) ==
  /\ Step(r, "replace", [tx[r] EXCEPT !.stage = "removing", !.found = tags])
  /\ Unchanged

\* It comes to a row that is not gone meanwhile; it has them all.
RemoveTag(r) ==
  /\ Left(r) # {}
  /\ Step(r, "removing", [tx[r] EXCEPT !.removed = @ \cup {NextRow(r)}])
  /\ Unchanged

AfterTags(r, missing) ==
  IF tx[r].kind.delete THEN "deleted" ELSE IF missing = {} THEN "read" ELSE "insert"

TagsRemoved(r) ==
  /\ Left(r) = {}
  /\ Step(r, "removing", [tx[r] EXCEPT !.missing = tx[r].kind.tags,
                                       !.stage = AfterTags(r, tx[r].kind.tags)])
  /\ Unchanged

\* INSERT INTO poll_tags ON CONFLICT DO NOTHING, a statement for each tag; the
\* foreign key of a row that is inserted then locks the poll.
InsertTag(r) ==
  /\ tx[r].stage = "insert"
  /\ LET t == NextTag(r)
         missing == tx[r].missing \ {t}
         there == t \in Named(tags \ tx[r].removed)
     IN Step(r, "insert", [tx[r] EXCEPT
          !.missing = missing,
          !.added = IF there THEN @ ELSE @ \cup {<<t, r>>},
          !.stage = IF ~ there /\ tx[r].lock = "none" THEN "refer" ELSE AfterTags(r, missing)])
  /\ Unchanged

ReferToPoll(r) ==
  /\ Step(r, "refer",
       IF live
       THEN [tx[r] EXCEPT !.lock = "share", !.stage = AfterTags(r, tx[r].missing)]
       ELSE [tx[r] EXCEPT !.stage = "aborted"])
  /\ Unchanged

\* GetByID for the event, and in a snapshot of its own GetTagsByPollIDs.
ReadPoll(r) ==
  /\ Step(r, "read",
       IF live THEN [tx[r] EXCEPT !.stage = "readTags", !.event.question = Sees(r).question]
       ELSE [tx[r] EXCEPT !.stage = "refused"])
  /\ Unchanged

\* Mutant of ReadTags: the tags are read outside of the transaction.
ReadTagsOutside(r) ==
  /\ Step(r, "readTags", [tx[r] EXCEPT !.stage = "commit", !.event.tags = Named(tags)])
  /\ Unchanged

ReadTags(r) ==
  /\ Step(r, "readTags", [tx[r] EXCEPT !.stage = "commit", !.event.tags = Named(Sees(r).tags)])
  /\ Unchanged

\* The event is added to the outbox and the transaction commits.
CommitUpdate(r) ==
  /\ Step(r, "commit", [tx[r] EXCEPT !.stage = "committed"])
  /\ ~ tx[r].kind.delete
  /\ question' = Sees(r).question
  /\ tags' = Sees(r).tags
  /\ outbox' = outbox \cup {r}
  /\ last' = r
  /\ UNCHANGED <<live, consumer, votes, shown, began, met>>

\* DELETE FROM polls: the row if it is there and the creator's.
DeleteByIDAndCreator(r) ==
  /\ Step(r, "delete",
       IF live /\ tx[r].kind.mine
       THEN [tx[r] EXCEPT !.stage = "cascade", !.lock = "delete"]
       ELSE [tx[r] EXCEPT !.stage = "refused"])
  /\ Unchanged

\* ON DELETE CASCADE: its options, then its tags, row by row (RemoveTag).
Cascade(r) ==
  /\ Step(r, "cascade", [tx[r] EXCEPT !.stage = "removing", !.found = tags])
  /\ Unchanged

CommitDelete(r) ==
  /\ Step(r, "deleted", [tx[r] EXCEPT !.stage = "committed"])
  /\ live' = FALSE
  /\ tags' = {}
  /\ UNCHANGED <<question, consumer, votes, outbox, shown, historyVars>>

\* A statement fails, or the context of the request is cancelled: a rollback.
Abort(r) ==
  /\ Open(r)
  /\ tx' = [tx EXCEPT ![r] = [@ EXCEPT !.stage = "aborted"]]
  /\ Unchanged

-----------------------------------------------------------------------------
Consumer(from, to) ==
  /\ consumer = from
  /\ ConsumerBlockers = {}
  /\ consumer' = to
  /\ UNCHANGED <<pollVars, tx, outbox, shown, historyVars>>

\* handleVoteCast and handleVoteRemoved: the rows of poll_options, then the row
\* of polls, which may be gone; the commit.
HandleVote == Consumer("idle", "start") /\ votes > 0 /\ votes' = votes - 1
IncrementOptionVotes == Consumer("start", "options") /\ UNCHANGED votes
UpdateTotalVotes == Consumer("options", "counted") /\ UNCHANGED votes
CommitVote == Consumer("counted", "idle") /\ UNCHANGED votes

\* PostgreSQL ends a deadlock by aborting one of the ring.  A handler that fails
\* ends the consumer.
BreakDeadlock(a) ==
  /\ InDeadlock(a)
  /\ IF a = "consumer"
     THEN consumer' = "stopped" /\ UNCHANGED tx
     ELSE tx' = [tx EXCEPT ![a] = [@ EXCEPT !.stage = "victim"]] /\ UNCHANGED consumer
  /\ UNCHANGED <<pollVars, votes, outbox, shown, historyVars>>

\* The relay publishes what is committed, in the order of created_at, and the
\* feed service shows the last of it.
Flush ==
  /\ outbox # {}
  /\ shown' = tx[CHOOSE r \in outbox : \A x \in outbox : began[x] <= began[r]].event
  /\ outbox' = {}
  /\ UNCHANGED <<pollVars, tx, consumer, votes, historyVars>>

Statement(r) ==
  \/ UpdateByIDAndCreator(r) \/ FindTags(r) \/ RemoveTag(r) \/ TagsRemoved(r)
  \/ InsertTag(r) \/ ReferToPoll(r)
  \/ ReadPoll(r) \/ ReadTags(r) \/ CommitUpdate(r)
  \/ DeleteByIDAndCreator(r) \/ Cascade(r) \/ CommitDelete(r)

Next ==
  \/ \E r \in Requests : (\E k \in Kinds : Begin(r, k)) \/ Statement(r) \/ Abort(r)
  \/ HandleVote \/ IncrementOptionVotes \/ UpdateTotalVotes \/ CommitVote
  \/ \E a \in Actors : BreakDeadlock(a)
  \/ Flush

Spec == Init /\ [][Next]_vars

-----------------------------------------------------------------------------
\* The requests that take the lock of the poll's row with their first statement.
Locks(r) == tx[r].kind.delete \/ tx[r].kind.question

\* The event of an update shows the poll as the commit leaves it, if nothing
\* was open beside it, or if all that was, and the update itself, set the
\* question and so waited for each other.
EventShowsPoll(r) ==
  /\ last' = r /\ last # r
  /\ met[r] = {} \/ \A s \in met[r] \cup {r} : Locks(s)
  => tx[r].event = Content'

EventsShowPoll == [][\A r \in Requests : EventShowsPoll(r)]_vars

\* When all is published the feed shows the poll as it is, if nothing was open
\* beside the update that was committed last.
LastAloneIsShown ==
  live /\ outbox = {} /\ (last # Initial => met[last] = {}) => shown = Content

\* No tags outlive the poll, and the tags of a poll are those somebody gave it:
\* the update with tags that was committed last, if nothing was open beside it.
TagsAreOfUpdates ==
  /\ ~ live => tags = {}
  /\ last # Initial /\ live =>
       LET k == tx[last].kind
           beside == {y \in met[last] : tx[y].stage = "committed" /\ tx[y].kind.retag}
       IN k.retag =>
            /\ Named(tags) \subseteq k.tags \cup UNION {tx[y].kind.tags : y \in beside}
            /\ met[last] = {} => Named(tags) = k.tags

\* The poll and what is shown of it are the work of the updates: both parts are
\* about what overlapping transactions may undo (UpdatePoll has no lock of its
\* own beside those of its statements).
UpdatesAreKept == LastAloneIsShown /\ TagsAreOfUpdates

\* Only a deletion makes transactions wait in a ring: updates among themselves,
\* and with the consumer, do not, unless three of them set the tags.  (Two wait
\* for the rows they remove before they insert any, and insert them in the order
\* of names.  But when the first has inserted one tag and the second commits
\* another, the third removes that one and waits to insert the one of the first,
\* which waits to insert the one that is being removed.)
DeadlockNeedsDelete ==
  LET retagging == {x \in Requests : tx[x].stage # "new" /\ tx[x].kind.retag} IN
  /\ \A r \in Requests : tx[r].stage = "victim" =>
       \/ tx[r].kind.delete \/ \E x \in met[r] : tx[x].kind.delete
       \/ Cardinality(retagging) > 2
  /\ consumer = "stopped" => \E r \in Requests : tx[r].kind.delete
=============================================================================
