# Public survey platform: specification, model checking and proofs

TLA+ modules for the services under `src/back` (Go over PostgreSQL, Kafka and
Redis) and for the parts of the React front end under `src/front` that keep
state. They are written from the code; tests are quoted only where a run shows
that the code and a test's expectation disagree. The lines each definition
stands for are in `PROJECT.json`, under `map`.

## 1. The system

| part | state it keeps | operations | talks to |
|---|---|---|---|
| vote-service | table `votes`, `outbox_events` | `Vote`, `RemoveVote`, `GetUserVote` | asks poll-service for the poll, user-service for the profile; emits `vote.cast`, `vote.removed` |
| poll-service | `polls`, `poll_options`, `poll_tags`, `outbox_events`, `processed_events`; Redis cache | create, get, list, update, delete a poll; list, create tags; upload URL | emits `poll.created`, `poll.updated`, `poll.deleted`; consumes the vote events |
| feed-service | `feed_items` with options and tags, pending votes, impressions, `processed_events`; Redis cache | feed, trending, a user's polls, the polls of followed users, impressions; five event handlers | consumes all five topics; asks user-service for followed users |
| analytics-service | statistics per option, country, gender and age, `processed_events`; Redis cache | `GetPollAnalytics` and its breakdowns; two handlers | consumes the vote events |
| user-service | users, profiles, sessions, follows | register, login, refresh, logout, logout of all, profile, follow | JWT, bcrypt |
| event pipeline (`pkg/tx`, `pkg/outbox`, `pkg/events`) | `outbox_events`, partitions, offsets, `processed_events` | transaction, relay, publisher, subscriber | joins every producer to every consumer |
| read caches (`pkg/cache` and the `cache` decorators) | Redis keys with a time to live, versions of lists | read-through, drop, increment, flush | wrap the services of poll, feed and analytics |
| every `main` | a process: configuration, connections, goroutines, deferred calls | start, serve, stop on a signal, exit | Docker, PostgreSQL, Kafka, Redis |
| browser (`client.ts`, `AuthContext.tsx`, pages) | `localStorage`, the React state of each tab and page | requests with refresh and retry, login, logout, optimistic votes | the gateway |
| api-service, handlers, interceptors, logging, metrics | none | HTTP to gRPC, token check | every service |

A vote goes this way. The page shows it at once and sends it; the client adds the
access token and, if it has expired, exchanges it and sends again. `Vote` opens a
transaction, takes an advisory lock of the user and poll, asks the poll service
what the options are, reads and replaces the rows of the user and adds the events
of the *difference* to the outbox. A relay, a ticker loop of its own, lists
unpublished rows by `created_at`, publishes and marks them. Each consuming service
fetches from all its partitions; its handler inserts the event id into
`processed_events` and has its effect in one transaction; the offset is committed
later by a timer. The counters of three services, the feed and the caches follow
from those events.

What makes it hard:

- `RemoveVote` does not take the lock that `Vote` takes, and every statement
  runs at READ COMMITTED: it has a snapshot, waits for row locks, and then acts
  on what is left of the snapshot.
- `created_at` orders the outbox by the beginning of transactions and not by
  their commits; publishing may fail, repeat, or be forgotten.
- Offsets are committed asynchronously, so any stop redelivers; `processed_events`
  has to make that invisible.
- The five topics are five partitions: a removal can be consumed before its cast,
  an update or a deletion before the creation, votes before the poll.
- Counters are clamped at zero (`GREATEST(0, ...)`), one by one and in sums.
- One handler error ends a consumer's goroutine, and nothing starts it again
  short of a restart of the process.
- Cached values are read, computed and stored without a lock; the vote consumer
  drops keys before its transaction commits, the analytics consumer after.
- The pages of a list are separate queries, on data that moves between them; the
  fair feed merges two lists under one cursor.
- An update of a poll's tags locks no row of `polls`; a deletion locks in the
  opposite order of the vote consumer.
- A stop of a process waits three times for at most ten seconds, beside a kill by
  Docker after ten.
- The tabs of a browser share `localStorage` but each has a React state that it
  writes back there.

`hazards` in `PROJECT.json` lists these places one by one, each with the
properties that cover it.

What has to be true of each part:

- *votes*: a user's selection in a poll is the work of one `Vote`, valid for the
  poll; the events add up to the table, or claim more, never less; a request ends.
- *pipeline*: a committed event takes effect exactly once whatever fails; it is
  never lost; events of one key keep the order of their transactions.
- *counters*: never below the votes there are, exact when nothing came out of order.
- *polls*: what an update announces is the poll as it is; tags do not outlive it.
- *feed*: shows each poll there is, as it is, with its votes, and no deleted one;
  paging through it shows everything that keeps its place, once.
- *caches*: an answered change is visible in the lists; under the key of a poll or of
  the analytics only an overlap or a fault leaves something outdated.
- *sessions*: a refresh token is exchanged at most once; what was logged out, alone
  or with all others, is ended and has no successor.
- *browser*: a request takes effect once, however it is repeated; what is stored is
  a session that is live; a page shows no vote from before it was loaded.
- *processes*: nothing is closed under its users, a request that was taken is
  answered, a signal ends the process, an outbox left behind is published.

## 2. The modules

| module | what it models | checked in | proofs |
|---|---|---|---|
| `VoteService` | the requests of vote-service, statement by statement | `MCVoteService` | `VoteServiceProofs` |
| `EventPipeline` | outbox, relay, partitions and consumer of one pair of services | `MCEventPipeline` | `EventPipelineProofs` |
| `VoteCounters` | the counters of the poll and the statistics, from the events of the votes | `MCVoteCounters` | `ProjectionsProofs` |
| `FeedProjection` | the item of a poll in the feed and its pending votes | `MCFeedProjection` | `ProjectionsProofs` |
| `UserSessions` | sessions and refresh tokens | `MCRequests` | `RequestsProofs` |
| `PollUpdates` | the statements of `UpdatePoll`, `DeletePoll` and the vote consumer | `MCRequests` | `RequestsProofs` |
| `PollForms` | the forms that create and edit polls, with their uploads | `MCRequests` | `RequestsProofs` |
| `FeedPages` | pages, cursors, cache and merge of the feed's lists | `MCPages` | `PagesProofs` |
| `PollLists` | pages and cursors of `ListPolls` | `MCPages` | `PagesProofs` |
| `PollCache` | cache of polls and lists | `MCReadCaches` | `ReadCachesProofs` |
| `AnalyticsCache` | cache and flush of the analytics | `MCReadCaches` | `ReadCachesProofs` |
| `ServiceRun` | a process from its start to its exit | `MCServiceRun` | `ServiceRunProofs` |
| `BrowserSession` | tabs, API client, user service | `MCFrontEnd` | `FrontEndProofs` |
| `PollPage` | the page of a poll | `MCFrontEnd` | `FrontEndProofs` |

`VoteLedger`, `EventDelivery` and `SessionLedger` are the abstract specifications:
what the rest of the platform may assume of the vote service, the pipeline and
the sessions. `VoteService`, `EventPipeline` and `UserSessions` are shown to implement
them. `VoteCounters` and `FeedProjection`, the modules that count, take
exactly those promises as their input: their votes change by the actions of
`VoteLedger` (with its lost removals), and each event is consumed once, in any
order between topics. The feed is another consumer of the events that
`VoteCounters` has, so `MCFeedProjection` extends `VoteCounters` and lets its
counters rest.

`MCReadCaches`, `MCFrontEnd`, `MCRequests` and `MCPages` put two or three modules
that share no state side by side. A variable (`part`, `service`) says which of them a behaviour
is of; the others stay in one of their initial states. What the modules say is
stated again in the MC module under the same name (`UpdatesAreKept ==
Updates!UpdatesAreKept`), so that a run checks it and a theorem can name it. An
invariant of a part that does not run holds there because it holds at the beginning.

### VoteLedger and VoteService

`VoteLedger`: one atomic change of one selection per request, with a
`vote.removed` for what went and a `vote.cast` for what came; and `LoseRemoval`,
a removal nothing reports, which the code makes possible (see below).

`VoteService`: each request is a process with a stage `pc`.

| action | code |
|---|---|
| `CallVote`, `CallSelect` | argument checks, `normalizeOptionIDs`, `BeginTx` |
| `LockUserVote` | `pg_advisory_xact_lock` on user and poll; `RemoveVote` and `GetUserVote` have no such step |
| `ValidateSelectedOptions` | the poll service's answer and `validateSelectedOptions` |
| `SelectSnapshot`, `GetUserVote` | the two halves of `SELECT ... FOR UPDATE`: the snapshot, then the rows still there once their locks are free |
| `KeepUserVote` | the early return when nothing changes |
| `DeleteSnapshot`, `ReplaceUserVote` | the DELETE with a snapshot of its own, the INSERT, the events of the difference, COMMIT |
| `DeleteSnapshot`, `DeleteUserVote` | the same for `RemoveVote`, which reports what its SELECT returned |
| `Rollback` | any failure inside the transaction, or the end of the process |

A row is a row *version* (`by` is the request that inserted it): PostgreSQL skips
a version that was deleted while a statement waited, even if the same values were
inserted again. This is what `RemovalWholeOrLost` and `ReadsWholeSelection`
are about. The writes of a transaction become visible at its commit, so from
the DELETE's lock wait to COMMIT is one step: the transaction holds every lock it
needs by then and nobody else can see or touch its rows.

A lost removal: `RemoveVote` reads the rows, waits in SELECT for a `Vote` that
replaces them, gets none of them, takes a new snapshot in DELETE, and deletes
what it never saw. The selection is gone and no event says so. The refinement
names this as `LoseRemoval`; `EventsMatchVotes` says that it can only make the
events claim *more* than the table, and that the two are equal until the first
`RemoveVote`. In the same way `GetUserVote`, waiting for a `Vote` that replaces the
rows, answers that the user has not voted (`vote_repository.go:58`): a whole
selection or none is all that `ReadsWholeSelection` can say.

### EventDelivery and EventPipeline

One producing and one consuming service. A transaction begins (which fixes
`created_at`), and commits or aborts; the relay lists a batch (`ListUnpublished`),
publishes each row (`Publish`, `PublishFails`) and marks it (`MarkPublished`,
`MarkPublishedFails`); the consumer fetches (`Fetch`), handles (`Handle`) and
commits offsets (`FlushOffsets`). Faults are counted by `faults` and named by
their kind: giving up to publish, a lost acknowledgement (the writer sends twice),
a failed mark, a crash of either side, a rebalance, an error of a handler or of
COMMIT's answer. `hand` is the message fetched and not yet handled; a rebalance
leaves it there, because the handler goes on, and the reader is reset under it.

### VoteCounters

One poll, its voters and both counting services over the same events.
`Increment`, `UpdateTotalVotes` and `Upsert` are the SQL expressions, the first
two clamped at zero, the last inserting the delta itself when there is no row,
which is how a statistic can show -1. The three demographic tables have the same
code and are one table by group. An event may carry any group or none: the profile
is fetched anew for every request and a failing call leaves the fields empty.

### FeedProjection

One poll from its creation to its deletion, with votes at any time in between
and after, each topic a queue. The five handlers are five actions;
`UpdateRejected` is the handler that violates the foreign key and ends the
consumer. FIFO per topic is what `AppliedInOrder` of `EventPipeline` gives for
one key. A `poll.deleted` consumed before `poll.created` deletes nothing and the
creation then lists the deleted poll for good (`feed_repository.go:108`):
`ItemShowsPoll` excludes this case by name, `"deleted" \in overtook`.

### PollUpdates

`UpdatePoll` and `DeletePoll` as transactions of single statements on one poll,
beside each other and beside the transaction of the vote consumer. `Blockers` is
PostgreSQL's lock table: who must end before the next statement of a request can
go on (UPDATE, DELETE and the weak lock that the foreign key of `poll_tags` takes).
`BreakDeadlock` aborts one of a ring. `met` records who was open beside whom.

| action | code |
|---|---|
| `Begin` | `WithTx`; an update of tags alone starts with the tags and never locks the row of `polls` |
| `UpdateByIDAndCreator` | the UPDATE with the check of the creator |
| `FindTags`, `RemoveTag`, `TagsRemoved` | `ReplacePollTags`: the DELETE sees its rows, comes to them one by one, and has them all |
| `InsertTag`, `ReferToPoll` | an INSERT ... ON CONFLICT DO NOTHING for each tag, in the order of names, and the check of its foreign key |
| `ReadPoll`, `ReadTags` | the poll read back for the event, tags in a snapshot of their own |
| `DeleteByIDAndCreator`, `Cascade` | DELETE and its ON DELETE CASCADE, whose rows go one by one as well |
| `CommitUpdate`, `CommitDelete`, `Abort` | the end of a transaction, the event of an update with it |
| `HandleVote` ... `CommitVote` | the consumer: rows of the options, then the row of the poll |
| `Flush` | the relay and the feed service at once: the event that began last is shown |

A row of `poll_tags` is a row version, the tag and who inserted it: a DELETE skips the
version it saw when that is gone, though the same tag is there again. Rows are
locked one by one, which is what makes rings of waiters possible at all. Updates of
one poll ensure the *names* of their tags in sorted order first, so that these never
make a ring; the rows of `poll_tags` can, but only among three updates of tags or with a
deletion (`DeadlockNeedsDelete`).

Overlapping updates of which one only has tags announce a poll that never was, or
leave the tags of both: the properties say of which overlaps this is *not* true.

### PollForms

The pages that create and edit a poll, the object store and the poll service's
answers. A submit uploads its picture first (`Presign`, `Upload`), then sends the
request (`Send`); `CreatePoll`, `UpdatePoll`, `DeletePoll` and `Refuse` handle it, with the
rule of the gRPC handler that what is empty is not provided; `Receive` is what the page
makes of the answer, `Lose` the connection that breaks while the page waits, so
that whatever became of the request is never heard. `log` remembers which submits made a
poll what it is. The form stays enabled after a failure: a second submit of
a form whose first answer was lost creates a second poll, which
`OnePollPerForm` counts against the faults. Without tags an edit sends none, and the
service leaves those there are (finding 3).

### PollLists

A caller who walks the list of polls by its cursors. `List`, `GetOptions` and
`GetTags` are the three queries of one page, without a transaction around them;
beside them polls are begun (which reads the clock), committed, given other tags and
deleted. A poll may be committed below a cursor that was handed out already, and two may have
one `created_at`.

### FeedPages

A reader asks for page after page of any of the five lists with the cursor of the
last one. Beside it items are created, updated, deleted and voted on, grow older
than `ExposureMaxAge`, are seen by viewers, creators are followed and unfollowed,
and others fill the cache. `Select` is what each query selects and in which order: `Ordered` puts
an item behind all those that come before it, for any order;
`MakeKey`, `AnswerCached`, `ReadPage`, `Answer` are the read-through decorator;
`Flush` is what the consumer and the impressions delete, which may fail and may
come before a page that was read earlier is stored. The fair feed reads its two
lists in two statements (`ReadDiscovery`, `ReadChronological`) and merges them
(`Merge`, `Fill`, `Take`, `FairPage`) slot after slot, what is `Eligible` for discovery first.

### PollCache

One poll, its key, the versioned keys of the list, calls in their database and Redis
steps (the content and the options of a poll are separate statements), and the vote
consumer that drops the key and increments the version inside its transaction, before it
commits. An operation of Redis may fail and is then ignored, as the code does. A poll is
read as its content and its votes, which may be of two moments. A `GetPoll` that began
before a deletion fills the key behind it, and the deleted poll is answered until the
key expires (`cached_service.go:81` of the poll service): lists have versions against
this, single polls have not, which is why `AnswersShowChanges` leaves `GetPoll` out.
What holds for the one key is `PollOutdatedOnlyByOverlap`. Its history variables record
what the code does not know: `across`, whether what a call has read changed since, and
`suspect`, whether the value under the key was stored across a change or behind the drop
of a vote that is not committed, or a drop, a store or the reading back of a change
failed. Without these, the key holds the poll or what the last change is about to
replace, and a hit shows all answered changes.

### AnalyticsCache

The key of the whole analytics and one for each section. A request reads its tables
statement by statement and fills its key; the consumer deletes the keys one by one
after the commit of each event, and stops at the first delete that fails. A table
stands for the number of events counted in it.

### SessionLedger and UserSessions

A session is named by the request that issues it, and a refresh token by its
session. `Login` (and the session of `Register`) is one INSERT; `RefreshToken` is
a read outside of a transaction (`GetByTokenHash`), the conditional UPDATE inside
(`RevokeByID`, which waits for a row that another transaction holds and fails if
it then finds it revoked), and the INSERT with the COMMIT (`IssueTokens`);
`Logout` is the same UPDATE alone. `LogoutAll` revokes the rows its statement saw
at its start: a session that an overlapping `RefreshToken` issues is not among
them, which `LogoutAllHolds` leaves open. `SessionLedger` says that every session
is issued once, by a login or in exchange for a live one, and ends once.

### ServiceRun

One process of one of the six services with one environment. `TakeStep` and
`FailStep` go through the steps of its `main` in order (`StartUser`, `StartVote`,
...), `Refuses` is what each `Load` and constructor rejects, `open` the stack of
deferred closes. `BeginDrain`, `EndDrain`, `WaitForWorker`, `EndWaits`, `CloseLast`,
`Return` are the stop with its three time limits; `Signal`, `Kill` and `ServeFails`
the ways to begin or to skip it. Requests, relay and consumer are reduced to what
they hold of the pool, the context and the publisher.

### BrowserSession

The tabs of one browser and one account. A request has a stage (`sent`, `answered`,
`refreshing`, `exchanged`, ...), a message on the network is the stage that waits
for it. `AskRefresh`, `Resend`, `GiveUp` and `Finish` are `ApiClient.request`;
`SetTokens`, `SetMe` and `ClearSession` the updates of `AuthContext.tsx`, which React
runs at once (`RunNow`) or when it renders (`RunAtRender`) and which write
`localStorage` when they run; `Call` starts a request of any kind in any tab.
The server side is `Login`, `RegisterChecks`, `RegisterCreates`, `Refuse` (the
interceptor, which knows nothing of revoked sessions), `Exchange` and the methods
themselves; `Login` may refuse an account that exists (a wrong password). `disturbed`
collects what makes a browser less than calm.

A browser can lose a session that is alive. `LiveSessionDropped` says how, as long as the
network and React behave: by a logout, by a refresh that came second for a token that was
exchanged meanwhile and clears what the first one stored (`CameSecond`; `client.ts:160`),
or by a tab that shows no session and sets its user beside none (`ShowsNone`;
`AuthContext.tsx:63`). Each of the three occurs in the run; no other way does.

### PollPage

The page of one poll: its load (poll, then the reader's vote), the optimistic vote
and its revert. `SetPollLive` is the chain that is easy to miss: a click changes the
shared state, `mergePoll` is made anew, the effect that depends on it
loads the page again, beside the request. Loads are numbered; the cleanup of the effect
makes all but the last inactive (`Active`).

Reading it this closely shows three things that the properties therefore do not
claim. The reload runs beside the vote request and nothing reloads the page when that
is saved, so the page may go on showing the old vote. An optimistic switch
lowers a count without a clamp (`PollPage.tsx:121`) and may show -1. The refresh of
the statistics after a removal stops at its first tick, since the stale total is
already as large as it waits for (`PollPage.tsx:220`).

## 3. The runs

State counts are of distinct states; every run takes less than two minutes with two
workers.

| run | bounds | states | what it shows |
|---|---|---|---|
| `vote_requests` | 1 user, a single choice and a multiple choice poll, 2 options; 2 `Vote`, 1 `RemoveVote`, 1 `GetUserVote` | 231,432 | one selection, whole removals and reads, events against rows, the refinement of `VoteLedger`, and that every request ends |
| `pipeline` | 2 transactions, 3 events in 2 partitions, batches of 2, any 2 faults | 405,625 | one effect per event, nothing lost, order within a partition, the refinement of `EventDelivery`, and that every event takes effect unless the consumer stopped |
| `counters` | 2 voters of two groups, 2 options, 3 requests, both poll types | 2,609,802 | what is true of the counters out of order, and what is exact in order |
| `feed` | 1 voter, 2 options, 3 requests, 1 update | 813,778 | pending votes, item counts, content, deletion; a created poll is listed unless the consumer stopped |
| `feed_stopped` | 1 request, 1 update | violation | an update consumed before the creation stops the consumer for good |
| `read_caches` | polls: 3 calls, 1 vote event, 1 fault of Redis; analytics: 2 readers, 1 section, 2 events, 1 fault | 6,679,956 | lists show answered changes; an outdated poll or outdated analytics only by an overlap or a fault |
| `requests` | sessions: 2 users, 2 logins, 2 refreshes, 1 logout, 1 logout of all; updates: 3 requests of 5 kinds, 2 tags, 1 vote event; forms: one that creates, one that edits, 2 submits each, 1 fault | 2,491,016 | one successor of a session, logouts that hold, the refinement of `SessionLedger`; what the events of updates show, whose tags a poll has, what a deadlock needs; pictures, duplicates and what a page says of a save |
| `pages` | feed: 3 items of 2 creators, 1 reader, 2 viewers, limits 1 and 2, 2 changes beside the reads; list: 3 polls, 1 tag, limits 1 and 2, 2 ticks, 2 changes | 5,661,987 | steady items and polls once, at most one item missed per page of the fair feed |
| `feed_next_page` | the same without changes | violation | the second page of the fair feed cannot be asked for |
| `service_run` | each of 6 services with all its settings, each of them missing or malformed; 1 request, 2 starts, 2 faults | 264,576 | nothing used after its close, requests answered, signals obeyed, outboxes published |
| `front_end` | 2 tabs, 2 requests, 3 sessions, 1 lost message; a poll of 2 options, 2 clicks | 890,960 | effects once, a calm browser's session, one tab's storage, what drops a live session, the vote a page shows |
| `edit_form_tags` | as `requests`, the forms alone | violation | an author cannot remove the last tag, and the page says it is done |

Why these bounds are enough. The users of one poll do not interact in the vote
service (every lock and row is of one user and poll), so one user with a request
too many is the whole contention; two `Vote` and one `RemoveVote` reach every
overlap of a waiting statement with two others. Two options tell a whole
selection from a part of it. In the pipeline two transactions can overlap or not,
three events fill more than a batch, and a partition shared by two of them tells
order and duplicates apart; two faults allow a fault during the recovery from
another, and the theorems about the safety of the pipeline are for any number.
Three requests let a counter go up, down and up with both
events of a change in either order. Three overlapping transactions are what a ring of
waiters with one bystander, or two updates with a deletion between them, needs; the
five kinds are the update of the question, by the creator and by another user, of the
question and a tag, of both tags, and the deletion. The transactions of a poll are alike, so
each is named by its turn to begin, and the one of somebody else, which
changes nothing, is only let be the first. A form is submitted twice, once more than a
user means to; the four ways to fill it in leave out the picture, the tags, the question
or all of them. Three polls make pages of one and a page and a half of two, two ticks of the clock
that `created_at` does not tell apart make two polls of one time, and of two
changes one moves a poll away and another takes the tag that was asked for. Three items do the same for the feed, and two changes move an item out of one page and another
into the next; that changes happen only while somebody is paging loses nothing,
since the initial states have what such a change leads to. Two refreshes race for one
token, or one exchanges what the other was given; two sessions of a user are what a
logout of all may find half held. A second start is enough to find what the
first process left. Three sessions allow an exchange of what an exchange issued;
two tabs with a request each are what one must not notice of the other. Two clicks
are a click while the answer of another is on its way.

All runs but `vote_requests` (whose end is the action `Quiescent`) and `pipeline`
(which can always flush offsets) set `CHECK_DEADLOCK FALSE`: all requests are served,
all events consumed and all clicks made in the end, and then nothing is left to do.

### Fairness

- `VoteService`: weak fairness of each request's `Progress`. The goroutine goes on
  and the database grants a free lock to a waiter. Nobody has to call, and nothing
  has to roll back.
- `EventPipeline`: weak fairness of the relay as a whole (a ticker loop that never
  ends while the process runs) and of the consumer's fetching and handling (a loop). No
  transaction has to commit, no offset has to be flushed, nothing has to restart.
- `FeedProjection` (stated in `MCFeedProjection`): weak fairness of each topic's handler. The reader fetches each
  partition in a goroutine of its own and passes messages on through one channel,
  so no partition starves another. `Restart` is not fair: it takes a person.
- `ServiceRun`: weak fairness of the start (Docker's restart policy), of `main`, of
  each handler, of the relay, and of the end of a message's handling: the Go
  scheduler runs each goroutine, every timer ends, and the database answers or
  gives up. No request, signal, kill or fault has to happen, and no message has to be
  there to fetch.

### Findings

Each is a run with one property, quoted from a test or from a page.

1. `feed_stopped`: `UpdateFeedItem` of a poll not yet in the feed inserts its tags,
   violates the foreign key, and the error ends the consumer of all five topics. The
   end-to-end test expects that the "feed contains created poll" eventually; it
   polls an idle system and does not meet this order.
2. `feed_next_page`: `GetDiscoveryFeed` passes four arguments for the three parameters
   of its cursor, so that PostgreSQL refuses the second page of a fair feed that
   showed a discovery item, and a cursor without a chronological part is dereferenced
   as nil. The unit test expects a fair cursor from the first page; no test uses it.
3. `edit_form_tags`: the editing page lets an author remove every tag and then says that
   the poll is updated. A repeated field without elements does not travel over gRPC, the
   handler takes it for tags that are not provided, and the poll keeps those it had.

What the other runs show to be merely weaker than one may think is stated in their
properties: `RemovalWholeOrLost` (a removal may be lost whole), `CaughtUp` (exact only
when nothing was lost or came late; groups only for single choice and stable profiles),
`CountsAddUp` (a counter may be too high, and a statistic -1), `AppliedInOrder` (only
for transactions that did not overlap, and events the relay did not give up on),
`ItemShowsPoll` (not for what is consumed before the creation: of an update see finding
1; a deletion then finds no row to delete, and the creation inserts an item of the
deleted poll that nothing removes, while `e2e_test.go:615`, which waits for the listing
first, expects that the "feed no longer contains deleted poll"), `EventsShowPoll` and
`UpdatesAreKept` (only for updates that wait for each other, or run alone: one of the
question and one of the tags that overlap do publish a poll that never was),
`PollOutdatedOnlyByOverlap` (an overlap or a fault does leave an outdated key, a deleted
poll's too, until it expires), `SteadyItemsShown` (the fair feed does miss one item a
page), `CalmBrowserHoldsItsSession` (a logout with an expired token leaves the session
of its refresh alive; a stale tab, a second login, a lost answer, a fresh token that
expires and updates that React defers are excluded, since each may leave a session
without an owner or a browser without a live session), `OneTabStoresLive` (another tab
may put exchanged tokens back), `LiveSessionDropped` (a session that is alive is lost in
the three ways it names; lost answers are excluded), `UsedWhileOpen` (unless a timer of
the stop ended).

## 4. The proofs

Eight modules hold the proofs, for any values of the constants: any users, polls,
options, requests, events, partitions, tabs, sections, tags, forms, processes, feed items, readers
and limits, and any bounds on faults, starts, submits, clicks, changes and sessions. `theorems` in
`PROJECT.json` lists the results: all the safety properties that the passing runs check are
theorems, the refinements included, and only liveness is left to TLC. The only
assumptions are the named ones:

| assumption | what it says, and why |
|---|---|
| `VoteAssumption` | the kinds of request are disjoint, `None` is no request, options are finite and each poll has its own |
| `PipelineAssumption` | each event has a transaction and a partition, `None` is no event |
| `CountersAssumption` | the options are finite (a poll is created with a list of them), every user has a first group, `None` is neither a group nor a number |
| `FeedAssumption` (`FeedConstants`) | the options are finite, `None` is not an item |
| `SessionsAssumption` | the kinds of request are disjoint |
| `RequestsAssumption` (`UpdatesAssumption`, `FormsAssumption`) | finitely many updates, whose names are not those of the consumer and of the initial question; tags are numbered by the order of their names; an update changes something (`UpdatePoll` refuses others). Forms that create are not forms that edit; a poll that a form creates is none there was; questions are not blank |
| `CacheAssumption` | finitely many calls; the answer that there is no poll is not a poll |
| `SectionsAreNames` | the sections of the analytics are a sequence |
| `BrowserAssumption` | there is a tab, and a session to be issued |
| `RunAssumption` | the services are the six |
| `ListsAssumption` | polls are numbers (ids only have to be ordered) and finitely many; the default and the greatest limit are positive, the one not above the other; a tick of the clock may be less than a microsecond, a microsecond is at least one; `None` is no cursor |
| `PagesAssumption` | the default limit lies between one and the greatest (`normalizedListLimit`), slots and the exposure target are positive (`FeedRankingConfig.normalized`), viewers are finitely many, `NoCursor` is no cursor |

*Vote service* (`IInv`). `OneSelection`, the goal, says that the
rows of a key are of one `Vote`. To keep it, `ReplaceUserVote` must delete every
row there is, so its DELETE's snapshot must still be the table (`HeldIsCurrent`).
That holds because no other `Vote` of the key can commit (`LockHeld`: each owns
the advisory lock past its first stage) and no `RemoveVote` can, either: rows a
`Vote` read are locked by it, and a `RemoveVote` deletes only rows whose locks it
waited for. A `RemoveVote` does not hold the advisory lock, so what it
knows is weaker: its snapshot is whole or entirely gone (`SnapshotWholeOrGone`),
because the rows of a snapshot are of one `Vote` and go together; and a `Vote`
that has not committed has no rows in any table or snapshot (`FreshRows`), so a
new row is never mistaken for an old one. `Validated` carries
`SingleChoiceHonoured` from the check to the commit. `DiffIsCurrent`,
`RemovalWholeOrLost` and `ReadsWholeSelection` follow from the invariant. The
refinement maps a commit of `ReplaceUserVote` to `Change`, a commit of
`DeleteUserVote` to `Remove` if the SELECT saw the rows and to `LoseRemoval` if
it did not, and all else to a stutter; `IInv` is what makes the reported
difference the real one.

`EventsMatchVotes` adds one thing to `IInv`: a request that is not done has reported
nothing (`ReportsOnce`), so an event of a commit is new and counts once. The commit
of a `Vote` then moves the sum of the events of each option by as much as the row,
because the difference it reports is the real one; a `RemoveVote` whose snapshot was gone
moves neither down, which is why the sum is only a bound while one has begun.

*Pipeline* (`PipelineInv`). The effect of an event and its row of
`processed_events` are of one transaction, hence `EffectOnce`. A committed offset
covers handled messages only (`CommittedAreProcessed`) because what is stashed does,
and that because the reader is ahead of the handler by the message in hand alone
(`HandledUpTo`), which survives a rebalance under a running handler since
positions are then set back to a covered offset. `OnlyCommitted` ties rows and
partitions: what was published is in its partition and belongs to a committed
transaction. `NoLostEvent` follows: an event marked as published is in its partition,
there either beyond the committed offset or covered by it and so processed. The
refinement maps a commit to `Commit`, a handler's first commit of an event to
`Apply`. The order of effects (`OrderInv`) needs three facts in a row: of two
transactions of which one had committed before the other began the first has the
smaller `created_at` (`EarlierIsOlder`), so its event comes into a batch no later; and
every copy of the later event in its partition lies behind a copy of the earlier one
(`RelayedInOrder`), whatever the relay marks, forgets or publishes twice. The consumer
handles what is in front first.

*Vote counters* (`CountersInv`). The hard part is the ledger: that the events add up to
the selections (`EventsAddUp`), as a number per option, in all, and per group. No sum
is computed by induction; what is counted is the cardinality of sets of events,
and a removal is matched with the cast it takes back. That such a cast exists and is
not taken back twice is `VotesAreCast` with `OneKnowsTheOther`: requests of one
ledger are serial, so of two events one was there before the other, and of the events
that one knows, a vote was cast by the last that touched it. A consumer that has no
removal before its cast (`InTime`) thus has an injection from its removals
into its casts, hence no negative number, and its counters are exactly
what it consumed (`ExactInOrder`); one that has may only count too many
(`NeverUndercounts`), since the clamp at zero of the poll service adds, and the
statistics of the analytics lack the row they would lower.

*Feed projection* (`FeedInv`). `LedgerCore` of the counters is the half about
votes, and `InTime` again what makes counts exact. The other half relates what waits in the
partitions to the poll and the item: each vote waits in its topic once and is not yet
counted (`VotesWait`); a poll is created at most once and the last update that waits is the
poll as it is (`PollWaits`); there is an item as soon as the creation is consumed, and
while nothing overtook it the item, or the creation that waits, is the poll as it was
before the updates that wait (`ItemInv`). Votes without an item are pending, to the last
one, since a handler adds to the item if it is there and to the pending votes if it
is not, and the creation moves all of them (`EarlyVotesKept`).

*Sessions* (`SessionsInv`). Its heart is `HeldIsLive`: the session
that a `RefreshToken` has revoked and not committed is still live for everybody else,
and nobody else is about to exchange it. So an exchange takes a session that is
live at its commit, which makes it `Exchange` of the ledger and rules out a second
successor (`OneSuccessor`), an exchange of what a `Logout` ended
(`LogoutEndsChain`) or of what a `LogoutAll` saw (`LogoutAllHolds`).
`StagesOfKinds` says that a session exists once its request is done, so the one
about to be issued is new.

*Updates of a poll* (`UpdatesInv`, `VictimsInv`). What a transaction holds, has found,
removed, lacks and added at each statement is `TxOk`; all else says how those of two
transactions are related. `BegunInv`: two that are open beside each other have met.
`Exclusive`: whoever updated or will delete the row of the poll holds it alone.
`EventInv`: while nothing overlapped a transaction, or only such as had to wait for that
row, what it read for its event is the poll as its commit will leave it; an update of
tags alone does not hold the row, and there the event may show a poll that never was.
`LockedLives`: the row is there while somebody has locked it, so whoever commits beside
a lock commits tags of a poll that lives. `FoundInv`: of the rows of tags a DELETE did
not see, each is of a transaction it met. `LocksOk` and `Apart` say which rows one keeps
from another: rows go in their order, an INSERT comes only when all rows that were found
are gone, and two transactions have neither removed nor inserted the same one. From
these follows that two updates do not wait for each other: if both remove, the one that
has come further waits for nobody; if one inserts, the other can neither hold what it
inserts nor wait for what it removed. Three can (the comment of `DeadlockNeedsDelete`
has the steps), and so can a deletion, which comes from the poll's row to its tags while
updates of tags come from the tags to the row. A step of one transaction on its own is
the subject of one lemma (`Local`), so that each statement is proved against itself
only; the two commits, the beginning and the abort have one each. The least and the
greatest number of a finite set, which the order of the statements uses, are proved from
the well-foundedness of the numbers.

*Forms of polls* (`FormsCore`). The state of the page, what it has sent and what comes
back belong together: a submit that is not sent yet has left no trace (`UnsentInv`), a
request on its way is of a submit the page has come to, has not been handled, and shows
what the page shows while it waits (`CallsInv`), and an answer is for the
submit that waits for it (`AnswersInv`). Pictures are stored before a request names
them (`ImagesInv`). A page that heard of success, or will, has its submit in
the poll's log, and if that is the last there, the poll shows it (`ShownInv`). Of the
polls that a form has made or may still make, all but the one it hears of have
cost a fault (`FaultsInv`).

*Poll cache* (`PollCacheInv`). `AnswersShowChanges` needs to know what a version is
worth: `ListsByVersion` says that whatever is there for the *present* version, under its
key or read and about to be stored, shows what is confirmed, and that whatever is there
for the version a list goes by shows what is due to that list. A change is confirmed in
the step that increments the version, and nothing is there for a version that is still
to come. `VersionBound` counts the increments against the changes that are done and the
votes that were handled, so that every version has its key. For the key of the poll
(`KeyInv`) the argument is about what was read: a call that nothing overtook has read
the poll as it is (`ReadsCurrent`), or, between its two statements, its present content.
So what it stores is current unless `across` says otherwise, or a vote has dropped the
key and not committed. What is there when a change commits is outdated from then on, but
that change has the last revision and is still to come to the key (`ToReplace`); an
answered change has been there, which gives `Shows`.

*Analytics cache* (`CacheInv`). A key is right for the same reason as the read that
fills it: what a request has read is what the tables hold unless an event was
committed since its first statement (`ReadIsCurrent`). The consumer takes no event
before it has deleted all keys of the last.

*Start and stop* (`RunInv`, `OpenInv`). Who waits for an answer is being handled, and while
somebody is, `main` has not come past the drain unless a timer ended
(`WaitingAreHandled`); so of all the ways out of `main` none leaves a request behind but
those `AnsweredUnlessKilled` names. `UsedWhileOpen` needs the order of the steps in each
`main`: what was opened stays open until `main` closes (`Opened`), a worker runs
only from its own step on, behind the steps that open what it uses (`Started`), and
nothing runs any more when `main` has waited for it, unless a timer ended (`Drained`). That the six
sequences of steps are of this shape is a lemma over the table of the services.

*Browser* (`BrowserInv`). A request that has taken effect is answered, and not with the
refusal that alone makes the client send it again; if it registered, the account is
there, which the INSERT of any other then meets. `TypeOK` is part of it. For the browser
that nothing disturbs (`CalmInv`), one request at a time began with the tokens that are
both in `localStorage` and in its tab (`Calm`); live are only that session, what a
logout left and what was issued for the request, and the session it holds is no longer
live only while the request that exchanged or ended it is under way (`Spent`). For one
tab whose requests may overlap, expire and get lost (`SoloInv`), the state of that tab
is what `localStorage` holds, a session that was issued and is not stored yet is live
and known to nobody but the request it was issued for (`SecretOk`), and tokens that
somebody knows are of sessions that were issued before (`KnownOk`); so what an answer
brings is live when it is stored. How a live session is dropped (`QuietInv`) is about
the order of one request's steps, for any others beside it: over a network that loses
nothing a request that is sent again bears a token that was just issued and is not
refused again, an exchange fails only for a session that is revoked, and a user is
refused only before a refresh. What is left that clears `localStorage` are the three
ways (`LiveSessionDropped`).

*Poll page* (`PageInv`). No load has a larger number than the page, and a load with the
page's number brings what was stored since it began; what a click puts there
meanwhile is only shown when it is loaded.

*List of polls* (`ListsInv`). The cursor is a line through the list: what was shown lies above it
(`ShownSoFar`), the rows that were read and not shown yet lie beyond it (`RowsRead`), and a poll that
stays has been shown, is among those rows, or lies beyond the last of them while there is more
(`SteadyReached`). So the next cursor, the last of the rows, again has everything that was shown
above it, and a page without more has left nothing. A poll that is committed above the cursor is
never shown, and nothing here says it is: it was not there when the walk began. That options are read
after their polls only matters for polls that were changed, hence `changed`.

*Pages of the feed* (`PagesInv`). The same line, for five lists, with a cache between. `ListRead`
says of a reader what it has been shown: of the steady items exactly those its cursor has passed,
each once; in the lists by time, whose keys never change, no item at all twice. `PageShows` says of a page what it
is: the items between its cursor and the next, of those steady since it was read. It holds for a page
that was just read and for one under a key of the cache alike, however old (`CachedInv`), since an
item that leaves its place is no longer steady for either; that the cursor is part of the key is what lets
a reader go on from a page that somebody else had read. What happens beside the readers only takes items
from the steady ones (`ReaderStays`, `CachedStays`). The fair feed needs one thing more: a steady item only
leaves discovery, by its age or by being seen, and never comes back into it (`ItemsAge`).

`FairRead` is the fair feed: a page lists what is eligible and what comes next by time, so all that
was not shown and lies above the chronological cursor was consumed and cut off, and a page cuts off
one item at most. A reader comes to a second page only if its first had nothing to discover
(finding 2), which is why its steady items are not eligible then (`aged`). The merge is a loop
over slots (`Merge`, a recursive function of the slot's number): `MergedUpTo` is its invariant, and
an induction over the slots, stated of the set of numbers for which it holds and proved from the
well-foundedness of the numbers, carries it to the last. A slot adds an item unless its list is used
up (`Took`), a round adds the share of each list (`Share`), so `limit + 1` rounds leave the page full
or both lists consumed. ORDER BY needs no induction at all: an item's place is the number of
those before it, and counting makes places and items correspond (`OrderedProperties`).
What a page is then, `FairPageIsFair`, concerns one merge alone; it is proved and not a property of a run.

Only model-checked: liveness, which this prover does not do: `EveryRequestEnds`,
`EveryEventApplied`, `EventuallyListed`, `EndsOnSignal`, `LeftoversPublished`.

The type invariant is proved for each module that has proofs, by itself (`VoteService`,
`EventPipeline`, `VoteCounters`, `UserSessions`, `BrowserSession`) or as a part of the inductive invariant
(`PagesInv` has the types of items, requests, pages and entries of the cache, which is what its proof
uses of the `TypeOK` of `FeedPages`); the runs spend their properties on other things.

## 5. Abstractions

- In `VoteService` the row locks of one statement are taken at once; PostgreSQL takes
  them one by one (`PollUpdates` does, too), and two statements over the same rows (of one user) could deadlock only
  if they visited them in different orders, in which case one is rolled back,
  which `Rollback` covers.
- `hashtext` may give two keys one advisory lock. This only makes more requests
  wait for each other.
- The voter's profile and the time in an event are left out of `VoteService`;
  `VoteCounters` has the profile's group. The bucket of an age changes with the
  year, one of the ways in which the group of a removal differs from its cast's.
- The Kafka writer's own retries are a message appended twice, next to each
  other (the writer waits for the acknowledgement of one message before the relay
  goes on). One member consumes for a group, which is how the services are deployed.
- `VoteCounters` and `FeedProjection` start from "each event once", which is
  `EventDelivery`; a handler that fails is in `EventPipeline` and, where the
  projection itself causes the failure, in `FeedProjection`.
- `polls.total_votes` is modelled, though the API answers with the sum of the options.
- `PollUpdates` shows the feed the events in the order of `created_at`, at once;
  what the pipeline does to that order is in `EventPipeline`.
- In `FeedPages` an item is its place in time; the ranking of trending is the vote
  count its query orders by. Options, tags and authors of a page are read later
  and only their failure matters.
- Redis does not restart or evict; a lost value is like an expired
  one. A restart that reset the version counter could revive an old page within
  its time to live.
- In `ServiceRun` an environment is good, unset or malformed in one setting. A malformed
  duration or number falls back to its default and is left out.
- `PollForms` takes a save and the reading back that follows it for one step: a poll that somebody
  deletes between the two, whose author then sees an error, is left out. `PollLists` has no
  cache of versioned pages before it; `PollCache` has it, over one poll.
- In `PollPage` the click, the render and the effect that begins the load are one step
  (`SetPollLive`): the one frame that is painted between them shows the optimistic vote
  and not yet the sign that the page loads.
- In `BrowserSession` a token is the session it names; signatures and hashes are left
  out. The person has one e-mail address. A tab reloads only when nothing of it is on
  its way.

## 6. Not modelled

- The pages of the front end other than the poll's, the login's and the two with the forms of
  polls: they load once and show what they got. Of the poll page the counts, the statistics and the author.
- Public profiles, counts of followers and user summaries: single statements that
  read.
- The gateway's translation, CORS and headers, and the mappers of the gRPC handlers:
  stateless conversions. Their start and stop are in `ServiceRun`.
- Signing of upload URLs (no state of this system), JWT signatures and password
  hashes.
- The list of tags and `CreateTag`: the list works like the list of polls, the creation
  is one insert.
- Generated code, logging, metrics, deployment files and load tests. `docker-compose.yml`
  is where the restart policy and the number of consumers come from.
