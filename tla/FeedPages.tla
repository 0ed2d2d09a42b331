------------------------------ MODULE FeedPages -----------------------------
(***************************************************************************)
(* The pages of the feed service: a reader asks for page after page, with  *)
(* the cursor of the last one, while the consumer adds, changes and deletes *)
(* feed items, viewers are counted and polls grow old.                     *)
(*                                                                         *)
(* Each page is one SELECT in READ COMMITTED, the fair feed two of them,   *)
(* merged.  An item is a number: the larger, the later in (created_at, id). *)
(*                                                                         *)
(* All lists but the fair feed are read through a cache in Redis, a key    *)
(* for each query and cursor.  The consumer flushes it after each event it *)
(* has handled, impressions flush the keys of the feed.  A page that was   *)
(* read before may be stored after a flush, and lives on until it expires. *)
(***************************************************************************)
EXTENDS Integers, FiniteSets, Sequences, Functions, FiniteSetsExt, SequencesExt

CONSTANTS
  N,                   \* the feed items are 1 .. N
  Creator,             \* [1 .. N -> users]
  Viewers,             \* the viewer keys of impressions, users among them
  Readers,
  Limits,              \* the limits readers ask for, 0 for none
  DefaultLimit, MaxLimit,
  DiscoverySlots, ChronologicalSlots, ExposureTarget,
  MaxChanges,          \* how many changes happen beside the reads
  NotYet, Deleted,     \* no row
  NoCursor             \* of the first page

ASSUME PagesAssumption ==
  /\ N \in Nat /\ MaxChanges \in Nat /\ Limits \subseteq Nat
  /\ DefaultLimit \in 1 .. MaxLimit /\ MaxLimit \in Nat
  /\ DiscoverySlots \in Nat \ {0} /\ ChronologicalSlots \in Nat \ {0}
  /\ ExposureTarget \in Nat \ {0}
  /\ IsFiniteSet(Viewers)
  /\ NoCursor \notin [votes : Nat, item : Nat] \cup [discovery : Nat, chron : Nat]

VARIABLES
  row,        \* feed_items with feed_item_tags and feed_item_impressions
  horizon,    \* the items up to it are older than ExposureMaxAge
  following,  \* the creators the readers follow, the last followed first
  cache,      \* [the keys that are set -> the page under it]
  flushes,    \* the flushes that are still to be done
  reader,     \* the requests of each reader, page after page
  steady,     \* [Readers -> items it must not miss] (history)
  since,      \* [Readers -> items that are steady since its page was read] (history)
  changes

envVars == <<row, horizon, following, changes>>
cacheVars == <<cache, flushes>>
vars == <<envVars, cacheVars, reader, steady, since>>

Items == 1 .. N
Creators == {Creator[i] : i \in Items}
Row == [votes : Nat, tagged : BOOLEAN, viewers : SUBSET Viewers, impressions : Nat]
Listed == {i \in Items : row[i] \notin {NotYet, Deleted}}

Kinds == {"feed", "trending", "user", "following", "fair"}
\* Only the feed and the fair feed can be asked for by tags.
Query == {q \in [kind : Kinds, tagsOnly : BOOLEAN, limit : Nat] :
            q.tagsOnly => q.kind \in {"feed", "fair"}}

\* normalizedListLimit.
ListLimit(limit) ==
  IF limit = 0 THEN DefaultLimit ELSE IF limit > MaxLimit THEN MaxLimit ELSE limit

\* The items the WHERE of a query selects, its cursor aside.  The polls of
\* "user" are those of the creator of item 1.
Matching(q) ==
  {i \in Listed :
     /\ q.tagsOnly => row[i].tagged
     /\ q.kind = "user" => Creator[i] = Creator[1]
     /\ q.kind = "following" => Creator[i] \in ToSet(following)}

\* What ORDER BY and the cursors compare, the larger first: (created_at, id),
\* after total_votes in the trending list.
Key(kind, i) == [votes |-> IF kind = "trending" THEN row[i].votes ELSE 0, item |-> i]
Below(a, b) == a.votes < b.votes \/ (a.votes = b.votes /\ a.item < b.item)

\* The items beyond the cursor.
After(q, cursor) ==
  {i \in Matching(q) : cursor = NoCursor \/ Below(Key(q.kind, i), cursor)}

FirstOf(s, n) == SubSeq(s, 1, Min({n, Len(s)}))

\* ORDER BY: before[i] are the items of S that come before i.
Ordered(S, before) ==
  [n \in 1 .. Cardinality(S) |-> CHOOSE i \in S : Cardinality(before[i]) = n - 1]

\* GetFeed, GetTrending, GetUserPolls, GetFollowingFeed of the repository.
Select(q, cursor, n) ==
  LET found == After(q, cursor)
      before == [i \in found |-> {j \in found : Below(Key(q.kind, i), Key(q.kind, j))}]
  IN FirstOf(Ordered(found, before), n)

\* Young items few have seen.
Eligible(q) == {i \in Matching(q) : row[i].impressions < ExposureTarget /\ i > horizon}

\* GetDiscoveryFeed without a cursor: the least seen first.
SelectDiscovery(q, n) ==
  LET before == [i \in Eligible(q) |->
        {j \in Eligible(q) : \/ row[j].impressions < row[i].impressions
                             \/ (row[j].impressions = row[i].impressions /\ j > i)}]
  IN FirstOf(Ordered(Eligible(q), before), n)

-----------------------------------------------------------------------------
\* discoveryFetchLimit: the share of discovery in a page, rounded up, and one.
DiscoveryFetchLimit(limit) ==
  LET ratio == DiscoverySlots + ChronologicalSlots
      need == (limit * DiscoverySlots + ratio - 1) \div ratio
  IN Max({need, 1}) + 1

\* The lists a page is filled from, slot after slot, round after round.
Round == [s \in 1 .. DiscoverySlots + ChronologicalSlots |->
            IF s <= DiscoverySlots THEN "d" ELSE "c"]

\* The next item of the list that is not on the page; those that are, are
\* consumed on the way.
Take(m, list, from) ==
  LET fresh == {k \in m[from] + 1 .. Len(list) : list[k] \notin ToSet(m.out)}
  IN IF fresh = {} THEN [m EXCEPT ![from] = Len(list)]
     ELSE [m EXCEPT ![from] = Min(fresh), !.out = Append(@, list[Min(fresh)])]

\* A slot of the page is filled, unless that has one item more than it holds.
Fill(m, slot, discovery, chron, limit) ==
  IF Len(m.out) > limit THEN m
  ELSE IF Round[1 + (slot % Len(Round))] = "d" THEN Take(m, discovery, "d")
  ELSE Take(m, chron, "c")

\* mergeFairFeedItems up to the cut.  A round that adds nothing leaves both
\* lists consumed, further ones change nothing.
Merge(discovery, chron, limit) ==
  LET slots == (limit + 1) * Len(Round)
      upTo[s \in 0 .. slots] ==
        IF s = 0 THEN [out |-> <<>>, d |-> 0, c |-> 0]
        ELSE Fill(upTo[s - 1], s - 1, discovery, chron, limit)
  IN upTo[slots]

Part(list, n) == IF n > 0 THEN list[n] ELSE 0

\* Its result: the page, cut to the limit, and the cursor, of the last items
\* that were consumed; 0 for no part.
FairPage(discovery, chron, limit) ==
  LET m == Merge(discovery, chron, limit)
  IN [items |-> FirstOf(m.out, limit),
      more |-> \/ Len(m.out) > limit \/ m.d < Len(discovery) \/ m.c < Len(chron),
      cursor |-> [discovery |-> Part(discovery, m.d), chron |-> Part(chron, m.c)]]

-----------------------------------------------------------------------------
Idle == [stage |-> "idle", query |-> [kind |-> "feed", tagsOnly |-> FALSE, limit |-> 0],
         cursor |-> NoCursor, follows |-> <<>>, discovery |-> <<>>, chron |-> <<>>, page |-> <<>>,
         next |-> NoCursor, more |-> FALSE, shown |-> <<>>, pages |-> 0]

Init ==
  /\ row \in [Items -> {NotYet} \cup
       [votes : {0, 1}, tagged : {TRUE}, viewers : {{}}, impressions : {0}]]
  /\ horizon \in {0, 1} \cap 0 .. N
  /\ following = SetToSeq(Creators)
  /\ cache = <<>> /\ flushes = {}
  /\ reader = [r \in Readers |-> Idle]
  /\ steady = [r \in Readers |-> {}]
  /\ since = [r \in Readers |-> {}]
  /\ changes = 0

-----------------------------------------------------------------------------
\* What goes on beside the reads.  An item is steady for a reader as long as
\* it is selected by the reader's query, with the same key.  Two bounds: the
\* number of changes, and that none happens while nobody is paging; the initial
\* states have what such a change leads to.
Change(newRow) ==
  /\ changes < MaxChanges
  /\ \E r \in Readers : reader[r].stage \notin {"idle", "done", "rejected"}
  /\ changes' = changes + 1
  /\ row' = newRow

Staying(items, q) ==
  {i \in items : i \in Matching(q)' /\ Key(q.kind, i)' = Key(q.kind, i)}

Steadily ==
  /\ steady' = [r \in Readers |-> Staying(steady[r], reader[r].query)]
  /\ since' = [r \in Readers |-> Staying(since[r], reader[r].query)]
  /\ cache' = [k \in DOMAIN cache |->
                 [cache[k] EXCEPT !.steady = Staying(@, k.query)]]

\* An event was handled; the consumer takes none before it has flushed.
Process == "all" \notin flushes /\ flushes' = flushes \cup {"all"}

\* The handlers of the consumer: FeedProjection has their detail.
HandlePollCreated(i) ==
  /\ row[i] = NotYet
  /\ \E pending \in 0 .. 1 :
       Change([row EXCEPT ![i] = [votes |-> pending, tagged |-> TRUE,
                                  viewers |-> {}, impressions |-> 0]])
  /\ Process
  /\ UNCHANGED <<horizon, following, reader>>
  /\ Steadily

HandlePollUpdated(i) ==
  /\ i \in Listed
  /\ Change([row EXCEPT ![i].tagged = ~ @])
  /\ Process
  /\ UNCHANGED <<horizon, following, reader>>
  /\ Steadily

HandlePollDeleted(i) ==
  /\ i \in Listed
  /\ Change([row EXCEPT ![i] = Deleted])
  /\ Process
  /\ UNCHANGED <<horizon, following, reader>>
  /\ Steadily

HandleVotes(i) ==
  /\ i \in Listed
  /\ \E d \in {-1, 1} :
       Change([row EXCEPT ![i].votes = IF @ + d < 0 THEN 0 ELSE @ + d])
  /\ Process
  /\ UNCHANGED <<horizon, following, reader>>
  /\ Steadily

\* A row of feed_item_impressions, and the count if it was inserted.
Seen(i, viewer) ==
  IF viewer \in row[i].viewers THEN row[i]
  ELSE [row[i] EXCEPT !.viewers = @ \cup {viewer}, !.impressions = @ + 1]

\* One statement: the listed items of the request that are not the viewer's
\* own.  If it recorded any, the pages of the feed are flushed.
RecordFeedImpressions(viewer, ids) ==
  /\ Change([i \in Items |-> IF i \in ids \cap Listed /\ Creator[i] # viewer
                             THEN Seen(i, viewer) ELSE row[i]])
  /\ flushes' = IF row' # row THEN flushes \cup {"feed"} ELSE flushes
  /\ UNCHANGED <<horizon, following, reader>>
  /\ Steadily

\* A reader follows or unfollows somebody, in the user service.  Doing it again
\* inserts and deletes nothing.
FollowUser(u) ==
  /\ Change(row)
  /\ following' = IF u \in ToSet(following) THEN following ELSE <<u>> \o following
  /\ UNCHANGED <<horizon, flushes, reader>>
  /\ Steadily

UnfollowUser(u) ==
  /\ Change(row)
  /\ following' = SelectSeq(following, LAMBDA v : v # u)
  /\ UNCHANGED <<horizon, flushes, reader>>
  /\ Steadily

\* The answer to the question whom the reader follows.
ListFollowingIDs == following

GrowOld ==
  /\ horizon < N
  /\ Change(row)
  /\ horizon' = horizon + 1
  /\ UNCHANGED <<following, cacheVars, reader, steady, since>>

-----------------------------------------------------------------------------
To(r, new) ==
  /\ reader' = [reader EXCEPT ![r] = new]
  /\ UNCHANGED envVars

\* A reader asks for a first page.
Ask(r, q) ==
  /\ reader[r].stage = "idle" /\ q \in Query
  /\ To(r, [Idle EXCEPT !.stage = "asked", !.query = q])
  /\ steady' = [steady EXCEPT ![r] = Matching(q)]
  /\ UNCHANGED <<cacheVars, since>>

\* Mutant of CacheKey: the cursor is left out.
CacheKeyOfQuery(q, cursor, follows) ==
  [query |-> [q EXCEPT !.limit = ListLimit(@)], cursor |-> NoCursor, follows |-> follows]

\* cacheKey: the query with its limit normalized, the cursor, and whom the
\* reader follows in the feed of these.
CacheKey(q, cursor, follows) ==
  [query |-> [q EXCEPT !.limit = ListLimit(@)], cursor |-> cursor, follows |-> follows]

Follows(q) == IF q.kind = "following" THEN ListFollowingIDs ELSE <<>>

\* The reader has the page, and its cursor if there is more.
Shown(p, page, next, more) ==
  [Idle EXCEPT !.stage = IF next # NoCursor THEN "asked" ELSE "done",
     !.query = p.query, !.cursor = next, !.more = more,
     !.shown = p.shown \o page, !.pages = p.pages + 1]

\* The key is made; in the feed of the followed creators they are part of it.
MakeKey(r) ==
  /\ reader[r].stage = "asked" /\ reader[r].query.kind # "fair"
  /\ To(r, [reader[r] EXCEPT !.stage = "keyed", !.follows = Follows(reader[r].query)])
  /\ UNCHANGED <<cacheVars, steady, since>>

\* The page is in the cache.
AnswerCached(r) ==
  LET p == reader[r]
      k == CacheKey(p.query, p.cursor, p.follows)
  IN /\ p.stage = "keyed" /\ k \in DOMAIN cache
     /\ To(r, Shown(p, cache[k].page, cache[k].next, cache[k].more))
     /\ steady' = [steady EXCEPT ![r] = @ \cap cache[k].steady]
     /\ UNCHANGED <<cacheVars, since>>

\* GetFeed by time, GetTrending, GetUserPolls, GetFollowingFeed: one item more
\* than the page holds, the cursor of the last item that is on it.
PageOf(q, cursor) ==
  LET limit == ListLimit(q.limit)
      found == Select(q, cursor, limit + 1)
      page == FirstOf(found, limit)
  IN [page |-> page, more |-> Len(found) > limit, steady |-> Matching(q),
      next |-> IF Len(found) > limit THEN Key(q.kind, Last(page)) ELSE NoCursor]

\* It is not, has expired or cannot be read: it is read from the tables, and
\* the creators that are followed are asked for again.
ReadPage(r) ==
  /\ reader[r].stage = "keyed"
  /\ \E read \in {PageOf(reader[r].query, reader[r].cursor)} :
       /\ To(r, [reader[r] EXCEPT !.stage = "enriching", !.page = read.page,
                   !.more = read.more, !.next = read.next])
       /\ since' = [since EXCEPT ![r] = read.steady]
  /\ UNCHANGED <<cacheVars, steady>>

\* Whether getFairFeed gets past its cursor: one without a chronological part
\* is dereferenced all the same, one with a discovery part makes a query of
\* one argument more than it has parameters.
Accepted(cursor) == cursor # NoCursor => cursor.chron # 0 /\ cursor.discovery = 0

ReadDiscovery(r) ==
  /\ reader[r].stage = "asked" /\ reader[r].query.kind = "fair"
  /\ Accepted(reader[r].cursor)
  /\ LET q == reader[r].query IN
       To(r, [reader[r] EXCEPT !.stage = "discovered",
                !.discovery = SelectDiscovery(q, DiscoveryFetchLimit(ListLimit(q.limit)))])
  /\ UNCHANGED <<cacheVars, steady, since>>

RejectCursor(r) ==
  /\ reader[r].stage = "asked" /\ reader[r].query.kind = "fair"
  /\ ~ Accepted(reader[r].cursor)
  /\ To(r, [reader[r] EXCEPT !.stage = "rejected"])
  /\ UNCHANGED <<cacheVars, steady, since>>

\* The chronological list, in a statement of its own, and the merge.
ReadChronological(r) ==
  LET p == reader[r]
      limit == ListLimit(p.query.limit)
      cursor == IF p.cursor = NoCursor THEN NoCursor ELSE [votes |-> 0, item |-> p.cursor.chron]
  IN /\ p.stage = "discovered"
     /\ \E chron \in {Select(p.query, cursor, limit + 1)} :
        \E fair \in {FairPage(p.discovery, chron, limit)} :
          To(r, [p EXCEPT !.stage = "enriching", !.chron = chron,
                   !.page = fair.items, !.more = fair.more,
                   !.next = IF fair.more /\ fair.items # <<>> THEN fair.cursor ELSE NoCursor])
     /\ UNCHANGED <<cacheVars, steady, since>>

\* SetJSON, whose error is ignored.
Store(k, entry) ==
  cache' \in {cache, [x \in DOMAIN cache \cup {k} |-> IF x = k THEN entry ELSE cache[x]]}

\* enrichItems and the answer, which is stored in the cache on its way.
Answer(r) ==
  /\ reader[r].stage = "enriching"
  /\ LET p == reader[r] IN
       /\ To(r, Shown(p, p.page, p.next, p.more))
       /\ IF p.query.kind = "fair" THEN UNCHANGED cache
          ELSE Store(CacheKey(p.query, p.cursor, p.follows),
                     [page |-> p.page, more |-> p.more, next |-> p.next, steady |-> since[r]])
  /\ since' = [since EXCEPT ![r] = {}]
  /\ UNCHANGED <<flushes, steady>>

\* Options, tags or authors cannot be read: no answer, and the reader asks
\* again with the same cursor.
FailPage(r) ==
  /\ reader[r].stage = "enriching" /\ reader[r].page # <<>>
  /\ Change(row)
  /\ reader' = [reader EXCEPT ![r] = [Idle EXCEPT !.stage = "asked", !.query = reader[r].query,
       !.cursor = reader[r].cursor, !.shown = reader[r].shown, !.pages = reader[r].pages]]
  /\ since' = [since EXCEPT ![r] = {}]
  /\ UNCHANGED <<horizon, following, cacheVars, steady>>

\* Somebody else, or the reader in another tab, has a page of the same query
\* read and stored.
OthersRead(q, cursor) ==
  /\ q.kind # "fair"
  /\ Change(row)
  /\ \E read \in {PageOf(q, cursor)} : Store(CacheKey(q, cursor, Follows(q)), read)
  /\ UNCHANGED <<horizon, following, flushes, reader, steady, since>>

\* DeleteByPattern of the consumer or of the impressions; it may fail.
Flush(pattern) ==
  /\ pattern \in flushes
  /\ flushes' = flushes \ {pattern}
  /\ LET dropped == {k \in DOMAIN cache : pattern = "all" \/ k.query.kind = "feed"}
     IN cache' \in {cache, Restrict(cache, DOMAIN cache \ dropped)}
  /\ UNCHANGED <<envVars, reader, steady, since>>

Environment ==
  \/ \E i \in Items : \/ HandlePollCreated(i) \/ HandlePollUpdated(i)
                      \/ HandlePollDeleted(i) \/ HandleVotes(i)
  \/ \E v \in Viewers, ids \in SUBSET Items : RecordFeedImpressions(v, ids)
  \/ \E u \in Creators : FollowUser(u) \/ UnfollowUser(u)
  \/ GrowOld
  \/ \E r \in Readers :
       \E cursor \in {NoCursor} \cup {Key(reader[r].query.kind, i) : i \in Listed} :
         OthersRead(reader[r].query, cursor)
  \/ \E pattern \in {"all", "feed"} : Flush(pattern)

\* The service's part of a request.
Serve(r) ==
  \/ MakeKey(r)
  \/ AnswerCached(r)
  \/ ReadPage(r)
  \/ ReadDiscovery(r)
  \/ ReadChronological(r)
  \/ RejectCursor(r)
  \/ Answer(r)

Next ==
  \/ Environment
  \/ \E r \in Readers, kind \in Kinds, tags \in BOOLEAN, limit \in Limits :
       Ask(r, [kind |-> kind, tagsOnly |-> tags, limit |-> limit])
  \/ \E r \in Readers : Serve(r) \/ FailPage(r)

Spec == Init /\ [][Next]_vars

-----------------------------------------------------------------------------
Cursors == [votes : Nat, item : Items] \cup [discovery : 0 .. N, chron : 0 .. N] \cup {NoCursor}
Stages == {"idle", "asked", "keyed", "discovered", "enriching", "done", "rejected"}

\* Each variable holds a value of its kind.
TypeOK ==
  /\ row \in [Items -> Row \cup {NotYet, Deleted}]
  /\ horizon \in 0 .. N
  /\ following \in Seq(Creators)
  /\ reader \in [Readers ->
       [stage : Stages, query : Query, cursor : Cursors, follows : Seq(Creators),
        next : Cursors, more : BOOLEAN, discovery : Seq(Items), chron : Seq(Items), page : Seq(Items), shown : Seq(Items),
        pages : Nat]]
  /\ \A k \in DOMAIN cache : cache[k] \in
       [page : Seq(Items), more : BOOLEAN, steady : SUBSET Items, next : Cursors]
  /\ flushes \subseteq {"all", "feed"}
  /\ steady \in [Readers -> SUBSET Items] /\ since \in [Readers -> SUBSET Items]
  /\ changes \in 0 .. MaxChanges

Times(s, i) == Cardinality({k \in DOMAIN s : s[k] = i})

\* Whoever pages through a list sees every item that keeps its place once, and
\* none that keeps it twice, whatever is added, deleted or moved meanwhile and
\* however often a page is asked for again.  A page out of the cache is as old
\* as its entry: what has kept its place since the oldest of them was read is
\* steady.  The lists by time show no item twice at all.
SteadyItemsOnce ==
  \A r \in Readers :
    LET p == reader[r] IN
      p.query.kind # "fair" =>
        /\ \A i \in steady[r] :
             Times(p.shown, i) <= 1 /\ (p.stage = "done" => Times(p.shown, i) = 1)
        /\ p.query.kind # "trending" => \A i \in Items : Times(p.shown, i) <= 1

\* The slots that a list has among the first n, from the first of its own in a round.
Share(slots, first, n) ==
  (slots * (n \div Len(Round))) + Max({0, Min({slots, (n % Len(Round)) - first})})

\* A page of the fair feed has what the two lists have: as many different items
\* as it can hold, none twice; among its first items discovery and the list by
\* time have at least the slots a round gives them, as long as they last; and
\* it says that there is more unless it has everything.
FairPageIsFair ==
  \A r \in Readers :
    LET p == reader[r]
        limit == ListLimit(p.query.limit)
        Has(list, slots, first) ==
          \A n \in DOMAIN p.page :
            Cardinality(ToSet(FirstOf(p.page, n)) \cap ToSet(list))
              >= Min({Len(list), Share(slots, first, n)})
        all == ToSet(p.discovery) \cup ToSet(p.chron)
    IN p.stage = "enriching" /\ p.query.kind = "fair" =>
         /\ IsInjective(p.page)
         /\ Len(p.page) = Min({limit, Cardinality(all)})
         /\ p.more <=> Cardinality(all) > limit
         /\ Has(p.discovery, DiscoverySlots, 0)
         /\ Has(p.chron, ChronologicalSlots, DiscoverySlots)

\* Whoever pages through the fair feed to its end sees no steady item twice and
\* misses one of them at most for each page after the first: the item that was
\* consumed for the page before and cut off.
FairFeedMissesOnePerPage ==
  \A r \in Readers :
    LET p == reader[r] IN
      p.query.kind = "fair" =>
        /\ \A i \in steady[r] : Times(p.shown, i) <= 1
        /\ p.stage = "done" => Cardinality(steady[r] \ ToSet(p.shown)) <= p.pages - 1

\* What a reader who pages through any list is shown of what stays.
SteadyItemsShown == SteadyItemsOnce /\ FairFeedMissesOnePerPage

\* The unit test's expectation of a first page with more behind it, "expected
\* fair cursor": a cursor the service gave out is one it goes on from.
CursorsAreAccepted == \A r \in Readers : reader[r].stage # "rejected"
=============================================================================
