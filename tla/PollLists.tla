------------------------------ MODULE PollLists -----------------------------
(***************************************************************************)
(* A caller who walks the poll service's list of polls by its cursors,     *)
(* while polls are created, given other tags and deleted.                  *)
(*                                                                         *)
(* A page is three queries without a transaction: the polls, then their    *)
(* options, then their tags.  A poll gets its created_at from a clock that *)
(* is read before its transaction, so it may appear below a cursor that    *)
(* was handed out already.                                                 *)
(***************************************************************************)
EXTENDS Naturals, FiniteSets

CONSTANTS
  Polls,         \* the ids there may be; they are random, so in any order
  Tags,
  Filters,       \* the tags callers ask for, {} for any poll
  Limits,        \* the lengths they ask for
  DefaultLimit, MaxLimit,
  Microsecond,   \* ticks of the clock that created_at does not tell apart
  MaxTime,       \* the clock stops here (bound)
  MaxChanges,    \* deletions and changes of tags (bound)
  None

\* What the constants are (assumed where they get their values).
ListsAssumption ==
  /\ Polls \subseteq Nat /\ IsFiniteSet(Polls) /\ None \notin Nat \X Nat
  /\ Filters \subseteq SUBSET Tags
  /\ Limits \subseteq Nat
  /\ DefaultLimit \in Nat \ {0} /\ MaxLimit \in Nat \ {0} /\ DefaultLimit <= MaxLimit
  /\ Microsecond \in Nat \ {0}
  /\ MaxTime \in Nat /\ MaxChanges \in Nat

VARIABLES
  clock,
  polls,    \* [Polls -> its row, with its tags and whether it has options]
  changes,
  walk,     \* the request for the next page, and the cursor it continues from
  shown,    \* what the pages so far showed
  steady,   \* the polls there and wanted since the walk began (history)
  changed   \* those deleted or given other tags since then (history)

vars == <<clock, polls, changes, walk, shown, steady, changed>>

NoPoll == [stage |-> "new", at |-> 0, tags |-> {}, options |-> FALSE]

Init ==
  /\ clock = 0
  /\ polls = [p \in Polls |-> NoPoll]
  /\ changes = 0
  /\ walk = [stage |-> "none", filter |-> {}, limit |-> 0, page |-> 0, cursor |-> None,
             rows |-> {}, more |-> FALSE, options |-> {}]
  /\ shown = {}
  /\ steady = {}
  /\ changed = {}

There == {p \in Polls : polls[p].stage = "there"}
Wanted(filter) == {p \in There : filter = {} \/ polls[p].tags \cap filter # {}}

-----------------------------------------------------------------------------
Tick ==
  /\ clock < MaxTime
  /\ clock' = clock + 1
  /\ UNCHANGED <<polls, changes, walk, shown, steady, changed>>

\* CreatePoll reads the clock; the column keeps microseconds.
BeginCreate(p) ==
  /\ polls[p].stage = "new"
  /\ polls' = [polls EXCEPT ![p].stage = "begun", ![p].at = clock \div Microsecond]
  /\ UNCHANGED <<clock, changes, walk, shown, steady, changed>>

\* Its transaction commits: the row, its options and its tags.
CreatePoll(p) ==
  /\ polls[p].stage = "begun"
  /\ \E T \in SUBSET Tags :
       polls' = [polls EXCEPT ![p] = [stage |-> "there", at |-> @.at, tags |-> T, options |-> TRUE]]
  /\ UNCHANGED <<clock, changes, walk, shown, steady, changed>>

Changes(p) ==
  /\ polls[p].stage = "there" /\ changes < MaxChanges
  /\ changes' = changes + 1
  /\ changed' = changed \cup {p}
  /\ UNCHANGED <<clock, walk, shown>>

\* The poll, and by ON DELETE CASCADE its options and its tags.
DeletePoll(p) ==
  /\ Changes(p)
  /\ polls' = [polls EXCEPT ![p] = [NoPoll EXCEPT !.stage = "gone"]]
  /\ steady' = steady \ {p}

ReplaceTags(p) ==
  /\ Changes(p)
  /\ \E T \in SUBSET Tags :
       /\ polls' = [polls EXCEPT ![p].tags = T]
       /\ steady' = IF walk.filter = {} \/ T \cap walk.filter # {} THEN steady ELSE steady \ {p}

-----------------------------------------------------------------------------
\* ORDER BY created_at DESC, id DESC, on pairs of the two.
Above(a, b) == a[1] > b[1] \/ (a[1] = b[1] /\ a[2] > b[2])

Key(p) == <<polls[p].at, p>>

\* Mutant of the cursor's condition: with the row itself.
PastOrAt(p, cursor) == cursor = None \/ Above(cursor, Key(p)) \/ cursor = Key(p)
Past(p, cursor) == cursor = None \/ Above(cursor, Key(p))

\* The first rows of a set of polls in that order.
FirstOf(rows, limit) == {p \in rows : Cardinality({q \in rows : Above(Key(q), Key(p))}) < limit}

ListLimit(limit) ==
  IF limit = 0 THEN DefaultLimit ELSE IF limit > MaxLimit THEN MaxLimit ELSE limit

\* The caller asks for the first page.
Walk(filter, limit) ==
  /\ walk.stage = "none"
  /\ walk' = [walk EXCEPT !.stage = "polls", !.filter = filter, !.limit = limit]
  /\ steady' = Wanted(filter)
  /\ changed' = {}
  /\ UNCHANGED <<clock, polls, changes, shown>>

\* PollRepository.List: one row more than the page tells whether there is more.
List ==
  /\ walk.stage = "polls"
  /\ LET limit == ListLimit(walk.limit)
         past == {p \in Wanted(walk.filter) : Past(p, walk.cursor)} IN
       walk' = [walk EXCEPT !.stage = "options",
                  !.rows = {Key(p) : p \in FirstOf(past, limit)},
                  !.more = Cardinality(FirstOf(past, limit + 1)) > limit]
  /\ UNCHANGED <<clock, polls, changes, shown, steady, changed>>

\* GetOptionsByPollIDs, of those still there.
GetOptions ==
  /\ walk.stage = "options"
  /\ walk' = [walk EXCEPT !.stage = "tags", !.options = {p \in Polls : polls[p].options}]
  /\ UNCHANGED <<clock, polls, changes, shown, steady, changed>>

\* The cursor of an answer: its last row, as encodeCursor writes it.
NextCursor == IF walk.more THEN CHOOSE k \in walk.rows : \A o \in walk.rows \ {k} : Above(o, k)
              ELSE None

\* GetTagsByPollIDs.
TagsOf(k) == polls[k[2]].tags

\* The tags, the answer, and the request for the page behind it.
GetTags ==
  /\ walk.stage = "tags"
  /\ shown' = shown \cup {[page |-> walk.page, key |-> k, options |-> k[2] \in walk.options,
                           tags |-> TagsOf(k)] : k \in walk.rows}
  /\ walk' = [walk EXCEPT !.stage = IF walk.more THEN "polls" ELSE "done",
                !.page = @ + 1,
                !.cursor = NextCursor, !.rows = {}, !.options = {}]
  /\ UNCHANGED <<clock, polls, changes, steady, changed>>

Next ==
  \/ Tick
  \/ \E p \in Polls : BeginCreate(p) \/ CreatePoll(p) \/ DeletePoll(p) \/ ReplaceTags(p)
  \/ \E filter \in Filters, limit \in Limits : Walk(filter, limit)
  \/ List \/ GetOptions \/ GetTags

Spec == Init /\ [][Next]_vars

-----------------------------------------------------------------------------
TypeOK ==
  /\ clock \in 0..MaxTime /\ changes \in 0..MaxChanges
  /\ polls \in [Polls -> [stage : {"new", "begun", "there", "gone"}, at : Nat,
                          tags : SUBSET Tags, options : BOOLEAN]]
  /\ walk \in [stage : {"none", "polls", "options", "tags", "done"}, filter : SUBSET Tags,
               limit : Nat, page : Nat, cursor : (Nat \X Polls) \cup {None},
               rows : SUBSET (Nat \X Polls), more : BOOLEAN, options : SUBSET Polls]
  /\ shown \subseteq [page : Nat, key : Nat \X Polls, options : BOOLEAN, tags : SUBSET Tags]
  /\ steady \subseteq Polls /\ changed \subseteq Polls

\* The pages follow one another downwards, so no poll is on two of them, also
\* if it was committed below the cursor, or has the time of another.
PagesDescend == \A a, b \in shown : a.page < b.page => Above(a.key, b.key)

\* A walk to the end shows every poll that was there when it began, was never
\* deleted and never lost the tags asked for.
SteadyPollsShown == walk.stage = "done" => \A p \in steady : \E a \in shown : a.key[2] = p

\* What is not deleted or changed during the walk is shown whole and as asked
\* for, though its options and tags are read after it.
ItemsAreWhole ==
  \A a \in shown : a.key[2] \in changed \/
    (a.options /\ (walk.filter = {} \/ a.tags \cap walk.filter # {}))

\* What a walk through ListPolls shows: nothing twice, what stays once and
\* whole, though polls come, change and go between its queries.
SteadyPollsOnce == PagesDescend /\ SteadyPollsShown /\ ItemsAreWhole
=============================================================================
