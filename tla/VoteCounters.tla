---------------------------- MODULE VoteCounters -----------------------------
(***************************************************************************)
(* What the rest of the platform makes of the votes of one poll: the vote  *)
(* ledger (VoteLedger) composed with the two services that count.          *)
(*                                                                         *)
(* The poll service keeps votes_count of each option and total_votes of    *)
(* the poll; the analytics service keeps a row of votes per option and     *)
(* rows of voters per country, gender and age group, which work alike and  *)
(* are one table here, by group.  Both consume vote.cast and vote.removed, *)
(* each event once (EventDelivery), but in any order: the two topics are   *)
(* partitions of their own.  Every counter is kept from going below zero,  *)
(* except by the row a removal inserts.                                    *)
(***************************************************************************)
EXTENDS Integers, FiniteSets

CONSTANTS
  Keys,               \* the <<user, poll>> pairs of the poll
  Options,            \* its options
  Requests,           \* the Vote and RemoveVote requests
  RemovalsMayBeLost,  \* whether a RemoveVote may race a Vote (VoteLedger)
  Groups,             \* the demographic groups
  GroupOf,            \* [Keys -> Groups]: the group in the user's first profile
  None                \* no row of a statistic; no group in an event

ASSUME CountersAssumption ==
  /\ IsFiniteSet(Options)
  /\ RemovalsMayBeLost \in BOOLEAN
  /\ GroupOf \in [Keys -> Groups]
  /\ None \notin Groups \cup Int

VARIABLES
  pollType,           \* "single" or "multiple" choice; it never changes
  selection, events,  \* the ledger
  known,              \* [Requests -> the events there were before its own] (history)
  lost,               \* whether a removal was lost (history)
  group,              \* [Requests -> the group its events carry]
  pollApplied,        \* the events the poll service processed
  optionVotes,        \* poll_options.votes_count
  totalVotes,         \* polls.total_votes
  statsApplied,       \* the events the analytics service processed
  optionStats,        \* poll_option_stats, a row or None for each option
  groupStats,         \* the country, gender or age rows, a row or None each
  late                \* the consumers that processed a removal before a cast
                      \* it takes back (history)

ledgerVars == <<pollType, selection, events, known, lost, group>>
pollVars == <<pollApplied, optionVotes, totalVotes>>
statsVars == <<statsApplied, optionStats, groupStats>>
vars == <<ledgerVars, pollVars, statsVars, late>>

Ledger == INSTANCE VoteLedger

Init ==
  /\ pollType \in {"single", "multiple"}
  /\ Ledger!Init
  /\ known = [r \in Requests |-> {}]
  /\ lost = FALSE
  /\ group = [r \in Requests |-> None]
  /\ pollApplied = {} /\ statsApplied = {}
  /\ optionVotes = [o \in Options |-> 0]
  /\ totalVotes = 0
  /\ optionStats = [o \in Options |-> None]
  /\ groupStats = [g \in Groups |-> None]
  /\ late = {}

-----------------------------------------------------------------------------
\* The group in an event is read from the user service for every request: the
\* profile may have changed since, and a call that fails leaves it out.
GetVoterMeta == Groups \cup {None}

\* A request whose events are new: its change, in the ledger.
Serve(r, k) ==
  /\ \A e \in events : e.by # r
  /\ \/ \E S \in SUBSET Options :
          /\ pollType = "single" => Cardinality(S) = 1
          /\ Ledger!Change(r, k, S)
     \/ Ledger!Remove(r, k)
  /\ known' = [known EXCEPT ![r] = events]
  /\ \E g \in GetVoterMeta : group' = [group EXCEPT ![r] = g]
  /\ UNCHANGED <<pollType, lost, pollVars, statsVars, late>>

LoseRemoval(k) ==
  /\ selection[k] # {}
  /\ Ledger!LoseRemoval(k)
  /\ lost' = TRUE
  /\ UNCHANGED <<pollType, known, group, pollVars, statsVars, late>>

Delta(e) == IF e.topic = Ledger!TopicVoteCast THEN 1 ELSE -1

\* e takes back what an earlier cast, not processed yet, added.
Overtakes(e, applied) ==
  /\ e.topic = Ledger!TopicVoteRemoved
  /\ \E f \in known[e.by] \ applied :
       /\ f.topic = Ledger!TopicVoteCast
       /\ f.key = e.key /\ f.opts \cap e.opts # {}

NowLate(consumer, e, applied) ==
  IF Overtakes(e, applied) THEN late \cup {consumer} ELSE late

\* UPDATE ... SET votes_count = GREATEST(0, votes_count + delta).
Increment(n, delta) == IF n + delta < 0 THEN 0 ELSE n + delta

\* The total moves by the number of options of the event at once.
UpdateTotalVotes(n, e) ==
  LET m == n + Delta(e) * Cardinality(e.opts) IN IF m < 0 THEN 0 ELSE m

\* Mutant of Upsert: the row begins at the default of its column.
UpsertFromZero(row, delta) == IF row = None THEN 0 ELSE Increment(row, delta)

\* INSERT ... ON CONFLICT DO UPDATE: a first row is the delta itself, even -1.
Upsert(row, delta) == IF row = None THEN delta ELSE Increment(row, delta)

\* The poll service's handleVoteCast and handleVoteRemoved.
ProcessAtPoll(e) ==
  /\ e \in events \ pollApplied
  /\ pollApplied' = pollApplied \cup {e}
  /\ optionVotes' = [o \in Options |->
       IF o \in e.opts THEN Increment(optionVotes[o], Delta(e)) ELSE optionVotes[o]]
  /\ totalVotes' = UpdateTotalVotes(totalVotes, e)
  /\ late' = NowLate("poll", e, pollApplied)
  /\ UNCHANGED <<ledgerVars, statsVars>>

\* IncrementCountryVotes and its kind: by one for an event, whatever the number
\* of its options, if the event names a group at all.
IncrementGroupVotes(e) ==
  [g \in Groups |-> IF g = group[e.by]
                    THEN Upsert(groupStats[g], Delta(e)) ELSE groupStats[g]]

\* The analytics service's handleVoteCast and handleVoteRemoved.
ProcessAtAnalytics(e) ==
  /\ e \in events \ statsApplied
  /\ statsApplied' = statsApplied \cup {e}
  /\ optionStats' = [o \in Options |->
       IF o \in e.opts THEN Upsert(optionStats[o], Delta(e)) ELSE optionStats[o]]
  /\ groupStats' = IncrementGroupVotes(e)
  /\ late' = NowLate("analytics", e, statsApplied)
  /\ UNCHANGED <<ledgerVars, pollVars>>

Next ==
  \/ \E r \in Requests, k \in Keys : Serve(r, k)
  \/ \E k \in Keys : LoseRemoval(k)
  \/ \E e \in events : ProcessAtPoll(e)
  \/ \E e \in events : ProcessAtAnalytics(e)

Spec == Init /\ [][Next]_vars

-----------------------------------------------------------------------------
\* Each variable holds a value of its kind; the poll service's counters are
\* never negative.
TypeOK ==
  /\ pollType \in {"single", "multiple"}
  /\ selection \in [Keys -> SUBSET Options]
  /\ events \subseteq Ledger!Event
  /\ known \in [Requests -> SUBSET events]
  /\ lost \in BOOLEAN
  /\ group \in [Requests -> Groups \cup {None}]
  /\ pollApplied \subseteq events
  /\ optionVotes \in [Options -> Nat]
  /\ totalVotes \in Nat
  /\ statsApplied \subseteq events
  /\ optionStats \in [Options -> Int \cup {None}]
  /\ groupStats \in [Groups -> Int \cup {None}]
  /\ late \subseteq {"poll", "analytics"}

Count(row) == IF row = None THEN 0 ELSE row

\* Casts minus removals among the events of a set; and the same counted by the
\* options they name.
Casts(E) == {e \in E : e.topic = Ledger!TopicVoteCast}
Removals(E) == {e \in E : e.topic = Ledger!TopicVoteRemoved}
Choices(E) == {c \in E \X Options : c[2] \in c[1].opts}
NetOf(E) == Cardinality(Casts(E)) - Cardinality(Removals(E))
NetChoices(E) == Cardinality(Choices(Casts(E))) - Cardinality(Choices(Removals(E)))
OfOption(E, o) == {e \in E : o \in e.opts}
OfGroup(E, g) == {e \in E : group[e.by] = g}

\* In whatever order the events came, no counter is below what the events
\* processed so far add up to: the GREATEST(0, ...) only ever adds.  And none is
\* below zero but by one, in a row that a removal inserted before any cast.
NeverUndercounts ==
  /\ \A o \in Options :
       /\ optionVotes[o] >= NetOf(OfOption(pollApplied, o))
       /\ Count(optionStats[o]) >= NetOf(OfOption(statsApplied, o))
       /\ optionVotes[o] >= 0 /\ Count(optionStats[o]) >= -1
  /\ totalVotes >= NetChoices(pollApplied)
  /\ \A g \in Groups :
       /\ Count(groupStats[g]) >= NetOf(OfGroup(statsApplied, g))
       /\ Count(groupStats[g]) >= -1

\* A consumer that processed no removal before its casts counts exactly.
ExactInOrder ==
  /\ "poll" \notin late =>
       /\ \A o \in Options : optionVotes[o] = NetOf(OfOption(pollApplied, o))
       /\ totalVotes = NetChoices(pollApplied)
  /\ "analytics" \notin late =>
       \A o \in Options : Count(optionStats[o]) = NetOf(OfOption(statsApplied, o))

\* What a counter is worth before everything is consumed: at least what was,
\* and exactly that if it was consumed in order.
CountsAddUp == NeverUndercounts /\ ExactInOrder

\* The current votes.
Votes == {c \in Keys \X Options : c[2] \in selection[c[1]]}
Voting(o) == {k \in Keys : o \in selection[k]}

\* Every event so far carries the group of its voter's first profile.
StableProfiles == \A e \in events : group[e.by] = GroupOf[e.key]

\* Once a consumer has caught up, every current vote is counted, whatever was
\* lost or came late; and no other is, if nothing was and did.  A group then
\* counts its voters, if the poll is single choice and profiles are stable.  (In
\* a multiple choice poll it does not: a voter who adds an option is counted
\* again.)  The total of the poll is the number of all votes.
CaughtUp ==
  /\ pollApplied = events =>
       /\ totalVotes >= Cardinality(Votes)
       /\ ~ lost /\ "poll" \notin late => totalVotes = Cardinality(Votes)
  /\ pollType = "single" /\ StableProfiles /\ ~ lost
     /\ statsApplied = events /\ "analytics" \notin late
     => \A g \in Groups :
          Count(groupStats[g]) =
            Cardinality({k \in Keys : GroupOf[k] = g /\ selection[k] # {}})
  /\ \A o \in Options :
       LET voting == Cardinality(Voting(o)) IN
       /\ pollApplied = events =>
            /\ optionVotes[o] >= voting
            /\ ~ lost /\ "poll" \notin late => optionVotes[o] = voting
       /\ statsApplied = events =>
            /\ Count(optionStats[o]) >= voting
            /\ ~ lost /\ "analytics" \notin late => Count(optionStats[o]) = voting
=============================================================================
