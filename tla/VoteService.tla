---------------------------- MODULE VoteService -----------------------------
(***************************************************************************)
(* The vote service: Vote, RemoveVote and GetUserVote as the transactions  *)
(* they are, over a PostgreSQL table read at READ COMMITTED.               *)
(*                                                                         *)
(* Each request of the service is a process.  A Vote takes the advisory    *)
(* lock of its <<user, poll>> key, asks the poll service for the poll,     *)
(* reads the current rows FOR UPDATE, replaces them and adds the events of *)
(* the difference to the outbox.  A RemoveVote does NOT take the advisory  *)
(* lock.  A GetUserVote runs the same SELECT ... FOR UPDATE on its own.    *)
(*                                                                         *)
(* A row is a row VERSION: `by' is the request that inserted it, so a row  *)
(* that is deleted and inserted again is another row, as it is for the     *)
(* database.  A statement works in two steps: it takes its snapshot, then, *)
(* once nobody else holds a lock on the rows of that snapshot, it acts on  *)
(* those of them that still exist; rows committed in between are not seen. *)
(* The writes of a transaction become visible in one step, its commit.     *)
(***************************************************************************)
EXTENDS Integers, FiniteSets

CONSTANTS
  Users, Polls, Options,
  Voters, Removers, Readers,  \* requests: Vote, RemoveVote and GetUserVote calls
  OptionsOf,                  \* [Polls -> SUBSET Options]: the options of a poll
  SingleChoice,               \* the polls of type single choice
  None                        \* no request: the lock is free

Requests == Voters \cup Removers \cup Readers
Keys == Users \X Polls

\* A request is of one kind.  The options and the type of a poll never change
\* after its creation (UpdatePoll has no field for them).
ASSUME VoteAssumption ==
  /\ Voters \cap Removers = {}
  /\ Voters \cap Readers = {}
  /\ Removers \cap Readers = {}
  /\ None \notin Requests
  /\ OptionsOf \in [Polls -> SUBSET Options]
  /\ SingleChoice \subseteq Polls
  /\ IsFiniteSet(Options)

VARIABLES
  votes,      \* table votes: the committed row versions
  outbox,     \* table outbox_events: the committed events
  lockOwner,  \* [Keys -> Requests \cup {None}]: pg_advisory_xact_lock
  pc,         \* [Requests -> stage of the request]
  key,        \* [Requests -> the <<user, poll>> it is about]
  sel,        \* [Requests -> its normalized options]
  snap,       \* [Requests -> row versions in the snapshot of its statement]
  read        \* [Requests -> row versions its SELECT ... FOR UPDATE returned]

vars == <<votes, outbox, lockOwner, pc, key, sel, snap, read>>

Row == [key : Keys, opt : Options, by : Requests]

RowsIn(table, k) == {row \in table : row.key = k}
RowsOf(k) == RowsIn(votes, k)
OptionIDs(rows) == {row.opt : row \in rows}

\* The stages in which a request is inside a transaction or a statement.
Stages == {"lock", "getPoll", "select", "selectLock", "write", "deleteLock"}

\* The rows a request holds locked: what its SELECT ... FOR UPDATE returned,
\* until the end of its transaction.
Held(r) == IF pc[r] \in {"write", "deleteLock"} THEN read[r] ELSE {}

Unlocked(r) == \A q \in Requests \ {r} : Held(q) \cap snap[r] = {}

\* The abstract specification, over the options of the rows of a key.
Selection == [k \in Keys |-> OptionIDs(RowsOf(k))]
Ledger == INSTANCE VoteLedger WITH
            selection <- Selection, events <- outbox,
            RemovalsMayBeLost <- Removers # {}

-----------------------------------------------------------------------------
Init ==
  /\ votes = {}
  /\ outbox = {}
  /\ lockOwner = [k \in Keys |-> None]
  /\ pc = [r \in Requests |-> "idle"]
  /\ key \in [Requests -> Keys]
  /\ sel = [r \in Requests |-> {}]
  /\ snap = [r \in Requests |-> {}]
  /\ read = [r \in Requests |-> {}]

\* Vote: the arguments passed the checks (a user, a poll, at least one option
\* after normalization) and the transaction begins.
CallVote(r, S) ==
  /\ pc[r] = "idle"
  /\ S # {}
  /\ sel' = [sel EXCEPT ![r] = S]
  /\ pc' = [pc EXCEPT ![r] = "lock"]
  /\ UNCHANGED <<votes, outbox, lockOwner, key, snap, read>>

\* RemoveVote and GetUserVote begin with the SELECT.
CallSelect(r) ==
  /\ pc[r] = "idle"
  /\ pc' = [pc EXCEPT ![r] = "select"]
  /\ UNCHANGED <<votes, outbox, lockOwner, key, sel, snap, read>>

\* Mutant of LockUserVote: nothing is locked.
LockUserVoteMissing(r) ==
  /\ pc[r] = "lock"
  /\ pc' = [pc EXCEPT ![r] = "getPoll"]
  /\ UNCHANGED <<votes, outbox, lockOwner, key, sel, snap, read>>

LockUserVote(r) ==
  /\ pc[r] = "lock"
  /\ lockOwner[key[r]] = None
  /\ lockOwner' = [lockOwner EXCEPT ![key[r]] = r]
  /\ pc' = [pc EXCEPT ![r] = "getPoll"]
  /\ UNCHANGED <<votes, outbox, key, sel, snap, read>>

\* validateSelectedOptions: every option is one of the poll's, and exactly one
\* is selected in a single choice poll.
ValidSelection(p, S) ==
  /\ S \subseteq OptionsOf[p]
  /\ p \in SingleChoice => Cardinality(S) = 1

\* Mutant of Finish: a session lock (pg_advisory_lock) instead of a
\* transaction lock.
FinishKeepsLock(r, outcome) ==
  /\ pc' = [pc EXCEPT ![r] = outcome]
  /\ sel' = [sel EXCEPT ![r] = {}]
  /\ snap' = [snap EXCEPT ![r] = {}]
  /\ read' = [read EXCEPT ![r] = {}]
  /\ UNCHANGED lockOwner

\* The end of a transaction releases its locks and forgets what it read.
Finish(r, outcome) ==
  /\ pc' = [pc EXCEPT ![r] = outcome]
  /\ lockOwner' = [k \in Keys |-> IF lockOwner[k] = r THEN None ELSE lockOwner[k]]
  /\ sel' = [sel EXCEPT ![r] = {}]
  /\ snap' = [snap EXCEPT ![r] = {}]
  /\ read' = [read EXCEPT ![r] = {}]

\* The poll service answered: go on, or roll back because the selection is not
\* one this poll takes.
ValidateSelectedOptions(r) ==
  /\ pc[r] = "getPoll"
  /\ \/ /\ ValidSelection(key[r][2], sel[r])
        /\ pc' = [pc EXCEPT ![r] = "select"]
        /\ UNCHANGED <<votes, outbox, lockOwner, key, sel, snap, read>>
     \/ /\ ~ ValidSelection(key[r][2], sel[r])
        /\ Finish(r, "failed")
        /\ UNCHANGED <<votes, outbox, key>>

\* SELECT ... FOR UPDATE, the snapshot of the statement.
SelectSnapshot(r) ==
  /\ pc[r] = "select"
  /\ snap' = [snap EXCEPT ![r] = RowsOf(key[r])]
  /\ pc' = [pc EXCEPT ![r] = "selectLock"]
  /\ UNCHANGED <<votes, outbox, lockOwner, key, sel, read>>

\* Mutant of GetUserVote: SELECT without FOR UPDATE takes the snapshot as it is.
GetUserVoteNotForUpdate(r) ==
  /\ pc[r] = "selectLock"
  /\ read' = [read EXCEPT ![r] = snap[r]]
  /\ pc' = [pc EXCEPT ![r] = IF r \in Readers THEN "done" ELSE "write"]
  /\ UNCHANGED <<votes, outbox, lockOwner, key, sel, snap>>

\* SELECT ... FOR UPDATE, the rows: those of the snapshot that nobody deleted
\* while the statement waited for their locks.  A transaction keeps them
\* locked; GetUserVote runs outside of one and answers with them.
GetUserVote(r) ==
  /\ pc[r] = "selectLock"
  /\ Unlocked(r)
  /\ read' = [read EXCEPT ![r] = snap[r] \cap votes]
  /\ pc' = [pc EXCEPT ![r] = IF r \in Readers THEN "done" ELSE "write"]
  /\ UNCHANGED <<votes, outbox, lockOwner, key, sel, snap>>

\* Vote: the same options are selected already; commit without a change.
KeepUserVote(r) ==
  /\ pc[r] = "write" /\ r \in Voters
  /\ OptionIDs(read[r]) = sel[r]
  /\ Finish(r, "done")
  /\ UNCHANGED <<votes, outbox, key>>

\* The DELETE of ReplaceUserVote and of DeleteUserVote, the snapshot of the
\* statement: a later one than that of the SELECT.
DeleteSnapshot(r) ==
  /\ pc[r] = "write"
  /\ r \in Voters => OptionIDs(read[r]) # sel[r]
  /\ snap' = [snap EXCEPT ![r] = RowsOf(key[r])]
  /\ pc' = [pc EXCEPT ![r] = "deleteLock"]
  /\ UNCHANGED <<votes, outbox, lockOwner, key, sel, read>>

\* Mutants of ReplaceUserVote: only the difference is deleted and inserted, the
\* common rows stay; the cast event lists the whole selection instead of what
\* was added.
ReplaceUserVoteInPlace(r) ==
  /\ pc[r] = "deleteLock" /\ r \in Voters
  /\ LET k == key[r]
         existing == OptionIDs(read[r])
     IN  /\ votes' = {row \in votes : row.key = k => row.opt \in sel[r]}
                       \cup [key : {k}, opt : sel[r] \ existing, by : {r}]
         /\ outbox' = outbox \cup Ledger!Removed(r, k, existing \ sel[r])
                             \cup Ledger!Cast(r, k, sel[r] \ existing)
  /\ Finish(r, "done")
  /\ UNCHANGED key

ReplaceUserVoteRecast(r) ==
  /\ pc[r] = "deleteLock" /\ r \in Voters
  /\ LET k == key[r]
         existing == OptionIDs(read[r])
     IN  /\ votes' = (votes \ snap[r]) \cup [key : {k}, opt : sel[r], by : {r}]
         /\ outbox' = outbox \cup Ledger!Removed(r, k, existing \ sel[r])
                             \cup Ledger!Cast(r, k, sel[r])
  /\ Finish(r, "done")
  /\ UNCHANGED key

\* The rest of Vote: delete the rows of the DELETE's snapshot, insert the new
\* ones (the primary key admits no second row for an option), add the events
\* of the difference between what was READ and what was asked for, and commit.
ReplaceUserVote(r) ==
  /\ pc[r] = "deleteLock" /\ r \in Voters
  /\ Unlocked(r)
  /\ LET k == key[r]
         existing == OptionIDs(read[r])
     IN  /\ sel[r] \cap OptionIDs(RowsOf(k) \ snap[r]) = {}
         /\ votes' = (votes \ snap[r]) \cup [key : {k}, opt : sel[r], by : {r}]
         /\ outbox' = outbox \cup Ledger!Removed(r, k, existing \ sel[r])
                             \cup Ledger!Cast(r, k, sel[r] \ existing)
  /\ Finish(r, "done")
  /\ UNCHANGED key

\* The rest of RemoveVote: delete the rows of the DELETE's snapshot, report
\* those the SELECT returned, if there were any, and commit.
DeleteUserVote(r) ==
  /\ pc[r] = "deleteLock" /\ r \in Removers
  /\ Unlocked(r)
  /\ votes' = votes \ snap[r]
  /\ outbox' = outbox \cup Ledger!Removed(r, key[r], OptionIDs(read[r]))
  /\ Finish(r, "done")
  /\ UNCHANGED key

\* Any call inside the request may fail (the poll service, the database, the
\* caller going away, the process dying): WithTx rolls back.
Rollback(r) ==
  /\ pc[r] \in Stages
  /\ Finish(r, "failed")
  /\ UNCHANGED <<votes, outbox, key>>

Progress(r) ==
  \/ LockUserVote(r)
  \/ ValidateSelectedOptions(r)
  \/ SelectSnapshot(r)
  \/ GetUserVote(r)
  \/ KeepUserVote(r)
  \/ DeleteSnapshot(r)
  \/ ReplaceUserVote(r)
  \/ DeleteUserVote(r)

\* No request is left to serve.
Quiescent ==
  /\ \A r \in Requests : pc[r] \in {"done", "failed"}
  /\ UNCHANGED vars

Next ==
  \/ \E r \in Voters, S \in SUBSET Options : CallVote(r, S)
  \/ \E r \in Removers \cup Readers : CallSelect(r)
  \/ \E r \in Requests : Progress(r) \/ Rollback(r)
  \/ Quiescent

\* A request that was accepted is carried on by its goroutine and by the
\* database, which grants a free lock to a waiter; nobody has to call.
Fairness == \A r \in Requests : WF_vars(Progress(r))

Spec == Init /\ [][Next]_vars
FairSpec == Spec /\ Fairness

-----------------------------------------------------------------------------
\* Each variable holds a value of its kind.
TypeOK ==
  /\ votes \subseteq Row
  /\ outbox \subseteq Ledger!Event
  /\ lockOwner \in [Keys -> Requests \cup {None}]
  /\ pc \in [Requests -> Stages \cup {"idle", "done", "failed"}]
  /\ key \in [Requests -> Keys]
  /\ sel \in [Requests -> SUBSET Options]
  /\ snap \in [Requests -> SUBSET Row]
  /\ read \in [Requests -> SUBSET Row]

\* A user's committed selection is the work of one Vote: two requests of the
\* same user never leave a mixture of their options, nor two rows for one
\* option (the advisory lock of LockUserVote, the DELETE of ReplaceUserVote).
OneSelection ==
  \A a, b \in votes : a.key = b.key => a.by = b.by

\* A single choice poll holds at most one option of a user, whatever requests
\* raced (validateSelectedOptions and the advisory lock together).
SingleChoiceHonoured ==
  \A k \in Keys :
    /\ OptionIDs(RowsOf(k)) \subseteq OptionsOf[k[2]]
    /\ k[2] \in SingleChoice =>
         \A a, b \in RowsOf(k) : a.opt = b.opt

\* From the moment a Vote has read the rows of its key to its commit they are
\* exactly what it read: the difference it reports is the difference it makes.
DiffIsCurrent ==
  \A r \in Voters :
    pc[r] \in {"write", "deleteLock"} => read[r] = RowsOf(key[r])

\* A RemoveVote about to delete knows all it is going to delete, or nothing of
\* it: a removal is reported whole or lost whole, never in part.
RemovalWholeOrLost ==
  \A r \in Removers :
    pc[r] = "deleteLock" /\ read[r] # {} => read[r] = snap[r]

\* GetUserVote answers with a complete selection, or with none: never with
\* some of the options of a selection, never with options of two selections.
ReadsWholeSelection ==
  \A r \in Readers :
    pc[r] = "done" /\ read[r] # {} =>
      read[r] = snap[r] /\ \A a, b \in read[r] : a.by = b.by

\* The invariant behind the four above, strong enough to be inductive.

\* From its lock to its end a Vote owns the advisory lock of its key.
LockHeld ==
  \A r \in Voters :
    pc[r] \in Stages \ {"lock"} => lockOwner[key[r]] = r

\* Past the validation the options of a Vote are options its poll takes.
Validated ==
  \A r \in Voters :
    /\ pc[r] \in Stages => sel[r] # {}
    /\ pc[r] \in Stages \ {"lock", "getPoll"} => ValidSelection(key[r][2], sel[r])

\* A row version is new when it is inserted: nobody has seen it before.
FreshRows ==
  \A r \in Requests : pc[r] # "done" =>
    /\ \A row \in votes : row.by # r
    /\ \A q \in Requests : \A row \in snap[q] \cup read[q] : row.by # r

\* While a statement waits, the rows of its key stay those of its snapshot, or
\* every row of its snapshot goes at once.  For a Vote nothing is added.
SnapshotWholeOrGone ==
  \A r \in Requests : pc[r] \in {"selectLock", "deleteLock"} =>
    /\ snap[r] \cap votes = {} \/ snap[r] = RowsOf(key[r])
    /\ r \in Voters => RowsOf(key[r]) \subseteq snap[r]

\* What a request read and keeps locked is the whole of its key, in the table
\* and in the snapshot of its DELETE, if it is anything at all.
HeldIsCurrent ==
  \A r \in Voters \cup Removers :
    r \in Voters \/ read[r] # {} =>
      /\ pc[r] \in {"write", "deleteLock"} => read[r] = RowsOf(key[r])
      /\ pc[r] = "deleteLock" => snap[r] = RowsOf(key[r])

\* A stage is reached by the requests that have it.
StagesOfKinds ==
  /\ \A r \in Readers :
       pc[r] \in {"idle", "select", "selectLock", "done", "failed"}
  /\ \A r \in Removers : pc[r] \notin {"lock", "getPoll"}

IInv ==
  /\ TypeOK
  /\ StagesOfKinds
  /\ LockHeld
  /\ Validated
  /\ FreshRows
  /\ SnapshotWholeOrGone
  /\ HeldIsCurrent
  /\ OneSelection
  /\ SingleChoiceHonoured
  /\ ReadsWholeSelection

\* The events of a key and an option: how often cast, how often removed.
Reported(topic, k, o) ==
  Cardinality({e \in outbox : e.topic = topic /\ e.key = k /\ o \in e.opts})

Net(k, o) ==
  Reported(Ledger!TopicVoteCast, k, o) - Reported(Ledger!TopicVoteRemoved, k, o)

\* Whatever raced, the events never claim fewer votes than the table holds:
\* every committed vote was cast by an event that no removal cancelled, and no
\* event removes what no event cast.  As long as no RemoveVote was called they
\* add up to the table exactly.
EventsMatchVotes ==
  \A k \in Keys, o \in Options :
    LET held == IF o \in OptionIDs(RowsOf(k)) THEN 1 ELSE 0 IN
    /\ Net(k, o) >= held
    /\ (\A r \in Removers : pc[r] = "idle") => Net(k, o) = held

\* A request reports once, when it commits: the events count what happened to
\* the table only because none of them is ever written a second time.
ReportsOnce ==
  \A r \in Requests : pc[r] # "done" => \A e \in outbox : e.by # r

\* With IInv, strong enough to be inductive.
EventsInv ==
  /\ IsFiniteSet(outbox)
  /\ ReportsOnce
  /\ EventsMatchVotes

\* The service implements the ledger: every step is one atomic change with its
\* events, or changes neither the table nor the events.
ImplementsLedger == Ledger!Spec

\* A request, once begun, is answered: no lock order, lost lock or wait on a
\* deleted row leaves it hanging.
EveryRequestEnds ==
  \A r \in Requests : pc[r] \in Stages ~> pc[r] \in {"done", "failed"}
=============================================================================
