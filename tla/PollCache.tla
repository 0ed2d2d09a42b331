------------------------------ MODULE PollCache ------------------------------
(***************************************************************************)
(* The poll service's read cache: the decorator that keeps polls and pages *)
(* of the list in Redis, over one poll and its votes.                      *)
(*                                                                         *)
(* The poll has one key.  A read fills it, a creation or an update stores  *)
(* what it reads back, a deletion and each vote event delete it.  The list *)
(* has a key for every value of a version counter that each change         *)
(* increments.  Nothing holds a lock from one step to the next: a read may *)
(* fill a key with what it read before a change that has dropped the key.  *)
(* The vote consumer even drops the key and increments the version before  *)
(* its own transaction commits.                                            *)
(*                                                                         *)
(* The list of tags has versioned keys like the list of polls and is left  *)
(* out.                                                                    *)
(***************************************************************************)
EXTENDS Integers, FiniteSets

CONSTANTS
  Requests,   \* the calls of the service
  MaxVotes,   \* how many vote events the consumer handles at the most
  MaxFaults,  \* how many operations of the cache fail at the most
  Absent,     \* the answer that there is no poll
  None        \* nothing under a key; nothing read; no answer yet

ASSUME CacheAssumption ==
  /\ IsFiniteSet(Requests)
  /\ MaxVotes \in Nat
  /\ MaxFaults \in Nat
  /\ Absent \notin [content : Nat, votes : Nat \cup {None}]

VARIABLES
  life,       \* the poll in the database: "none", "live" or "deleted"
  revision,   \* how often it was created, updated or deleted
  votes,      \* the votes of its options
  handled,    \* how many vote events the consumer took up
  voteStage,  \* where the transaction of the consumer is
  cached,     \* the value under the key of the poll, or None
  version,    \* the version of the list
  lists,      \* [Versions -> the page under the key of that version, or None]
  faults,     \* how many operations of the cache failed
  op,         \* [Requests -> the operation called]
  pc,         \* [Requests -> the stage it is in]
  got,        \* [Requests -> what it has read]
  seen,       \* [Requests -> the version of the list it goes by, or None]
  answer,     \* [Requests -> the answer]
  confirmed,  \* the last revision whose request was answered (history)
  due,        \* [Requests -> the revision the answer has to show] (history)
  suspect,    \* whether a known overlap or fault is behind what is under the key (history)
  across      \* [Requests -> whether what it reads changed since it read it] (history)

dbVars == <<life, revision, votes>>
voteVars == <<handled, voteStage>>
cacheVars == <<cached, version, lists, faults>>
requestVars == <<op, pc, got, seen, answer, confirmed, due>>
historyVars == <<suspect, across>>
vars == <<dbVars, voteVars, cacheVars, requestVars, historyVars>>

Changes == {"create", "update", "delete"}
Operations == Changes \cup {"get", "list"}
Versions == 0 .. Cardinality(Requests) + MaxVotes

\* A poll as it is read: its content, by revision, and the votes of its options,
\* None if these are gone.  A page of the list is that poll or is empty.
Poll == [content : Nat, votes : Nat \cup {None}]
Value == Poll \cup {Absent}

InDatabase ==
  IF life = "live" THEN [content |-> revision, votes |-> votes] ELSE Absent

Init ==
  /\ life = "none" /\ revision = 0 /\ votes = 0
  /\ handled = 0 /\ voteStage = "idle"
  /\ cached = None /\ version = 0 /\ faults = 0
  /\ lists = [v \in Versions |-> None]
  /\ op = [r \in Requests |-> None]
  /\ pc = [r \in Requests |-> "idle"]
  /\ got = [r \in Requests |-> None]
  /\ seen = [r \in Requests |-> None]
  /\ answer = [r \in Requests |-> None]
  /\ confirmed = 0
  /\ due = [r \in Requests |-> 0]
  /\ suspect = FALSE
  /\ across = [r \in Requests |-> FALSE]

-----------------------------------------------------------------------------
Goto(r, stage) == pc' = [pc EXCEPT ![r] = stage]

Answer(r, value) ==
  /\ answer' = [answer EXCEPT ![r] = value]
  /\ Goto(r, "done")

\* An operation of the cache fails; every caller ignores it.
Fault ==
  /\ faults < MaxFaults
  /\ faults' = faults + 1

\* Whoever is at one of these stages has read what is changed now.
Overtake(stages) ==
  across' = [r \in Requests |-> across[r] \/ pc[r] \in stages]

Emptied == cached' = None /\ suspect' = FALSE

Call(r, o) ==
  /\ pc[r] = "idle"
  /\ op' = [op EXCEPT ![r] = o]
  /\ Goto(r, CASE o = "get" -> "lookup" [] o = "list" -> "version" [] o \in Changes -> "commit")
  /\ due' = [due EXCEPT ![r] = confirmed]
  /\ UNCHANGED <<dbVars, voteVars, cacheVars, got, seen, answer, confirmed,
                 historyVars>>

\* GetPoll: a value under the key is the answer.
LookupPoll(r) ==
  /\ pc[r] = "lookup"
  /\ \/ cached # None /\ Answer(r, cached) /\ UNCHANGED faults
     \/ cached = None /\ Goto(r, "read") /\ UNCHANGED <<answer, faults>>
     \/ Fault /\ Goto(r, "read") /\ UNCHANGED answer
  /\ UNCHANGED <<dbVars, voteVars, cached, version, lists, op, got, seen, confirmed,
                 due, historyVars>>

\* Mutant of LookupVersion: the list has one key.
LookupVersionNot(r) ==
  /\ pc[r] = "version"
  /\ seen' = [seen EXCEPT ![r] = 0]
  /\ Goto(r, "page")
  /\ UNCHANGED <<dbVars, voteVars, cacheVars, op, got, answer, confirmed, due,
                 historyVars>>

\* ListPolls reads the version; if that fails it goes by the database alone.
LookupVersion(r) ==
  /\ pc[r] = "version"
  /\ \/ /\ seen' = [seen EXCEPT ![r] = version]
        /\ Goto(r, "page")
        /\ UNCHANGED faults
     \/ Fault /\ Goto(r, "read") /\ UNCHANGED seen
  /\ UNCHANGED <<dbVars, voteVars, cached, version, lists, op, got, answer, confirmed,
                 due, historyVars>>

\* A page under the key of that version is the answer.
LookupPage(r) ==
  /\ pc[r] = "page"
  /\ LET page == lists[seen[r]] IN
       \/ page # None /\ Answer(r, page) /\ UNCHANGED faults
       \/ page = None /\ Goto(r, "read") /\ UNCHANGED <<answer, faults>>
       \/ Fault /\ Goto(r, "read") /\ UNCHANGED answer
  /\ UNCHANGED <<dbVars, voteVars, cached, version, lists, op, got, seen, confirmed,
                 due, historyVars>>

\* The transaction of CreatePoll, UpdatePoll or DeletePoll.  The deletion waits
\* for the rows that a vote has locked.
Commit(r) ==
  /\ pc[r] = "commit"
  /\ \/ /\ op[r] = "create" /\ life = "none"
        /\ life' = "live"
        /\ Goto(r, "read")
     \/ /\ op[r] = "update" /\ life = "live"
        /\ UNCHANGED life
        /\ Goto(r, "read")
     \/ /\ op[r] = "delete" /\ life = "live" /\ voteStage = "idle"
        /\ life' = "deleted"
        /\ Goto(r, "drop")
  /\ revision' = revision + 1
  /\ due' = [due EXCEPT ![r] = revision']
  /\ Overtake({"options", "fill"})
  /\ UNCHANGED <<votes, voteVars, cacheVars, op, got, seen, answer, confirmed, suspect>>

\* Where a read goes on: to the cache, unless its version could not be read.
AfterRead(r) ==
  IF op[r] = "list" /\ seen[r] = None THEN "uncached" ELSE "fill"

\* The first statement of a read, the row of the poll.  GetPoll of no poll is
\* an error, for the change that reads it back as well; a page is then empty.
ReadPoll(r) ==
  /\ pc[r] = "read"
  /\ \/ /\ life = "live"
        /\ got' = [got EXCEPT ![r] = [content |-> revision, votes |-> None]]
        /\ Goto(r, "options") /\ UNCHANGED answer
     \/ /\ life # "live" /\ op[r] = "list"
        /\ got' = [got EXCEPT ![r] = Absent]
        /\ Goto(r, AfterRead(r)) /\ UNCHANGED answer
     \/ /\ life # "live" /\ op[r] # "list"
        /\ Answer(r, Absent) /\ UNCHANGED got
  /\ across' = [across EXCEPT ![r] = FALSE]
  /\ UNCHANGED <<dbVars, voteVars, cacheVars, op, seen, confirmed, due, suspect>>

\* A later statement, the options.
ReadOptions(r) ==
  /\ pc[r] = "options"
  /\ got' = [got EXCEPT ![r].votes = IF life = "live" THEN votes ELSE None]
  /\ Goto(r, AfterRead(r))
  /\ UNCHANGED <<dbVars, voteVars, cacheVars, op, seen, answer, confirmed, due,
                 historyVars>>

AnswerUncached(r) ==
  /\ pc[r] = "uncached"
  /\ Answer(r, got[r])
  /\ UNCHANGED <<dbVars, voteVars, cacheVars, op, got, seen, confirmed, due,
                 historyVars>>

\* SetJSON of what was read; a read is then answered, a change goes on.
Fill(r) ==
  /\ pc[r] = "fill"
  /\ \/ /\ op[r] = "list"
        /\ lists' = [lists EXCEPT ![seen[r]] = got[r]]
        /\ UNCHANGED <<cached, suspect, faults>>
     \/ /\ op[r] # "list"
        /\ cached' = got[r]
        /\ suspect' = (across[r] \/ voteStage \in {"increment", "commit"})
        /\ UNCHANGED <<lists, faults>>
     \/ /\ Fault
        /\ suspect' = (suspect \/ op[r] \in Changes)
        /\ UNCHANGED <<cached, lists>>
  /\ \/ op[r] \in Changes /\ Goto(r, "increment") /\ UNCHANGED answer
     \/ op[r] \notin Changes /\ Answer(r, got[r])
  /\ UNCHANGED <<dbVars, voteVars, version, op, got, seen, confirmed, due, across>>

\* DeletePoll drops the key.
Drop(r) ==
  /\ pc[r] = "drop"
  /\ \/ Emptied /\ UNCHANGED faults
     \/ Fault /\ suspect' = TRUE /\ UNCHANGED cached
  /\ Goto(r, "increment")
  /\ UNCHANGED <<dbVars, voteVars, version, lists, op, got, seen, answer, confirmed,
                 due, across>>

\* A change increments the version and is answered.
Increment(r) ==
  /\ pc[r] = "increment"
  /\ \/ version' = version + 1 /\ UNCHANGED faults
     \/ Fault /\ UNCHANGED version
  /\ Answer(r, IF op[r] = "delete" THEN Absent ELSE got[r])
  /\ confirmed' = IF due[r] > confirmed THEN due[r] ELSE confirmed
  /\ UNCHANGED <<dbVars, voteVars, cached, lists, op, got, seen, due, historyVars>>

\* The database fails, or refuses a change of a poll that is not there.  A change
\* that has committed then leaves the cache as it is.
Fail(r) ==
  /\ pc[r] \in {"commit", "read", "options"}
  /\ Goto(r, "failed")
  /\ suspect' = (suspect \/ (op[r] \in Changes /\ pc[r] # "commit"))
  /\ UNCHANGED <<dbVars, voteVars, cacheVars, op, got, seen, answer, confirmed, due,
                 across>>

-----------------------------------------------------------------------------
\* The consumer's transaction counted an event and has its rows locked.
CountVote ==
  /\ voteStage = "idle" /\ handled < MaxVotes /\ life # "none"
  /\ handled' = handled + 1
  /\ voteStage' = "drop"
  /\ UNCHANGED <<dbVars, cacheVars, requestVars, historyVars>>

\* Mutant of DropOnVote: a vote only increments the version.
DropOnVoteNot ==
  /\ voteStage = "drop"
  /\ voteStage' = "increment"
  /\ UNCHANGED <<dbVars, handled, cacheVars, requestVars, historyVars>>

\* invalidatePollCache, from inside the transaction.
DropOnVote ==
  /\ voteStage = "drop"
  /\ \/ Emptied /\ UNCHANGED faults
     \/ Fault /\ suspect' = TRUE /\ UNCHANGED cached
  /\ voteStage' = "increment"
  /\ UNCHANGED <<dbVars, handled, version, lists, requestVars, across>>

IncrementOnVote ==
  /\ voteStage = "increment"
  /\ \/ version' = version + 1 /\ UNCHANGED faults
     \/ Fault /\ UNCHANGED version
  /\ voteStage' = "commit"
  /\ UNCHANGED <<dbVars, handled, cached, lists, requestVars, historyVars>>

\* It commits, or is rolled back.
EndVote ==
  /\ voteStage = "commit"
  /\ votes' \in {votes, IF life = "live" THEN votes + 1 ELSE votes}
  /\ voteStage' = "idle"
  /\ IF votes' # votes THEN Overtake({"fill"}) ELSE UNCHANGED across
  /\ UNCHANGED <<life, revision, handled, cacheVars, requestVars, suspect>>

\* The time to live of a key ends.
Expire ==
  /\ cached # None
  /\ Emptied
  /\ UNCHANGED <<dbVars, voteVars, version, lists, faults, requestVars, across>>

ExpirePage(v) ==
  /\ lists[v] # None
  /\ lists' = [lists EXCEPT ![v] = None]
  /\ UNCHANGED <<dbVars, voteVars, cached, version, faults, requestVars, historyVars>>

Serve(r) ==
  \/ \E o \in Operations : Call(r, o)
  \/ LookupPoll(r) \/ LookupVersion(r) \/ LookupPage(r)
  \/ Commit(r) \/ ReadPoll(r) \/ ReadOptions(r) \/ AnswerUncached(r)
  \/ Fill(r) \/ Drop(r) \/ Increment(r) \/ Fail(r)

CountVotes == CountVote \/ DropOnVote \/ IncrementOnVote \/ EndVote

Next ==
  \/ \E r \in Requests : Serve(r)
  \/ CountVotes
  \/ Expire
  \/ \E v \in Versions : ExpirePage(v)

Spec == Init /\ [][Next]_vars

-----------------------------------------------------------------------------
\* value shows a revision: it has that content or a later one, or the poll is
\* deleted.
Shows(value, n) ==
  IF value = Absent THEN n = 0 \/ life = "deleted" ELSE value.content >= n

\* A list that is asked for after a change was answered shows the change,
\* whatever reads were filling the cache meanwhile: the version in its key
\* keeps old pages away.  A creation or an update answers with itself.
AnswersShowChanges ==
  faults = 0 =>
    \A r \in Requests :
      pc[r] = "done" /\ op[r] # "get" => Shows(answer[r], due[r])

\* A change that has committed and has not come to the key yet.
ToReplace(r) ==
  /\ op[r] \in Changes
  /\ pc[r] \in {"read", "options", "fill", "drop"}

\* What is under the key of the poll is the poll with its votes, or the last change
\* of it is on its way to replace it, and it shows every change that was answered;
\* a GetPoll that hits shows them too.  Four things alone get round that, and
\* suspect remembers them: a value stored after a change or a vote that overtook
\* its reading, a value stored between a vote's drop of the key and its commit, a
\* drop or a change's store that failed, and a change that could not read back.
PollOutdatedOnlyByOverlap ==
  cached # None /\ ~ suspect =>
    /\ \/ cached = InDatabase
       \/ \E r \in Requests : ToReplace(r) /\ due[r] = revision
    /\ Shows(cached, confirmed)
=============================================================================
