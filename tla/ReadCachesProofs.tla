--------------------------- MODULE ReadCachesProofs ---------------------------
(***************************************************************************)
(* Proofs about the read caches: PollCache, for any number of calls, votes *)
(* and reads, and AnalyticsCache, for any readers, sections and events.    *)
(***************************************************************************)
EXTENDS MCReadCaches, SequenceTheorems, FiniteSetTheorems, TLAPS

-----------------------------------------------------------------------------
(* The polls.  The heart of it is what a version is worth: whoever goes by *)
(* a version has read the database since the version began, and the        *)
(* changes that were answered by then are in the database.                 *)


Stages == {"idle", "lookup", "version", "page", "commit", "read", "options", "uncached",
           "fill", "drop", "increment", "done", "failed"}

Types ==
  /\ life \in {"none", "live", "deleted"} /\ revision \in Nat /\ votes \in Nat
  /\ handled \in 0 .. MaxVotes
  /\ voteStage \in {"idle", "drop", "increment", "commit"}
  /\ version \in Nat /\ faults \in Nat
  /\ lists \in [Versions -> Value \cup {None}]
  /\ op \in [Requests -> Operations \cup {None}]
  /\ pc \in [Requests -> Stages]
  /\ got \in [Requests -> Value \cup {None}]
  /\ seen \in [Requests -> Nat \cup {None}]
  /\ answer = [r \in Requests |-> answer[r]]
  /\ confirmed \in Nat
  /\ due \in [Requests -> Nat]

\* The stages of each operation, and what was read in them.
StagesOf(r) ==
  /\ pc[r] = "done" => op[r] \in Operations
  /\ pc[r] \in {"version", "page", "uncached"} => op[r] = "list"
  /\ pc[r] = "lookup" => op[r] = "get"
  /\ pc[r] \in {"commit", "increment"} => op[r] \in Changes
  /\ pc[r] = "drop" => op[r] = "delete"
  /\ pc[r] \in {"read", "options", "fill"} => op[r] \in Operations \ {"delete"}
  /\ pc[r] = "options" => got[r] \in Poll
  /\ pc[r] \in {"fill", "uncached"} => got[r] \in Value
  /\ pc[r] = "increment" /\ op[r] # "delete" => got[r] \in Value

\* No revision is confirmed or due that the database has not.
Revisions ==
  /\ confirmed <= revision
  /\ life = "none" => revision = 0
  /\ \A r \in Requests : due[r] <= revision

\* A change reads back what it did, or what came of it.
OwnChange(r) ==
  op[r] \in Changes =>
    /\ pc[r] \in {"read", "options", "fill", "drop", "increment", "done"} => due[r] > 0
    /\ pc[r] \in {"options", "fill"} => Shows(got[r], due[r])
    /\ pc[r] = "increment" /\ op[r] # "delete" => Shows(got[r], due[r])
    /\ pc[r] \in {"drop", "increment"} /\ op[r] = "delete" => life = "deleted"
    /\ pc[r] = "done" => Shows(answer[r], due[r])

\* Every increment is that of a change that is done, or of a vote that was
\* handled: the version is one of Versions.
Finished == {r \in Requests : op[r] \in Changes /\ pc[r] = "done"}
Begun == voteStage \in {"drop", "increment"}
VersionBound ==
  /\ Begun => handled > 0
  /\ version <= Cardinality(Finished) + (IF Begun THEN handled - 1 ELSE handled)

\* A list that goes by a version, and one that has read the database for it.
GoesBy(r) ==
  op[r] = "list" /\ pc[r] \in {"page", "read", "options", "fill", "uncached", "done"}
HasRead(r) == op[r] = "list" /\ pc[r] \in {"options", "fill", "uncached"}

\* What is there for the present version shows what is confirmed; what is there
\* for the version a list goes by shows what is due to the list.
ListsByVersion ==
  /\ \A r \in Requests : GoesBy(r) => seen[r] \in Nat /\ seen[r] <= version
  /\ \A r \in Requests : op[r] = "list" /\ pc[r] = "version" => due[r] <= confirmed
  /\ \A v \in Versions : v > version => lists[v] = None
  /\ lists[version] # None => Shows(lists[version], confirmed)
  /\ \A q \in Requests : HasRead(q) /\ seen[q] = version => Shows(got[q], confirmed)
  /\ \A r \in Requests :
       GoesBy(r) /\ lists[seen[r]] # None => Shows(lists[seen[r]], due[r])
  /\ \A r, q \in Requests :
       GoesBy(r) /\ HasRead(q) /\ seen[q] = seen[r] => Shows(got[q], due[r])
  /\ \A r \in Requests :
       op[r] = "list" /\ pc[r] = "done" => Shows(answer[r], due[r])

PollCacheInv ==
  /\ Types
  /\ \A r \in Requests : StagesOf(r) /\ OwnChange(r)
  /\ Revisions
  /\ VersionBound
  /\ faults = 0 => ListsByVersion

-----------------------------------------------------------------------------
\* What is no more than the changes that are done and the votes that were handled
\* is a version.
LEMMA HasPlace ==
  ASSUME NEW n \in Nat, NEW h \in 0 .. MaxVotes, NEW S \in SUBSET Requests,
         n <= Cardinality(S) + h
  PROVE  n \in Versions
<1>1. Cardinality(S) \in Nat /\ Cardinality(Requests) \in Nat
      /\ Cardinality(S) <= Cardinality(Requests)
  BY CacheAssumption, FS_Subset, FS_CardinalityType
<1>2. MaxVotes \in Nat
  BY CacheAssumption
<1> QED
  BY <1>1, <1>2 DEF Versions

\* So is the version of a state in which the invariant holds.
LEMMA VersionHasPlace ==
  ASSUME Types, VersionBound PROVE version \in Versions
<1>1. \E h \in 0 .. MaxVotes : version <= Cardinality(Finished) + h
  BY CacheAssumption DEF Types, VersionBound
<1>2. Finished \in SUBSET Requests
  BY DEF Finished
<1> QED
  BY <1>1, <1>2, HasPlace DEF Types

\* Initially there is nothing.
LEMMA PollCacheInit == Init => PollCacheInv
<1> SUFFICES ASSUME Init PROVE PollCacheInv
  OBVIOUS
<1>1. Types
  BY CacheAssumption DEF Init, Types, Stages
<1>2. VersionBound
  <2>1. IsFiniteSet(Finished)
    BY CacheAssumption, FS_Subset DEF Finished
  <2>2. Cardinality(Finished) \in Nat
    BY <2>1, FS_CardinalityType
  <2> QED
    BY <2>2 DEF Init, VersionBound, Begun
<1>3. version \in Versions
  BY <1>1, <1>2, VersionHasPlace
<1>4. \A r \in Requests : pc[r] = "idle"
  BY DEF Init
<1>5. \A r \in Requests : StagesOf(r) /\ OwnChange(r)
  BY <1>4 DEF StagesOf, OwnChange
<1>6. Revisions
  BY DEF Init, Revisions
<1>7. ListsByVersion
  BY <1>3, <1>4 DEF Init, ListsByVersion, GoesBy, HasRead
<1> QED
  BY <1>1, <1>2, <1>5, <1>6, <1>7 DEF PollCacheInv

\* Types is kept by each action.
LEMMA TypesStep ==
  ASSUME Types, \A r \in Requests : StagesOf(r), [Next]_vars PROVE Types'
<1>1. ASSUME NEW r \in Requests, \E o \in Operations : Call(r, o) PROVE Types'
  BY <1>1 DEF Call, Types, StagesOf, Goto, Stages, Changes, Operations, Value, Poll,
       dbVars, voteVars, cacheVars
<1>2. ASSUME NEW r \in Requests, LookupPoll(r) PROVE Types'
  BY <1>2 DEF LookupPoll, Types, StagesOf, Goto, Answer, Fault, Stages, Changes,
       Operations, Value, Poll, dbVars, voteVars
<1>3. ASSUME NEW r \in Requests, LookupVersion(r) PROVE Types'
  BY <1>3 DEF LookupVersion, Types, StagesOf, Goto, Fault, Stages, Changes, Operations,
       Value, Poll, dbVars, voteVars
<1>4. ASSUME NEW r \in Requests, LookupPage(r) PROVE Types'
  BY <1>4 DEF LookupPage, Types, StagesOf, Goto, Answer, Fault, Stages, Changes,
       Operations, Value, Poll, dbVars, voteVars
<1>5. ASSUME NEW r \in Requests, Commit(r) PROVE Types'
  BY <1>5 DEF Commit, Types, StagesOf, Goto, Stages, Changes, Operations, Value, Poll,
       voteVars, cacheVars
<1>6. ASSUME NEW r \in Requests, ReadPoll(r) PROVE Types'
  BY <1>6 DEF ReadPoll, Types, StagesOf, Goto, Answer, AfterRead, Stages, Changes,
       Operations, Value, Poll, dbVars, voteVars, cacheVars
<1>7. ASSUME NEW r \in Requests, ReadOptions(r) PROVE Types'
  BY <1>7 DEF ReadOptions, Types, StagesOf, Goto, AfterRead, Stages, Changes, Operations,
       Value, Poll, dbVars, voteVars, cacheVars
<1>8. ASSUME NEW r \in Requests, AnswerUncached(r) PROVE Types'
  BY <1>8 DEF AnswerUncached, Types, StagesOf, Goto, Answer, Stages, Changes, Operations,
       Value, Poll, dbVars, voteVars, cacheVars
<1>9. ASSUME NEW r \in Requests, Fill(r) PROVE Types'
  BY <1>9 DEF Fill, Types, StagesOf, Goto, Answer, Fault, Stages, Changes, Operations,
       Value, Poll, dbVars, voteVars
<1>10. ASSUME NEW r \in Requests, Drop(r) PROVE Types'
  BY <1>10 DEF Drop, Types, StagesOf, Goto, Fault, Stages, Changes, Operations, Value,
       Poll, dbVars, voteVars
<1>11. ASSUME NEW r \in Requests, Increment(r) PROVE Types'
  <2>1. answer' = [q \in Requests |-> answer'[q]]
    BY <1>11 DEF Increment, Answer, Types
  <2>2. version' \in Nat /\ faults' \in Nat /\ confirmed' \in Nat
    BY <1>11 DEF Increment, Fault, Types
  <2>3. pc' \in [Requests -> Stages]
    BY <1>11 DEF Increment, Answer, Goto, Types, Stages
  <2> QED
    BY <1>11, <2>1, <2>2, <2>3 DEF Increment, Types, dbVars, voteVars
<1>12. ASSUME NEW r \in Requests, Fail(r) PROVE Types'
  BY <1>12 DEF Fail, Types, StagesOf, Goto, Stages, Changes, Operations, Value, Poll,
       dbVars, voteVars, cacheVars
<1>13. CASE CountVote
  BY <1>13, CacheAssumption DEF CountVote, Types, StagesOf, Stages, Changes, Operations,
       Value, Poll, dbVars, cacheVars, requestVars
<1>14. CASE DropOnVote
  BY <1>14 DEF DropOnVote, Types, StagesOf, Fault, Stages, Changes, Operations, Value,
       Poll, dbVars, requestVars
<1>15. CASE IncrementOnVote
  BY <1>15 DEF IncrementOnVote, Types, StagesOf, Fault, Stages, Changes, Operations,
       Value, Poll, dbVars, requestVars
<1>16. CASE EndVote
  BY <1>16 DEF EndVote, Types, StagesOf, Stages, Changes, Operations, Value, Poll,
       cacheVars, requestVars
<1>17. CASE Expire
  BY <1>17 DEF Expire, Types, StagesOf, Stages, Changes, Operations, Value, Poll, dbVars,
       voteVars, requestVars
<1>18. ASSUME NEW v \in Versions, ExpirePage(v) PROVE Types'
  BY <1>18 DEF ExpirePage, Types, StagesOf, Stages, Changes, Operations, Value, Poll,
       dbVars, voteVars, requestVars
<1>19. CASE UNCHANGED vars
  BY <1>19 DEF vars, Types, StagesOf, Stages, Changes, Operations, Value, Poll, dbVars,
       voteVars, cacheVars, requestVars
<1> QED
  BY <1>1, <1>2, <1>3, <1>4, <1>5, <1>6, <1>7, <1>8, <1>9, <1>10, <1>11, <1>12, <1>13,
       <1>14, <1>15, <1>16, <1>17, <1>18, <1>19 DEF Next, Serve, CountVotes

\* What is said of the stages is kept by each action.
LEMMA StagesStep ==
  ASSUME Types, \A r \in Requests : StagesOf(r), [Next]_vars
  PROVE  \A q \in Requests : StagesOf(q)'
<1>1. ASSUME NEW r \in Requests, \E o \in Operations : Call(r, o)
      PROVE  \A q \in Requests : StagesOf(q)'
  BY <1>1 DEF Call, Types, StagesOf, Goto, Stages, Changes, Operations, Value, Poll,
       dbVars, voteVars, cacheVars
<1>2. ASSUME NEW r \in Requests, LookupPoll(r) PROVE \A q \in Requests : StagesOf(q)'
  BY <1>2 DEF LookupPoll, Types, StagesOf, Goto, Answer, Fault, Stages, Changes,
       Operations, Value, Poll, dbVars, voteVars
<1>3. ASSUME NEW r \in Requests, LookupVersion(r) PROVE \A q \in Requests : StagesOf(q)'
  BY <1>3 DEF LookupVersion, Types, StagesOf, Goto, Fault, Stages, Changes, Operations,
       Value, Poll, dbVars, voteVars
<1>4. ASSUME NEW r \in Requests, LookupPage(r) PROVE \A q \in Requests : StagesOf(q)'
  BY <1>4 DEF LookupPage, Types, StagesOf, Goto, Answer, Fault, Stages, Changes,
       Operations, Value, Poll, dbVars, voteVars
<1>5. ASSUME NEW r \in Requests, Commit(r) PROVE \A q \in Requests : StagesOf(q)'
  BY <1>5 DEF Commit, Types, StagesOf, Goto, Stages, Changes, Operations, Value, Poll,
       voteVars, cacheVars
<1>6. ASSUME NEW r \in Requests, ReadPoll(r) PROVE \A q \in Requests : StagesOf(q)'
  BY <1>6 DEF ReadPoll, Types, StagesOf, Goto, Answer, AfterRead, Stages, Changes,
       Operations, Value, Poll, dbVars, voteVars, cacheVars
<1>7. ASSUME NEW r \in Requests, ReadOptions(r) PROVE \A q \in Requests : StagesOf(q)'
  BY <1>7 DEF ReadOptions, Types, StagesOf, Goto, AfterRead, Stages, Changes, Operations,
       Value, Poll, dbVars, voteVars, cacheVars
<1>8. ASSUME NEW r \in Requests, AnswerUncached(r) PROVE \A q \in Requests : StagesOf(q)'
  BY <1>8 DEF AnswerUncached, Types, StagesOf, Goto, Answer, Stages, Changes, Operations,
       Value, Poll, dbVars, voteVars, cacheVars
<1>9. ASSUME NEW r \in Requests, Fill(r) PROVE \A q \in Requests : StagesOf(q)'
  BY <1>9 DEF Fill, Types, StagesOf, Goto, Answer, Fault, Stages, Changes, Operations,
       Value, Poll, dbVars, voteVars
<1>10. ASSUME NEW r \in Requests, Drop(r) PROVE \A q \in Requests : StagesOf(q)'
  BY <1>10 DEF Drop, Types, StagesOf, Goto, Fault, Stages, Changes, Operations, Value,
       Poll, dbVars, voteVars
<1>11. ASSUME NEW r \in Requests, Increment(r) PROVE \A q \in Requests : StagesOf(q)'
  BY <1>11 DEF Increment, Types, StagesOf, Goto, Answer, Fault, Stages, Changes,
       Operations, Value, Poll, dbVars, voteVars
<1>12. ASSUME NEW r \in Requests, Fail(r) PROVE \A q \in Requests : StagesOf(q)'
  BY <1>12 DEF Fail, Types, StagesOf, Goto, Stages, Changes, Operations, Value, Poll,
       dbVars, voteVars, cacheVars
<1>13. CASE CountVote
  BY <1>13 DEF CountVote, Types, StagesOf, Stages, Changes, Operations, Value, Poll,
       dbVars, cacheVars, requestVars
<1>14. CASE DropOnVote
  BY <1>14 DEF DropOnVote, Types, StagesOf, Fault, Stages, Changes, Operations, Value,
       Poll, dbVars, requestVars
<1>15. CASE IncrementOnVote
  BY <1>15 DEF IncrementOnVote, Types, StagesOf, Fault, Stages, Changes, Operations,
       Value, Poll, dbVars, requestVars
<1>16. CASE EndVote
  BY <1>16 DEF EndVote, Types, StagesOf, Stages, Changes, Operations, Value, Poll,
       cacheVars, requestVars
<1>17. CASE Expire
  BY <1>17 DEF Expire, Types, StagesOf, Stages, Changes, Operations, Value, Poll, dbVars,
       voteVars, requestVars
<1>18. ASSUME NEW v \in Versions, ExpirePage(v) PROVE \A q \in Requests : StagesOf(q)'
  BY <1>18 DEF ExpirePage, Types, StagesOf, Stages, Changes, Operations, Value, Poll,
       dbVars, voteVars, requestVars
<1>19. CASE UNCHANGED vars
  BY <1>19 DEF vars, Types, StagesOf, Stages, Changes, Operations, Value, Poll, dbVars,
       voteVars, cacheVars, requestVars
<1> QED
  BY <1>1, <1>2, <1>3, <1>4, <1>5, <1>6, <1>7, <1>8, <1>9, <1>10, <1>11, <1>12, <1>13,
       <1>14, <1>15, <1>16, <1>17, <1>18, <1>19 DEF Next, Serve, CountVotes

\* Only a commit makes a revision.
LEMMA RevisionsStep ==
  ASSUME Types, Revisions, [Next]_vars PROVE Revisions'
<1>1. ASSUME NEW r \in Requests, \E o \in Operations : Call(r, o) PROVE Revisions'
  BY <1>1 DEF Call, Types, Revisions, Goto, dbVars, voteVars, cacheVars
<1>2. ASSUME NEW r \in Requests, LookupPoll(r) PROVE Revisions'
  BY <1>2 DEF LookupPoll, Types, Revisions, Goto, Answer, Fault, dbVars, voteVars
<1>3. ASSUME NEW r \in Requests, LookupVersion(r) PROVE Revisions'
  BY <1>3 DEF LookupVersion, Types, Revisions, Goto, Fault, dbVars, voteVars
<1>4. ASSUME NEW r \in Requests, LookupPage(r) PROVE Revisions'
  BY <1>4 DEF LookupPage, Types, Revisions, Goto, Answer, Fault, dbVars, voteVars
<1>5. ASSUME NEW r \in Requests, Commit(r) PROVE Revisions'
  BY <1>5 DEF Commit, Types, Revisions, Goto, voteVars, cacheVars
<1>6. ASSUME NEW r \in Requests, ReadPoll(r) PROVE Revisions'
  BY <1>6 DEF ReadPoll, Types, Revisions, Goto, Answer, dbVars, voteVars, cacheVars
<1>7. ASSUME NEW r \in Requests, ReadOptions(r) PROVE Revisions'
  BY <1>7 DEF ReadOptions, Types, Revisions, Goto, dbVars, voteVars, cacheVars
<1>8. ASSUME NEW r \in Requests, AnswerUncached(r) PROVE Revisions'
  BY <1>8 DEF AnswerUncached, Types, Revisions, Goto, Answer, dbVars, voteVars, cacheVars
<1>9. ASSUME NEW r \in Requests, Fill(r) PROVE Revisions'
  BY <1>9 DEF Fill, Types, Revisions, Goto, Answer, Fault, dbVars, voteVars
<1>10. ASSUME NEW r \in Requests, Drop(r) PROVE Revisions'
  BY <1>10 DEF Drop, Types, Revisions, Goto, Fault, dbVars, voteVars
<1>11. ASSUME NEW r \in Requests, Increment(r) PROVE Revisions'
  BY <1>11 DEF Increment, Types, Revisions, Goto, Answer, Fault, dbVars, voteVars
<1>12. ASSUME NEW r \in Requests, Fail(r) PROVE Revisions'
  BY <1>12 DEF Fail, Types, Revisions, Goto, dbVars, voteVars, cacheVars
<1>13. CASE CountVote
  BY <1>13 DEF CountVote, Types, Revisions, dbVars, cacheVars, requestVars
<1>14. CASE DropOnVote
  BY <1>14 DEF DropOnVote, Types, Revisions, Fault, dbVars, requestVars
<1>15. CASE IncrementOnVote
  BY <1>15 DEF IncrementOnVote, Types, Revisions, Fault, dbVars, requestVars
<1>16. CASE EndVote
  BY <1>16 DEF EndVote, Types, Revisions, cacheVars, requestVars
<1>17. CASE Expire
  BY <1>17 DEF Expire, Types, Revisions, dbVars, voteVars, requestVars
<1>18. ASSUME NEW v \in Versions, ExpirePage(v) PROVE Revisions'
  BY <1>18 DEF ExpirePage, Types, Revisions, dbVars, voteVars, requestVars
<1>19. CASE UNCHANGED vars
  BY <1>19 DEF vars, Types, Revisions, dbVars, voteVars, cacheVars, requestVars
<1> QED
  BY <1>1, <1>2, <1>3, <1>4, <1>5, <1>6, <1>7, <1>8, <1>9, <1>10, <1>11, <1>12, <1>13,
       <1>14, <1>15, <1>16, <1>17, <1>18, <1>19 DEF Next, Serve, CountVotes

\* A change reads back what it did, in each action of it or beside it.
LEMMA OwnChangeStep ==
  ASSUME Types, Revisions, \A r \in Requests : StagesOf(r), [Next]_vars,
         NEW q \in Requests, OwnChange(q)
  PROVE  OwnChange(q)'
<1>1. ASSUME NEW r \in Requests, \E o \in Operations : Call(r, o) PROVE OwnChange(q)'
  BY <1>1, CacheAssumption DEF Call, Types, StagesOf, Revisions, OwnChange, Shows, Goto,
       Changes, Operations, Value, Poll, dbVars, voteVars, cacheVars
<1>2. ASSUME NEW r \in Requests, LookupPoll(r) PROVE OwnChange(q)'
  BY <1>2, CacheAssumption DEF LookupPoll, Types, StagesOf, Revisions, OwnChange, Shows,
       Goto, Answer, Fault, Changes, Operations, Value, Poll, dbVars, voteVars
<1>3. ASSUME NEW r \in Requests, LookupVersion(r) PROVE OwnChange(q)'
  BY <1>3, CacheAssumption DEF LookupVersion, Types, StagesOf, Revisions, OwnChange,
       Shows, Goto, Fault, Changes, Operations, Value, Poll, dbVars, voteVars
<1>4. ASSUME NEW r \in Requests, LookupPage(r) PROVE OwnChange(q)'
  BY <1>4, CacheAssumption DEF LookupPage, Types, StagesOf, Revisions, OwnChange, Shows,
       Goto, Answer, Fault, Changes, Operations, Value, Poll, dbVars, voteVars
<1>5. ASSUME NEW r \in Requests, Commit(r) PROVE OwnChange(q)'
  BY <1>5, CacheAssumption DEF Commit, Types, StagesOf, Revisions, OwnChange, Shows, Goto,
       Changes, Operations, Value, Poll, voteVars, cacheVars
<1>6. ASSUME NEW r \in Requests, ReadPoll(r) PROVE OwnChange(q)'
  BY <1>6, CacheAssumption DEF ReadPoll, Types, StagesOf, Revisions, OwnChange, Shows,
       Goto, Answer, AfterRead, Changes, Operations, Value, Poll, dbVars, voteVars,
       cacheVars
<1>7. ASSUME NEW r \in Requests, ReadOptions(r) PROVE OwnChange(q)'
  BY <1>7, CacheAssumption DEF ReadOptions, Types, StagesOf, Revisions, OwnChange, Shows,
       Goto, AfterRead, Changes, Operations, Value, Poll, dbVars, voteVars, cacheVars
<1>8. ASSUME NEW r \in Requests, AnswerUncached(r) PROVE OwnChange(q)'
  BY <1>8, CacheAssumption DEF AnswerUncached, Types, StagesOf, Revisions, OwnChange,
       Shows, Goto, Answer, Changes, Operations, Value, Poll, dbVars, voteVars, cacheVars
<1>9. ASSUME NEW r \in Requests, Fill(r) PROVE OwnChange(q)'
  BY <1>9, CacheAssumption DEF Fill, Types, StagesOf, Revisions, OwnChange, Shows, Goto,
       Answer, Fault, Changes, Operations, Value, Poll, dbVars, voteVars
<1>10. ASSUME NEW r \in Requests, Drop(r) PROVE OwnChange(q)'
  BY <1>10, CacheAssumption DEF Drop, Types, StagesOf, Revisions, OwnChange, Shows, Goto,
       Fault, Changes, Operations, Value, Poll, dbVars, voteVars
<1>11. ASSUME NEW r \in Requests, Increment(r) PROVE OwnChange(q)'
  BY <1>11, CacheAssumption DEF Increment, Types, StagesOf, Revisions, OwnChange, Shows,
       Goto, Answer, Fault, Changes, Operations, Value, Poll, dbVars, voteVars
<1>12. ASSUME NEW r \in Requests, Fail(r) PROVE OwnChange(q)'
  BY <1>12, CacheAssumption DEF Fail, Types, StagesOf, Revisions, OwnChange, Shows, Goto,
       Changes, Operations, Value, Poll, dbVars, voteVars, cacheVars
<1>13. CASE CountVote
  BY <1>13, CacheAssumption DEF CountVote, Types, StagesOf, Revisions, OwnChange, Shows,
       Changes, Operations, Value, Poll, dbVars, cacheVars, requestVars
<1>14. CASE DropOnVote
  BY <1>14, CacheAssumption DEF DropOnVote, Types, StagesOf, Revisions, OwnChange, Shows,
       Fault, Changes, Operations, Value, Poll, dbVars, requestVars
<1>15. CASE IncrementOnVote
  BY <1>15, CacheAssumption DEF IncrementOnVote, Types, StagesOf, Revisions, OwnChange,
       Shows, Fault, Changes, Operations, Value, Poll, dbVars, requestVars
<1>16. CASE EndVote
  BY <1>16, CacheAssumption DEF EndVote, Types, StagesOf, Revisions, OwnChange, Shows,
       Changes, Operations, Value, Poll, cacheVars, requestVars
<1>17. CASE Expire
  BY <1>17, CacheAssumption DEF Expire, Types, StagesOf, Revisions, OwnChange, Shows,
       Changes, Operations, Value, Poll, dbVars, voteVars, requestVars
<1>18. ASSUME NEW v \in Versions, ExpirePage(v) PROVE OwnChange(q)'
  BY <1>18, CacheAssumption DEF ExpirePage, Types, StagesOf, Revisions, OwnChange, Shows,
       Changes, Operations, Value, Poll, dbVars, voteVars, requestVars
<1>19. CASE UNCHANGED vars
  BY <1>19, CacheAssumption DEF vars, Types, StagesOf, Revisions, OwnChange, Shows,
       Changes, Operations, Value, Poll, dbVars, voteVars, cacheVars, requestVars
<1> QED
  BY <1>1, <1>2, <1>3, <1>4, <1>5, <1>6, <1>7, <1>8, <1>9, <1>10, <1>11, <1>12, <1>13,
       <1>14, <1>15, <1>16, <1>17, <1>18, <1>19 DEF Next, Serve, CountVotes

\* A change that is done stays so.
LEMMA FinishedGrows ==
  ASSUME Types, \A r \in Requests : StagesOf(r), [Next]_vars
  PROVE  Finished \subseteq Finished'
<1>1. ASSUME NEW r \in Requests, \E o \in Operations : Call(r, o)
      PROVE  Finished \subseteq Finished'
  BY <1>1 DEF Call, Types, StagesOf, Finished, Goto, Changes, Operations, dbVars,
       voteVars, cacheVars
<1>2. ASSUME NEW r \in Requests, LookupPoll(r) PROVE Finished \subseteq Finished'
  BY <1>2 DEF LookupPoll, Types, StagesOf, Finished, Goto, Answer, Fault, Changes,
       Operations, dbVars, voteVars
<1>3. ASSUME NEW r \in Requests, LookupVersion(r) PROVE Finished \subseteq Finished'
  BY <1>3 DEF LookupVersion, Types, StagesOf, Finished, Goto, Fault, Changes, Operations,
       dbVars, voteVars
<1>4. ASSUME NEW r \in Requests, LookupPage(r) PROVE Finished \subseteq Finished'
  BY <1>4 DEF LookupPage, Types, StagesOf, Finished, Goto, Answer, Fault, Changes,
       Operations, dbVars, voteVars
<1>5. ASSUME NEW r \in Requests, Commit(r) PROVE Finished \subseteq Finished'
  BY <1>5 DEF Commit, Types, StagesOf, Finished, Goto, Changes, Operations, voteVars,
       cacheVars
<1>6. ASSUME NEW r \in Requests, ReadPoll(r) PROVE Finished \subseteq Finished'
  BY <1>6 DEF ReadPoll, Types, StagesOf, Finished, Goto, Answer, AfterRead, Changes,
       Operations, dbVars, voteVars, cacheVars
<1>7. ASSUME NEW r \in Requests, ReadOptions(r) PROVE Finished \subseteq Finished'
  BY <1>7 DEF ReadOptions, Types, StagesOf, Finished, Goto, AfterRead, Changes,
       Operations, dbVars, voteVars, cacheVars
<1>8. ASSUME NEW r \in Requests, AnswerUncached(r) PROVE Finished \subseteq Finished'
  BY <1>8 DEF AnswerUncached, Types, StagesOf, Finished, Goto, Answer, Changes,
       Operations, dbVars, voteVars, cacheVars
<1>9. ASSUME NEW r \in Requests, Fill(r) PROVE Finished \subseteq Finished'
  BY <1>9 DEF Fill, Types, StagesOf, Finished, Goto, Answer, Fault, Changes, Operations,
       dbVars, voteVars
<1>10. ASSUME NEW r \in Requests, Drop(r) PROVE Finished \subseteq Finished'
  BY <1>10 DEF Drop, Types, StagesOf, Finished, Goto, Fault, Changes, Operations, dbVars,
       voteVars
<1>11. ASSUME NEW r \in Requests, Increment(r) PROVE Finished \subseteq Finished'
  BY <1>11 DEF Increment, Types, StagesOf, Finished, Goto, Answer, Fault, Changes,
       Operations, dbVars, voteVars
<1>12. ASSUME NEW r \in Requests, Fail(r) PROVE Finished \subseteq Finished'
  BY <1>12 DEF Fail, Types, StagesOf, Finished, Goto, Changes, Operations, dbVars,
       voteVars, cacheVars
<1>13. CASE CountVote
  BY <1>13 DEF CountVote, Types, StagesOf, Finished, Changes, Operations, dbVars,
       cacheVars, requestVars
<1>14. CASE DropOnVote
  BY <1>14 DEF DropOnVote, Types, StagesOf, Finished, Fault, Changes, Operations, dbVars,
       requestVars
<1>15. CASE IncrementOnVote
  BY <1>15 DEF IncrementOnVote, Types, StagesOf, Finished, Fault, Changes, Operations,
       dbVars, requestVars
<1>16. CASE EndVote
  BY <1>16 DEF EndVote, Types, StagesOf, Finished, Changes, Operations, cacheVars,
       requestVars
<1>17. CASE Expire
  BY <1>17 DEF Expire, Types, StagesOf, Finished, Changes, Operations, dbVars, voteVars,
       requestVars
<1>18. ASSUME NEW v \in Versions, ExpirePage(v) PROVE Finished \subseteq Finished'
  BY <1>18 DEF ExpirePage, Types, StagesOf, Finished, Changes, Operations, dbVars,
       voteVars, requestVars
<1>19. CASE UNCHANGED vars
  BY <1>19 DEF vars, Types, StagesOf, Finished, Changes, Operations, dbVars, voteVars,
       cacheVars, requestVars
<1> QED
  BY <1>1, <1>2, <1>3, <1>4, <1>5, <1>6, <1>7, <1>8, <1>9, <1>10, <1>11, <1>12, <1>13,
       <1>14, <1>15, <1>16, <1>17, <1>18, <1>19 DEF Next, Serve, CountVotes

\* How many changes are done, before the step and after it.
LEMMA FinishedCount ==
  ASSUME Types, \A r \in Requests : StagesOf(r), [Next]_vars
  PROVE  /\ Cardinality(Finished) \in Nat /\ Cardinality(Finished') \in Nat
         /\ Cardinality(Finished) <= Cardinality(Finished')
<1>1. IsFiniteSet(Finished) /\ IsFiniteSet(Finished')
  BY CacheAssumption, FS_Subset DEF Finished
<1>2. Finished \subseteq Finished'
  BY FinishedGrows
<1> QED
  BY <1>1, <1>2, FS_Subset, FS_CardinalityType

\* The change that increments the version is one more.
LEMMA FinishedByIncrement ==
  ASSUME Types, \A r \in Requests : StagesOf(r), NEW r \in Requests, Increment(r)
  PROVE  Cardinality(Finished') = Cardinality(Finished) + 1
<1>1. r \notin Finished /\ Finished' = Finished \cup {r}
  BY DEF Increment, Answer, Goto, Finished, Types, StagesOf
<1>2. IsFiniteSet(Finished)
  BY CacheAssumption, FS_Subset DEF Finished
<1> QED
  BY <1>1, <1>2, FS_AddElement

\* The version stays within its bound.
LEMMA VersionStep ==
  ASSUME Types, \A r \in Requests : StagesOf(r), VersionBound, [Next]_vars
  PROVE  VersionBound'
<1>0. /\ Cardinality(Finished) \in Nat /\ Cardinality(Finished') \in Nat
      /\ Cardinality(Finished) <= Cardinality(Finished')
  BY FinishedCount
<1> USE CacheAssumption
<1>1. ASSUME NEW r \in Requests, \E o \in Operations : Call(r, o) PROVE VersionBound'
  BY <1>1, <1>0 DEF Call, Types, VersionBound, Begun, Goto, dbVars, voteVars, cacheVars
<1>2. ASSUME NEW r \in Requests, LookupPoll(r) PROVE VersionBound'
  BY <1>2, <1>0 DEF LookupPoll, Types, VersionBound, Begun, Goto, Answer, Fault, dbVars,
       voteVars
<1>3. ASSUME NEW r \in Requests, LookupVersion(r) PROVE VersionBound'
  BY <1>3, <1>0 DEF LookupVersion, Types, VersionBound, Begun, Goto, Fault, dbVars,
       voteVars
<1>4. ASSUME NEW r \in Requests, LookupPage(r) PROVE VersionBound'
  BY <1>4, <1>0 DEF LookupPage, Types, VersionBound, Begun, Goto, Answer, Fault, dbVars,
       voteVars
<1>5. ASSUME NEW r \in Requests, Commit(r) PROVE VersionBound'
  BY <1>5, <1>0 DEF Commit, Types, VersionBound, Begun, Goto, voteVars, cacheVars
<1>6. ASSUME NEW r \in Requests, ReadPoll(r) PROVE VersionBound'
  BY <1>6, <1>0 DEF ReadPoll, Types, VersionBound, Begun, Goto, Answer, dbVars, voteVars,
       cacheVars
<1>7. ASSUME NEW r \in Requests, ReadOptions(r) PROVE VersionBound'
  BY <1>7, <1>0 DEF ReadOptions, Types, VersionBound, Begun, Goto, dbVars, voteVars,
       cacheVars
<1>8. ASSUME NEW r \in Requests, AnswerUncached(r) PROVE VersionBound'
  BY <1>8, <1>0 DEF AnswerUncached, Types, VersionBound, Begun, Goto, Answer, dbVars,
       voteVars, cacheVars
<1>9. ASSUME NEW r \in Requests, Fill(r) PROVE VersionBound'
  BY <1>9, <1>0 DEF Fill, Types, VersionBound, Begun, Goto, Answer, Fault, dbVars,
       voteVars
<1>10. ASSUME NEW r \in Requests, Drop(r) PROVE VersionBound'
  BY <1>10, <1>0 DEF Drop, Types, VersionBound, Begun, Goto, Fault, dbVars, voteVars
<1>11. ASSUME NEW r \in Requests, Increment(r) PROVE VersionBound'
  BY <1>11, <1>0, FinishedByIncrement DEF Increment, Types, VersionBound, Begun, Fault,
       dbVars, voteVars
<1>12. ASSUME NEW r \in Requests, Fail(r) PROVE VersionBound'
  BY <1>12, <1>0 DEF Fail, Types, VersionBound, Begun, Goto, dbVars, voteVars, cacheVars
<1>13. CASE CountVote
  BY <1>13, <1>0 DEF CountVote, Types, VersionBound, Begun, dbVars, cacheVars, requestVars
<1>14. CASE DropOnVote
  BY <1>14, <1>0 DEF DropOnVote, Types, VersionBound, Begun, Fault, dbVars, requestVars
<1>15. CASE IncrementOnVote
  BY <1>15, <1>0 DEF IncrementOnVote, Types, VersionBound, Begun, Fault, dbVars,
       requestVars
<1>16. CASE EndVote
  BY <1>16, <1>0 DEF EndVote, Types, VersionBound, Begun, cacheVars, requestVars
<1>17. CASE Expire
  BY <1>17, <1>0 DEF Expire, Types, VersionBound, Begun, dbVars, voteVars, requestVars
<1>18. ASSUME NEW v \in Versions, ExpirePage(v) PROVE VersionBound'
  BY <1>18, <1>0 DEF ExpirePage, Types, VersionBound, Begun, dbVars, voteVars, requestVars
<1>19. CASE UNCHANGED vars
  BY <1>19, <1>0 DEF vars, Types, VersionBound, Begun, dbVars, voteVars, cacheVars,
       requestVars
<1> QED
  BY <1>1, <1>2, <1>3, <1>4, <1>5, <1>6, <1>7, <1>8, <1>9, <1>10, <1>11, <1>12, <1>13,
       <1>14, <1>15, <1>16, <1>17, <1>18, <1>19 DEF Next, Serve, CountVotes

\* A fault is never forgotten.
LEMMA FaultsStay ==
  ASSUME Types, [Next]_vars, faults' = 0 PROVE faults = 0
<1>1. ASSUME NEW r \in Requests, \E o \in Operations : Call(r, o) PROVE faults = 0
  BY <1>1 DEF Call, Types, dbVars, voteVars, cacheVars
<1>2. ASSUME NEW r \in Requests, LookupPoll(r) PROVE faults = 0
  BY <1>2 DEF LookupPoll, Types, Fault, dbVars, voteVars
<1>3. ASSUME NEW r \in Requests, LookupVersion(r) PROVE faults = 0
  BY <1>3 DEF LookupVersion, Types, Fault, dbVars, voteVars
<1>4. ASSUME NEW r \in Requests, LookupPage(r) PROVE faults = 0
  BY <1>4 DEF LookupPage, Types, Fault, dbVars, voteVars
<1>5. ASSUME NEW r \in Requests, Commit(r) PROVE faults = 0
  BY <1>5 DEF Commit, Types, voteVars, cacheVars
<1>6. ASSUME NEW r \in Requests, ReadPoll(r) PROVE faults = 0
  BY <1>6 DEF ReadPoll, Types, dbVars, voteVars, cacheVars
<1>7. ASSUME NEW r \in Requests, ReadOptions(r) PROVE faults = 0
  BY <1>7 DEF ReadOptions, Types, dbVars, voteVars, cacheVars
<1>8. ASSUME NEW r \in Requests, AnswerUncached(r) PROVE faults = 0
  BY <1>8 DEF AnswerUncached, Types, dbVars, voteVars, cacheVars
<1>9. ASSUME NEW r \in Requests, Fill(r) PROVE faults = 0
  BY <1>9 DEF Fill, Types, Fault, dbVars, voteVars
<1>10. ASSUME NEW r \in Requests, Drop(r) PROVE faults = 0
  BY <1>10 DEF Drop, Types, Fault, dbVars, voteVars
<1>11. ASSUME NEW r \in Requests, Increment(r) PROVE faults = 0
  BY <1>11 DEF Increment, Types, Fault, dbVars, voteVars
<1>12. ASSUME NEW r \in Requests, Fail(r) PROVE faults = 0
  BY <1>12 DEF Fail, Types, dbVars, voteVars, cacheVars
<1>13. CASE CountVote
  BY <1>13 DEF CountVote, Types, dbVars, cacheVars, requestVars
<1>14. CASE DropOnVote
  BY <1>14 DEF DropOnVote, Types, Fault, dbVars, requestVars
<1>15. CASE IncrementOnVote
  BY <1>15 DEF IncrementOnVote, Types, Fault, dbVars, requestVars
<1>16. CASE EndVote
  BY <1>16 DEF EndVote, Types, cacheVars, requestVars
<1>17. CASE Expire
  BY <1>17 DEF Expire, Types, dbVars, voteVars, requestVars
<1>18. ASSUME NEW v \in Versions, ExpirePage(v) PROVE faults = 0
  BY <1>18 DEF ExpirePage, Types, dbVars, voteVars, requestVars
<1>19. CASE UNCHANGED vars
  BY <1>19 DEF vars, Types, dbVars, voteVars, cacheVars, requestVars
<1> QED
  BY <1>1, <1>2, <1>3, <1>4, <1>5, <1>6, <1>7, <1>8, <1>9, <1>10, <1>11, <1>12, <1>13,
       <1>14, <1>15, <1>16, <1>17, <1>18, <1>19 DEF Next, Serve, CountVotes

\* What the lists show, while the cache does not fail.
LEMMA ListsStep ==
  ASSUME PollCacheInv, [Next]_vars, faults' = 0 PROVE ListsByVersion'
<1> USE CacheAssumption
<1>a. Types /\ Revisions /\ (\A r \in Requests : StagesOf(r)) /\ version \in Versions
  BY VersionHasPlace DEF PollCacheInv
<1>b. faults = 0 /\ ListsByVersion
  BY <1>a, FaultsStay DEF PollCacheInv
<1>c. version' \in Versions
  <2>1. Types' /\ VersionBound'
    BY <1>a, TypesStep, VersionStep DEF PollCacheInv
  <2>2. \E h \in 0 .. MaxVotes : version' <= Cardinality(Finished') + h
    BY <2>1 DEF Types, VersionBound
  <2>3. Finished' \in SUBSET Requests
    BY DEF Finished
  <2> QED
    BY <2>1, <2>2, <2>3, HasPlace DEF Types
<1>d. \A v \in Versions : v \in Nat
  BY DEF Versions
<1>e. \A q \in Requests : GoesBy(q) => seen[q] \in Versions
  <2>1. Cardinality(Requests) \in Nat
    BY FS_CardinalityType
  <2> QED
    BY <1>a, <1>b, <2>1 DEF Versions, ListsByVersion
<1>1. ASSUME NEW r \in Requests, \E o \in Operations : Call(r, o) PROVE ListsByVersion'
  BY <1>1, <1>a, <1>b, <1>c DEF Call, Types, StagesOf, Revisions, ListsByVersion, GoesBy,
       HasRead, Shows, Goto, Changes, Operations, Value, Poll, dbVars, voteVars, cacheVars
<1>2. ASSUME NEW r \in Requests, LookupPoll(r) PROVE ListsByVersion'
  BY <1>2, <1>a, <1>b, <1>c DEF LookupPoll, Types, StagesOf, Revisions, ListsByVersion,
       GoesBy, HasRead, Shows, Goto, Answer, Fault, Changes, Operations, Value, Poll,
       dbVars, voteVars
<1>3. ASSUME NEW r \in Requests, LookupVersion(r) PROVE ListsByVersion'
  BY <1>3, <1>a, <1>b, <1>c DEF LookupVersion, Types, StagesOf, Revisions, ListsByVersion,
       GoesBy, HasRead, Shows, Goto, Fault, Changes, Operations, Value, Poll, dbVars,
       voteVars
<1>4. ASSUME NEW r \in Requests, LookupPage(r) PROVE ListsByVersion'
  BY <1>4, <1>a, <1>b, <1>c DEF LookupPage, Types, StagesOf, Revisions, ListsByVersion,
       GoesBy, HasRead, Shows, Goto, Answer, Fault, Changes, Operations, Value, Poll,
       dbVars, voteVars
<1>5. ASSUME NEW r \in Requests, Commit(r) PROVE ListsByVersion'
  BY <1>5, <1>a, <1>b, <1>c DEF Commit, Types, StagesOf, Revisions, ListsByVersion,
       GoesBy, HasRead, Shows, Goto, Changes, Operations, Value, Poll, voteVars, cacheVars
<1>6. ASSUME NEW r \in Requests, ReadPoll(r) PROVE ListsByVersion'
  BY <1>6, <1>a, <1>b, <1>c DEF ReadPoll, Types, StagesOf, Revisions, ListsByVersion,
       GoesBy, HasRead, Shows, Goto, Answer, AfterRead, Changes, Operations, Value, Poll,
       dbVars, voteVars, cacheVars
<1>7. ASSUME NEW r \in Requests, ReadOptions(r) PROVE ListsByVersion'
  BY <1>7, <1>a, <1>b, <1>c DEF ReadOptions, Types, StagesOf, Revisions, ListsByVersion,
       GoesBy, HasRead, Shows, Goto, AfterRead, Changes, Operations, Value, Poll, dbVars,
       voteVars, cacheVars
<1>8. ASSUME NEW r \in Requests, AnswerUncached(r) PROVE ListsByVersion'
  BY <1>8, <1>a, <1>b, <1>c DEF AnswerUncached, Types, StagesOf, Revisions,
       ListsByVersion, GoesBy, HasRead, Shows, Goto, Answer, Changes, Operations, Value,
       Poll, dbVars, voteVars, cacheVars
<1>9. ASSUME NEW r \in Requests, Fill(r) PROVE ListsByVersion'
  <2>1. \A q \in Requests : GoesBy(q)' => seen'[q] \in Nat /\ seen'[q] <= version'
    BY <1>9, <1>a, <1>b, <1>c, <1>e DEF Fill, Types, StagesOf, Revisions, ListsByVersion,
         GoesBy, HasRead, Shows, Goto, Answer, Fault, Changes, Operations, Value, Poll,
         dbVars, voteVars
  <2>2. \A q \in Requests : op'[q] = "list" /\ pc'[q] = "version" => due'[q] <= confirmed'
    BY <1>9, <1>a, <1>b, <1>c, <1>e DEF Fill, Types, StagesOf, Revisions, ListsByVersion,
         GoesBy, HasRead, Shows, Goto, Answer, Fault, Changes, Operations, Value, Poll,
         dbVars, voteVars
  <2>3. \A v \in Versions : v > version' => lists'[v] = None
    BY <1>9, <1>a, <1>b, <1>c, <1>e DEF Fill, Types, StagesOf, Revisions, ListsByVersion,
         GoesBy, HasRead, Shows, Goto, Answer, Fault, Changes, Operations, Value, Poll,
         dbVars, voteVars
  <2>4. lists'[version'] # None => Shows(lists[version], confirmed)'
    BY <1>9, <1>a, <1>b, <1>c, <1>e DEF Fill, Types, StagesOf, Revisions, ListsByVersion,
         GoesBy, HasRead, Shows, Goto, Answer, Fault, Changes, Operations, Value, Poll,
         dbVars, voteVars
  <2>5. \A q \in Requests : HasRead(q)' /\ seen'[q] = version' => Shows(got[q], confirmed)'
    BY <1>9, <1>a, <1>b, <1>c, <1>e DEF Fill, Types, StagesOf, Revisions, ListsByVersion,
         GoesBy, HasRead, Shows, Goto, Answer, Fault, Changes, Operations, Value, Poll,
         dbVars, voteVars
  <2>6. \A q \in Requests :
         GoesBy(q)' /\ lists'[seen'[q]] # None => Shows(lists[seen[q]], due[q])'
    BY <1>9, <1>a, <1>b, <1>c, <1>e DEF Fill, Types, StagesOf, Revisions, ListsByVersion,
         GoesBy, HasRead, Shows, Goto, Answer, Fault, Changes, Operations, Value, Poll,
         dbVars, voteVars
  <2>7. \A p, q \in Requests :
         GoesBy(p)' /\ HasRead(q)' /\ seen'[q] = seen'[p] => Shows(got[q], due[p])'
    BY <1>9, <1>a, <1>b, <1>c, <1>e DEF Fill, Types, StagesOf, Revisions, ListsByVersion,
         GoesBy, HasRead, Shows, Goto, Answer, Fault, Changes, Operations, Value, Poll,
         dbVars, voteVars
  <2>8. \A q \in Requests :
         op'[q] = "list" /\ pc'[q] = "done" => Shows(answer[q], due[q])'
    BY <1>9, <1>a, <1>b, <1>c, <1>e DEF Fill, Types, StagesOf, Revisions, ListsByVersion,
         GoesBy, HasRead, Shows, Goto, Answer, Fault, Changes, Operations, Value, Poll,
         dbVars, voteVars
  <2> QED
    BY <2>1, <2>2, <2>3, <2>4, <2>5, <2>6, <2>7, <2>8 DEF ListsByVersion
<1>10. ASSUME NEW r \in Requests, Drop(r) PROVE ListsByVersion'
  BY <1>10, <1>a, <1>b, <1>c DEF Drop, Types, StagesOf, Revisions, ListsByVersion, GoesBy,
       HasRead, Shows, Goto, Fault, Changes, Operations, Value, Poll, dbVars, voteVars
<1>11. ASSUME NEW r \in Requests, Increment(r) PROVE ListsByVersion'
  <2>1. \A q \in Requests : GoesBy(q)' => seen'[q] \in Nat /\ seen'[q] <= version'
    BY <1>11, <1>a, <1>b, <1>c, <1>d DEF Increment, Types, StagesOf, Revisions,
         ListsByVersion, GoesBy, HasRead, Shows, Goto, Answer, Fault, Changes, Operations,
         Value, Poll, dbVars, voteVars
  <2>2. \A q \in Requests : op'[q] = "list" /\ pc'[q] = "version" => due'[q] <= confirmed'
    BY <1>11, <1>a, <1>b, <1>c, <1>d DEF Increment, Types, StagesOf, Revisions,
         ListsByVersion, GoesBy, HasRead, Shows, Goto, Answer, Fault, Changes, Operations,
         Value, Poll, dbVars, voteVars
  <2>3. \A v \in Versions : v > version' => lists'[v] = None
    BY <1>11, <1>a, <1>b, <1>c, <1>d DEF Increment, Types, StagesOf, Revisions,
         ListsByVersion, GoesBy, HasRead, Shows, Goto, Answer, Fault, Changes, Operations,
         Value, Poll, dbVars, voteVars
  <2>4. lists'[version'] # None => Shows(lists[version], confirmed)'
    BY <1>11, <1>a, <1>b, <1>c, <1>d DEF Increment, Types, StagesOf, Revisions,
         ListsByVersion, GoesBy, HasRead, Shows, Goto, Answer, Fault, Changes, Operations,
         Value, Poll, dbVars, voteVars
  <2>5. \A q \in Requests : HasRead(q)' /\ seen'[q] = version' => Shows(got[q], confirmed)'
    BY <1>11, <1>a, <1>b, <1>c, <1>d DEF Increment, Types, StagesOf, Revisions,
         ListsByVersion, GoesBy, HasRead, Shows, Goto, Answer, Fault, Changes, Operations,
         Value, Poll, dbVars, voteVars
  <2>6. \A q \in Requests :
         GoesBy(q)' /\ lists'[seen'[q]] # None => Shows(lists[seen[q]], due[q])'
    BY <1>11, <1>a, <1>b, <1>c, <1>d DEF Increment, Types, StagesOf, Revisions,
         ListsByVersion, GoesBy, HasRead, Shows, Goto, Answer, Fault, Changes, Operations,
         Value, Poll, dbVars, voteVars
  <2>7. \A p, q \in Requests :
         GoesBy(p)' /\ HasRead(q)' /\ seen'[q] = seen'[p] => Shows(got[q], due[p])'
    BY <1>11, <1>a, <1>b, <1>c, <1>d DEF Increment, Types, StagesOf, Revisions,
         ListsByVersion, GoesBy, HasRead, Shows, Goto, Answer, Fault, Changes, Operations,
         Value, Poll, dbVars, voteVars
  <2>8. \A q \in Requests :
         op'[q] = "list" /\ pc'[q] = "done" => Shows(answer[q], due[q])'
    BY <1>11, <1>a, <1>b, <1>c, <1>d DEF Increment, Types, StagesOf, Revisions,
         ListsByVersion, GoesBy, HasRead, Shows, Goto, Answer, Fault, Changes, Operations,
         Value, Poll, dbVars, voteVars
  <2> QED
    BY <2>1, <2>2, <2>3, <2>4, <2>5, <2>6, <2>7, <2>8 DEF ListsByVersion
<1>12. ASSUME NEW r \in Requests, Fail(r) PROVE ListsByVersion'
  BY <1>12, <1>a, <1>b, <1>c DEF Fail, Types, StagesOf, Revisions, ListsByVersion, GoesBy,
       HasRead, Shows, Goto, Changes, Operations, Value, Poll, dbVars, voteVars, cacheVars
<1>13. CASE CountVote
  BY <1>13, <1>a, <1>b, <1>c DEF CountVote, Types, StagesOf, Revisions, ListsByVersion,
       GoesBy, HasRead, Shows, Changes, Operations, Value, Poll, dbVars, cacheVars,
       requestVars
<1>14. CASE DropOnVote
  BY <1>14, <1>a, <1>b, <1>c DEF DropOnVote, Types, StagesOf, Revisions, ListsByVersion,
       GoesBy, HasRead, Shows, Fault, Changes, Operations, Value, Poll, dbVars,
       requestVars
<1>15. CASE IncrementOnVote
  <2>1. \A q \in Requests : GoesBy(q)' => seen'[q] \in Nat /\ seen'[q] <= version'
    BY <1>15, <1>a, <1>b, <1>c, <1>d DEF IncrementOnVote, Types, StagesOf, Revisions,
         ListsByVersion, GoesBy, HasRead, Shows, Fault, Changes, Operations, Value, Poll,
         dbVars, requestVars
  <2>2. \A q \in Requests : op'[q] = "list" /\ pc'[q] = "version" => due'[q] <= confirmed'
    BY <1>15, <1>a, <1>b, <1>c, <1>d DEF IncrementOnVote, Types, StagesOf, Revisions,
         ListsByVersion, GoesBy, HasRead, Shows, Fault, Changes, Operations, Value, Poll,
         dbVars, requestVars
  <2>3. \A v \in Versions : v > version' => lists'[v] = None
    BY <1>15, <1>a, <1>b, <1>c, <1>d DEF IncrementOnVote, Types, StagesOf, Revisions,
         ListsByVersion, GoesBy, HasRead, Shows, Fault, Changes, Operations, Value, Poll,
         dbVars, requestVars
  <2>4. lists'[version'] # None => Shows(lists[version], confirmed)'
    BY <1>15, <1>a, <1>b, <1>c, <1>d DEF IncrementOnVote, Types, StagesOf, Revisions,
         ListsByVersion, GoesBy, HasRead, Shows, Fault, Changes, Operations, Value, Poll,
         dbVars, requestVars
  <2>5. \A q \in Requests : HasRead(q)' /\ seen'[q] = version' => Shows(got[q], confirmed)'
    BY <1>15, <1>a, <1>b, <1>c, <1>d DEF IncrementOnVote, Types, StagesOf, Revisions,
         ListsByVersion, GoesBy, HasRead, Shows, Fault, Changes, Operations, Value, Poll,
         dbVars, requestVars
  <2>6. \A q \in Requests :
         GoesBy(q)' /\ lists'[seen'[q]] # None => Shows(lists[seen[q]], due[q])'
    BY <1>15, <1>a, <1>b, <1>c, <1>d DEF IncrementOnVote, Types, StagesOf, Revisions,
         ListsByVersion, GoesBy, HasRead, Shows, Fault, Changes, Operations, Value, Poll,
         dbVars, requestVars
  <2>7. \A p, q \in Requests :
         GoesBy(p)' /\ HasRead(q)' /\ seen'[q] = seen'[p] => Shows(got[q], due[p])'
    BY <1>15, <1>a, <1>b, <1>c, <1>d DEF IncrementOnVote, Types, StagesOf, Revisions,
         ListsByVersion, GoesBy, HasRead, Shows, Fault, Changes, Operations, Value, Poll,
         dbVars, requestVars
  <2>8. \A q \in Requests :
         op'[q] = "list" /\ pc'[q] = "done" => Shows(answer[q], due[q])'
    BY <1>15, <1>a, <1>b, <1>c, <1>d DEF IncrementOnVote, Types, StagesOf, Revisions,
         ListsByVersion, GoesBy, HasRead, Shows, Fault, Changes, Operations, Value, Poll,
         dbVars, requestVars
  <2> QED
    BY <2>1, <2>2, <2>3, <2>4, <2>5, <2>6, <2>7, <2>8 DEF ListsByVersion
<1>16. CASE EndVote
  BY <1>16, <1>a, <1>b, <1>c DEF EndVote, Types, StagesOf, Revisions, ListsByVersion,
       GoesBy, HasRead, Shows, Changes, Operations, Value, Poll, cacheVars, requestVars
<1>17. CASE Expire
  BY <1>17, <1>a, <1>b, <1>c DEF Expire, Types, StagesOf, Revisions, ListsByVersion,
       GoesBy, HasRead, Shows, Changes, Operations, Value, Poll, dbVars, voteVars,
       requestVars
<1>18. ASSUME NEW v \in Versions, ExpirePage(v) PROVE ListsByVersion'
  BY <1>18, <1>a, <1>b, <1>c DEF ExpirePage, Types, StagesOf, Revisions, ListsByVersion,
       GoesBy, HasRead, Shows, Changes, Operations, Value, Poll, dbVars, voteVars,
       requestVars
<1>19. CASE UNCHANGED vars
  BY <1>19, <1>a, <1>b, <1>c DEF vars, Types, StagesOf, Revisions, ListsByVersion, GoesBy,
       HasRead, Shows, Changes, Operations, Value, Poll, dbVars, voteVars, cacheVars,
       requestVars
<1> QED
  BY <1>1, <1>2, <1>3, <1>4, <1>5, <1>6, <1>7, <1>8, <1>9, <1>10, <1>11, <1>12, <1>13,
       <1>14, <1>15, <1>16, <1>17, <1>18, <1>19 DEF Next, Serve, CountVotes

\* The step of the invariant, from its parts.
LEMMA PollCacheStep == PollCacheInv /\ [Next]_vars => PollCacheInv'
<1> SUFFICES ASSUME PollCacheInv, [Next]_vars PROVE PollCacheInv'
  OBVIOUS
<1>1. Types /\ Revisions /\ VersionBound /\ \A r \in Requests : StagesOf(r) /\ OwnChange(r)
  BY DEF PollCacheInv
<1>2. Types' /\ Revisions' /\ VersionBound'
  BY <1>1, TypesStep, RevisionsStep, VersionStep
<1>3. \A r \in Requests : StagesOf(r)'
  BY <1>1, StagesStep
<1>4. \A r \in Requests : OwnChange(r)'
  BY <1>1, OwnChangeStep
<1>5. faults' = 0 => ListsByVersion'
  BY ListsStep
<1> QED
  BY <1>2, <1>3, <1>4, <1>5 DEF PollCacheInv

\* The inductive invariant of the calls, the vote consumer and the cache.
THEOREM PollCacheInvCorrect == Spec => []PollCacheInv
  BY PollCacheInit, PollCacheStep, PTL DEF Spec

\* A list shows the changes that were answered before it was asked for, and a
\* creation, an update or a deletion answers with itself, whatever reads and votes
\* are under way, as long as no operation of the cache fails.
THEOREM AnswersCorrect == Spec => []AnswersShowChanges
<1>1. PollCacheInv => AnswersShowChanges
  <2> SUFFICES ASSUME PollCacheInv, faults = 0,
                      NEW r \in Requests, pc[r] = "done", op[r] # "get"
               PROVE  Shows(answer[r], due[r])
    BY DEF AnswersShowChanges
  <2>1. op[r] \in Changes \cup {"list"}
    BY DEF PollCacheInv, StagesOf, Operations
  <2>2. CASE op[r] \in Changes
    BY <2>2 DEF PollCacheInv, OwnChange
  <2>3. CASE op[r] = "list"
    BY <2>3 DEF PollCacheInv, ListsByVersion
  <2> QED
    BY <2>1, <2>2, <2>3
<1> QED
  BY <1>1, PollCacheInvCorrect, PTL

-----------------------------------------------------------------------------
(* The key of the poll.  What a request has read, and no change or vote has *)
(* overtaken, is what the database holds; that is what it stores.          *)

\* What the variables of the history and the key range over.
KeyTypes ==
  /\ suspect \in BOOLEAN
  /\ across \in [Requests -> BOOLEAN]
  /\ cached # None => cached \in Poll
  /\ \A r \in Requests : pc[r] = "fill" /\ op[r] # "list" => got[r] \in Poll

\* What a request has read and nothing has overtaken.
ReadsCurrent ==
  \A r \in Requests : ~ across[r] =>
    /\ pc[r] = "options" => life = "live" /\ got[r].content = revision
    /\ pc[r] = "fill" => got[r] = InDatabase

\* The last change reads back a poll that is there.
LastChangeReadsBack ==
  \A r \in Requests :
    /\ op[r] \in {"create", "update"}
    /\ pc[r] \in {"read", "options", "fill"}
    /\ due[r] = revision
    => life = "live"

\* Nothing is stored above suspicion between a vote's drop and its commit, and what
\* is stored shows the changes that are about to be answered as well.
KeyBetween ==
  cached # None /\ ~ suspect =>
    /\ voteStage \notin {"increment", "commit"}
    /\ \A r \in Requests :
         op[r] \in Changes /\ pc[r] = "increment" => Shows(cached, due[r])

KeyInv ==
  /\ KeyTypes
  /\ ReadsCurrent
  /\ LastChangeReadsBack
  /\ KeyBetween
  /\ PollOutdatedOnlyByOverlap

LEMMA KeyInit == Init => KeyInv
  BY DEF Init, KeyInv, KeyTypes, ReadsCurrent, LastChangeReadsBack, KeyBetween,
         PollOutdatedOnlyByOverlap

\* The types are kept by each action.
LEMMA KeyTypesStep ==
  ASSUME Types, \A r \in Requests : StagesOf(r), KeyTypes, [Next]_vars
  PROVE  KeyTypes'
<1>1. ASSUME NEW r \in Requests, \E o \in Operations : Call(r, o) PROVE KeyTypes'
  BY <1>1 DEF Call, Types, StagesOf, KeyTypes, Poll, Changes, Operations, Goto, dbVars,
       voteVars, cacheVars, historyVars
<1>2. ASSUME NEW r \in Requests, LookupPoll(r) PROVE KeyTypes'
  BY <1>2 DEF LookupPoll, Types, StagesOf, KeyTypes, Poll, Changes, Operations, Goto,
       Answer, Fault, dbVars, voteVars, historyVars
<1>3. ASSUME NEW r \in Requests, LookupVersion(r) PROVE KeyTypes'
  BY <1>3 DEF LookupVersion, Types, StagesOf, KeyTypes, Poll, Changes, Operations, Goto,
       Fault, dbVars, voteVars, historyVars
<1>4. ASSUME NEW r \in Requests, LookupPage(r) PROVE KeyTypes'
  BY <1>4 DEF LookupPage, Types, StagesOf, KeyTypes, Poll, Changes, Operations, Goto,
       Answer, Fault, dbVars, voteVars, historyVars
<1>5. ASSUME NEW r \in Requests, Commit(r) PROVE KeyTypes'
  BY <1>5 DEF Commit, Types, StagesOf, KeyTypes, Poll, Changes, Operations, Goto,
       Overtake, voteVars, cacheVars
<1>6. ASSUME NEW r \in Requests, ReadPoll(r) PROVE KeyTypes'
  BY <1>6 DEF ReadPoll, Types, StagesOf, KeyTypes, Poll, Changes, Operations, Goto,
       Answer, AfterRead, dbVars, voteVars, cacheVars
<1>7. ASSUME NEW r \in Requests, ReadOptions(r) PROVE KeyTypes'
  BY <1>7 DEF ReadOptions, Types, StagesOf, KeyTypes, Poll, Changes, Operations, Goto,
       AfterRead, dbVars, voteVars, cacheVars, historyVars
<1>8. ASSUME NEW r \in Requests, AnswerUncached(r) PROVE KeyTypes'
  BY <1>8 DEF AnswerUncached, Types, StagesOf, KeyTypes, Poll, Changes, Operations,
       Goto, Answer, dbVars, voteVars, cacheVars, historyVars
<1>9. ASSUME NEW r \in Requests, Fill(r) PROVE KeyTypes'
  BY <1>9 DEF Fill, Types, StagesOf, KeyTypes, Poll, Changes, Operations, Goto, Answer,
       Fault, dbVars, voteVars
<1>10. ASSUME NEW r \in Requests, Drop(r) PROVE KeyTypes'
  BY <1>10 DEF Drop, Types, StagesOf, KeyTypes, Poll, Changes, Operations, Goto,
       Emptied, Fault, dbVars, voteVars
<1>11. ASSUME NEW r \in Requests, Increment(r) PROVE KeyTypes'
  BY <1>11 DEF Increment, Types, StagesOf, KeyTypes, Poll, Changes, Operations, Goto,
       Answer, Fault, dbVars, voteVars, historyVars
<1>12. ASSUME NEW r \in Requests, Fail(r) PROVE KeyTypes'
  BY <1>12 DEF Fail, Types, StagesOf, KeyTypes, Poll, Changes, Operations, Goto, dbVars,
       voteVars, cacheVars
<1>13. CASE CountVote
  BY <1>13 DEF CountVote, Types, StagesOf, KeyTypes, Poll, Changes, Operations, dbVars,
       cacheVars, requestVars, historyVars
<1>14. CASE DropOnVote
  BY <1>14 DEF DropOnVote, Types, StagesOf, KeyTypes, Poll, Changes, Operations,
       Emptied, Fault, dbVars, requestVars
<1>15. CASE IncrementOnVote
  BY <1>15 DEF IncrementOnVote, Types, StagesOf, KeyTypes, Poll, Changes, Operations,
       Fault, dbVars, requestVars, historyVars
<1>16. CASE EndVote
  <2>1. CASE votes' # votes
    BY <1>16, <2>1 DEF EndVote, Types, KeyTypes, Poll, Overtake, cacheVars,
         requestVars
  <2>2. CASE votes' = votes
    BY <1>16, <2>2 DEF EndVote, Types, KeyTypes, Poll, Overtake, cacheVars,
         requestVars
  <2> QED
    BY <2>1, <2>2
<1>17. CASE Expire
  BY <1>17 DEF Expire, Types, StagesOf, KeyTypes, Poll, Changes, Operations, Emptied,
       dbVars, voteVars, requestVars
<1>18. ASSUME NEW v \in Versions, ExpirePage(v) PROVE KeyTypes'
  BY <1>18 DEF ExpirePage, Types, StagesOf, KeyTypes, Poll, Changes, Operations, dbVars,
       voteVars, requestVars, historyVars
<1>19. CASE UNCHANGED vars
  BY <1>19 DEF Types, StagesOf, KeyTypes, Poll, Changes, Operations, vars, dbVars,
       voteVars, cacheVars, requestVars, historyVars
<1> QED
  BY <1>1, <1>2, <1>3, <1>4, <1>5, <1>6, <1>7, <1>8, <1>9, <1>10, <1>11, <1>12, <1>13,
       <1>14, <1>15, <1>16, <1>17, <1>18, <1>19 DEF Next, Serve, CountVotes

\* Each change marks those who have read what it changes.
LEMMA ReadsCurrentStep ==
  ASSUME Types, \A r \in Requests : StagesOf(r), KeyTypes,
         ReadsCurrent, [Next]_vars
  PROVE  ReadsCurrent'
<1>1. ASSUME NEW r \in Requests, \E o \in Operations : Call(r, o) PROVE ReadsCurrent'
  BY <1>1 DEF Call, Types, StagesOf, KeyTypes, ReadsCurrent, InDatabase, Poll, Changes,
       Operations, Goto, dbVars, voteVars, cacheVars, historyVars
<1>2. ASSUME NEW r \in Requests, LookupPoll(r) PROVE ReadsCurrent'
  BY <1>2 DEF LookupPoll, Types, StagesOf, KeyTypes, ReadsCurrent, InDatabase, Poll,
       Changes, Operations, Goto, Answer, Fault, dbVars, voteVars, historyVars
<1>3. ASSUME NEW r \in Requests, LookupVersion(r) PROVE ReadsCurrent'
  BY <1>3 DEF LookupVersion, Types, StagesOf, KeyTypes, ReadsCurrent, InDatabase, Poll,
       Changes, Operations, Goto, Fault, dbVars, voteVars, historyVars
<1>4. ASSUME NEW r \in Requests, LookupPage(r) PROVE ReadsCurrent'
  BY <1>4 DEF LookupPage, Types, StagesOf, KeyTypes, ReadsCurrent, InDatabase, Poll,
       Changes, Operations, Goto, Answer, Fault, dbVars, voteVars, historyVars
<1>5. ASSUME NEW r \in Requests, Commit(r) PROVE ReadsCurrent'
  BY <1>5 DEF Commit, Types, StagesOf, KeyTypes, ReadsCurrent, InDatabase, Poll,
       Changes, Operations, Goto, Overtake, voteVars, cacheVars
<1>6. ASSUME NEW r \in Requests, ReadPoll(r) PROVE ReadsCurrent'
  BY <1>6 DEF ReadPoll, Types, StagesOf, KeyTypes, ReadsCurrent, InDatabase, Poll,
       Changes, Operations, Goto, Answer, AfterRead, dbVars, voteVars, cacheVars
<1>7. ASSUME NEW r \in Requests, ReadOptions(r) PROVE ReadsCurrent'
  BY <1>7 DEF ReadOptions, Types, StagesOf, KeyTypes, ReadsCurrent, InDatabase, Poll,
       Changes, Operations, Goto, AfterRead, dbVars, voteVars, cacheVars, historyVars
<1>8. ASSUME NEW r \in Requests, AnswerUncached(r) PROVE ReadsCurrent'
  BY <1>8 DEF AnswerUncached, Types, StagesOf, KeyTypes, ReadsCurrent, InDatabase, Poll,
       Changes, Operations, Goto, Answer, dbVars, voteVars, cacheVars, historyVars
<1>9. ASSUME NEW r \in Requests, Fill(r) PROVE ReadsCurrent'
  BY <1>9 DEF Fill, Types, StagesOf, KeyTypes, ReadsCurrent, InDatabase, Poll, Changes,
       Operations, Goto, Answer, Fault, dbVars, voteVars
<1>10. ASSUME NEW r \in Requests, Drop(r) PROVE ReadsCurrent'
  BY <1>10 DEF Drop, Types, StagesOf, KeyTypes, ReadsCurrent, InDatabase, Poll, Changes,
       Operations, Goto, Emptied, Fault, dbVars, voteVars
<1>11. ASSUME NEW r \in Requests, Increment(r) PROVE ReadsCurrent'
  BY <1>11 DEF Increment, Types, StagesOf, KeyTypes, ReadsCurrent, InDatabase, Poll,
       Changes, Operations, Goto, Answer, Fault, dbVars, voteVars, historyVars
<1>12. ASSUME NEW r \in Requests, Fail(r) PROVE ReadsCurrent'
  BY <1>12 DEF Fail, Types, StagesOf, KeyTypes, ReadsCurrent, InDatabase, Poll, Changes,
       Operations, Goto, dbVars, voteVars, cacheVars
<1>13. CASE CountVote
  BY <1>13 DEF CountVote, Types, StagesOf, KeyTypes, ReadsCurrent, InDatabase, Poll,
       Changes, Operations, dbVars, cacheVars, requestVars, historyVars
<1>14. CASE DropOnVote
  BY <1>14 DEF DropOnVote, Types, StagesOf, KeyTypes, ReadsCurrent, InDatabase, Poll,
       Changes, Operations, Emptied, Fault, dbVars, requestVars
<1>15. CASE IncrementOnVote
  BY <1>15 DEF IncrementOnVote, Types, StagesOf, KeyTypes, ReadsCurrent, InDatabase,
       Poll, Changes, Operations, Fault, dbVars, requestVars, historyVars
<1>16. CASE EndVote
  <2>1. CASE votes' # votes
    BY <1>16, <2>1 DEF EndVote, Types, StagesOf, KeyTypes, ReadsCurrent,
         InDatabase, Overtake, cacheVars, requestVars
  <2>2. CASE votes' = votes
    BY <1>16, <2>2 DEF EndVote, Types, StagesOf, KeyTypes, ReadsCurrent,
         InDatabase, Overtake, cacheVars, requestVars
  <2> QED
    BY <2>1, <2>2
<1>17. CASE Expire
  BY <1>17 DEF Expire, Types, StagesOf, KeyTypes, ReadsCurrent, InDatabase, Poll,
       Changes, Operations, Emptied, dbVars, voteVars, requestVars
<1>18. ASSUME NEW v \in Versions, ExpirePage(v) PROVE ReadsCurrent'
  BY <1>18 DEF ExpirePage, Types, StagesOf, KeyTypes, ReadsCurrent, InDatabase, Poll,
       Changes, Operations, dbVars, voteVars, requestVars, historyVars
<1>19. CASE UNCHANGED vars
  BY <1>19 DEF Types, StagesOf, KeyTypes, ReadsCurrent, InDatabase, Poll, Changes,
       Operations, vars, dbVars, voteVars, cacheVars, requestVars, historyVars
<1> QED
  BY <1>1, <1>2, <1>3, <1>4, <1>5, <1>6, <1>7, <1>8, <1>9, <1>10, <1>11, <1>12, <1>13,
       <1>14, <1>15, <1>16, <1>17, <1>18, <1>19 DEF Next, Serve, CountVotes

\* A deletion is the last change while there is nothing to read back.
LEMMA LastChangeStep ==
  ASSUME Types, \A r \in Requests : StagesOf(r), Revisions,
         LastChangeReadsBack, [Next]_vars
  PROVE  LastChangeReadsBack'
<1>1. ASSUME NEW r \in Requests, \E o \in Operations : Call(r, o) PROVE LastChangeReadsBack'
  BY <1>1 DEF Call, Types, StagesOf, Revisions, LastChangeReadsBack, Changes,
       Operations, Goto, dbVars, voteVars, cacheVars, historyVars
<1>2. ASSUME NEW r \in Requests, LookupPoll(r) PROVE LastChangeReadsBack'
  BY <1>2 DEF LookupPoll, Types, StagesOf, Revisions, LastChangeReadsBack, Changes,
       Operations, Goto, Answer, Fault, dbVars, voteVars, historyVars
<1>3. ASSUME NEW r \in Requests, LookupVersion(r) PROVE LastChangeReadsBack'
  BY <1>3 DEF LookupVersion, Types, StagesOf, Revisions, LastChangeReadsBack, Changes,
       Operations, Goto, Fault, dbVars, voteVars, historyVars
<1>4. ASSUME NEW r \in Requests, LookupPage(r) PROVE LastChangeReadsBack'
  BY <1>4 DEF LookupPage, Types, StagesOf, Revisions, LastChangeReadsBack, Changes,
       Operations, Goto, Answer, Fault, dbVars, voteVars, historyVars
<1>5. ASSUME NEW r \in Requests, Commit(r) PROVE LastChangeReadsBack'
  BY <1>5 DEF Commit, Types, StagesOf, Revisions, LastChangeReadsBack, Changes,
       Operations, Goto, Overtake, voteVars, cacheVars
<1>6. ASSUME NEW r \in Requests, ReadPoll(r) PROVE LastChangeReadsBack'
  BY <1>6 DEF ReadPoll, Types, StagesOf, Revisions, LastChangeReadsBack, Changes,
       Operations, Goto, Answer, AfterRead, dbVars, voteVars, cacheVars
<1>7. ASSUME NEW r \in Requests, ReadOptions(r) PROVE LastChangeReadsBack'
  BY <1>7 DEF ReadOptions, Types, StagesOf, Revisions, LastChangeReadsBack, Changes,
       Operations, Goto, AfterRead, dbVars, voteVars, cacheVars, historyVars
<1>8. ASSUME NEW r \in Requests, AnswerUncached(r) PROVE LastChangeReadsBack'
  BY <1>8 DEF AnswerUncached, Types, StagesOf, Revisions, LastChangeReadsBack, Changes,
       Operations, Goto, Answer, dbVars, voteVars, cacheVars, historyVars
<1>9. ASSUME NEW r \in Requests, Fill(r) PROVE LastChangeReadsBack'
  BY <1>9 DEF Fill, Types, StagesOf, Revisions, LastChangeReadsBack, Changes,
       Operations, Goto, Answer, Fault, dbVars, voteVars
<1>10. ASSUME NEW r \in Requests, Drop(r) PROVE LastChangeReadsBack'
  BY <1>10 DEF Drop, Types, StagesOf, Revisions, LastChangeReadsBack, Changes,
       Operations, Goto, Emptied, Fault, dbVars, voteVars
<1>11. ASSUME NEW r \in Requests, Increment(r) PROVE LastChangeReadsBack'
  BY <1>11 DEF Increment, Types, StagesOf, Revisions, LastChangeReadsBack, Changes,
       Operations, Goto, Answer, Fault, dbVars, voteVars, historyVars
<1>12. ASSUME NEW r \in Requests, Fail(r) PROVE LastChangeReadsBack'
  BY <1>12 DEF Fail, Types, StagesOf, Revisions, LastChangeReadsBack, Changes,
       Operations, Goto, dbVars, voteVars, cacheVars
<1>13. CASE CountVote
  BY <1>13 DEF CountVote, Types, StagesOf, Revisions, LastChangeReadsBack, Changes,
       Operations, dbVars, cacheVars, requestVars, historyVars
<1>14. CASE DropOnVote
  BY <1>14 DEF DropOnVote, Types, StagesOf, Revisions, LastChangeReadsBack, Changes,
       Operations, Emptied, Fault, dbVars, requestVars
<1>15. CASE IncrementOnVote
  BY <1>15 DEF IncrementOnVote, Types, StagesOf, Revisions, LastChangeReadsBack,
       Changes, Operations, Fault, dbVars, requestVars, historyVars
<1>16. CASE EndVote
  BY <1>16 DEF EndVote, Types, StagesOf, Revisions, LastChangeReadsBack, Changes,
       Operations, Overtake, cacheVars, requestVars
<1>17. CASE Expire
  BY <1>17 DEF Expire, Types, StagesOf, Revisions, LastChangeReadsBack, Changes,
       Operations, Emptied, dbVars, voteVars, requestVars
<1>18. ASSUME NEW v \in Versions, ExpirePage(v) PROVE LastChangeReadsBack'
  BY <1>18 DEF ExpirePage, Types, StagesOf, Revisions, LastChangeReadsBack, Changes,
       Operations, dbVars, voteVars, requestVars, historyVars
<1>19. CASE UNCHANGED vars
  BY <1>19 DEF Types, StagesOf, Revisions, LastChangeReadsBack, Changes, Operations,
       vars, dbVars, voteVars, cacheVars, requestVars, historyVars
<1> QED
  BY <1>1, <1>2, <1>3, <1>4, <1>5, <1>6, <1>7, <1>8, <1>9, <1>10, <1>11, <1>12, <1>13,
       <1>14, <1>15, <1>16, <1>17, <1>18, <1>19 DEF Next, Serve, CountVotes

\* A request stores what shows every change, or stores it under suspicion.
LEMMA KeyBetweenStep ==
  ASSUME Types, \A r \in Requests : StagesOf(r), Revisions,
         KeyInv, [Next]_vars
  PROVE  KeyBetween'
<1>1. ASSUME NEW r \in Requests, \E o \in Operations : Call(r, o) PROVE KeyBetween'
  BY <1>1, CacheAssumption DEF Call, Types, StagesOf, Revisions, KeyInv, KeyTypes,
       ReadsCurrent, KeyBetween, PollOutdatedOnlyByOverlap, InDatabase, Shows,
       ToReplace, Poll, Changes, Operations, Goto, dbVars, voteVars, cacheVars,
       historyVars
<1>2. ASSUME NEW r \in Requests, LookupPoll(r) PROVE KeyBetween'
  BY <1>2, CacheAssumption DEF LookupPoll, Types, StagesOf, Revisions, KeyInv, KeyTypes,
       ReadsCurrent, KeyBetween, PollOutdatedOnlyByOverlap, InDatabase, Shows,
       ToReplace, Poll, Changes, Operations, Goto, Answer, Fault, dbVars, voteVars,
       historyVars
<1>3. ASSUME NEW r \in Requests, LookupVersion(r) PROVE KeyBetween'
  BY <1>3, CacheAssumption DEF LookupVersion, Types, StagesOf, Revisions, KeyInv,
       KeyTypes, ReadsCurrent, KeyBetween, PollOutdatedOnlyByOverlap, InDatabase, Shows,
       ToReplace, Poll, Changes, Operations, Goto, Fault, dbVars, voteVars, historyVars
<1>4. ASSUME NEW r \in Requests, LookupPage(r) PROVE KeyBetween'
  BY <1>4, CacheAssumption DEF LookupPage, Types, StagesOf, Revisions, KeyInv, KeyTypes,
       ReadsCurrent, KeyBetween, PollOutdatedOnlyByOverlap, InDatabase, Shows,
       ToReplace, Poll, Changes, Operations, Goto, Answer, Fault, dbVars, voteVars,
       historyVars
<1>5. ASSUME NEW r \in Requests, Commit(r) PROVE KeyBetween'
  BY <1>5, CacheAssumption DEF Commit, Types, StagesOf, Revisions, KeyInv, KeyTypes,
       ReadsCurrent, KeyBetween, PollOutdatedOnlyByOverlap, InDatabase, Shows,
       ToReplace, Poll, Changes, Operations, Goto, Overtake, voteVars, cacheVars
<1>6. ASSUME NEW r \in Requests, ReadPoll(r) PROVE KeyBetween'
  BY <1>6, CacheAssumption DEF ReadPoll, Types, StagesOf, Revisions, KeyInv, KeyTypes,
       ReadsCurrent, KeyBetween, PollOutdatedOnlyByOverlap, InDatabase, Shows,
       ToReplace, Poll, Changes, Operations, Goto, Answer, AfterRead, dbVars, voteVars,
       cacheVars
<1>7. ASSUME NEW r \in Requests, ReadOptions(r) PROVE KeyBetween'
  BY <1>7, CacheAssumption DEF ReadOptions, Types, StagesOf, Revisions, KeyInv,
       KeyTypes, ReadsCurrent, KeyBetween, PollOutdatedOnlyByOverlap, InDatabase, Shows,
       ToReplace, Poll, Changes, Operations, Goto, AfterRead, dbVars, voteVars,
       cacheVars, historyVars
<1>8. ASSUME NEW r \in Requests, AnswerUncached(r) PROVE KeyBetween'
  BY <1>8, CacheAssumption DEF AnswerUncached, Types, StagesOf, Revisions, KeyInv,
       KeyTypes, ReadsCurrent, KeyBetween, PollOutdatedOnlyByOverlap, InDatabase, Shows,
       ToReplace, Poll, Changes, Operations, Goto, Answer, dbVars, voteVars, cacheVars,
       historyVars
<1>9. ASSUME NEW r \in Requests, Fill(r) PROVE KeyBetween'
  <2>1. /\ op' = op /\ due' = due /\ confirmed' = confirmed /\ voteStage' = voteStage
        /\ life' = life /\ revision' = revision /\ votes' = votes
        /\ pc' \in {[pc EXCEPT ![r] = "increment"], [pc EXCEPT ![r] = "done"]}
        /\ op[r] \in Changes => pc' = [pc EXCEPT ![r] = "increment"]
    BY <1>9 DEF Fill, Answer, Goto, dbVars, voteVars
  <2>2. CASE op[r] = "list" /\ UNCHANGED <<cached, suspect>>
    BY <1>9, CacheAssumption, <2>1, <2>2 DEF KeyBetween, KeyInv, Types, Revisions, InDatabase, Shows, Changes
  <2>3. CASE op[r] # "list" /\ cached' = got[r]
             /\ suspect' = (across[r] \/ voteStage \in {"increment", "commit"})
    <3>1. ~ suspect' => ~ across[r] /\ voteStage \notin {"increment", "commit"}
      BY <2>3
    <3>2. ~ suspect' => cached' = InDatabase /\ got[r] \in Poll
      BY <1>9, <2>3, <3>1 DEF Fill, KeyInv, KeyTypes, ReadsCurrent
    <3> QED
      BY <1>9, CacheAssumption, <2>1, <2>3, <3>1, <3>2 DEF KeyBetween, KeyInv, Types, Revisions, InDatabase, Shows, Changes
  <2>4. CASE cached' = cached /\ suspect' = (suspect \/ op[r] \in Changes)
    <3>1. ~ suspect' => ~ suspect /\ op[r] \notin Changes
      BY <2>4
    <3> QED
      BY <1>9, CacheAssumption, <2>1, <2>4, <3>1 DEF KeyBetween, KeyInv, Types, Revisions, InDatabase, Shows, Changes
  <2> QED
    BY <1>9, <2>2, <2>3, <2>4 DEF Fill
<1>10. ASSUME NEW r \in Requests, Drop(r) PROVE KeyBetween'
  BY <1>10, CacheAssumption DEF Drop, Types, StagesOf, Revisions, KeyInv, KeyTypes,
       ReadsCurrent, KeyBetween, PollOutdatedOnlyByOverlap, InDatabase, Shows,
       ToReplace, Poll, Changes, Operations, Goto, Emptied, Fault, dbVars, voteVars
<1>11. ASSUME NEW r \in Requests, Increment(r) PROVE KeyBetween'
  BY <1>11, CacheAssumption DEF Increment, Types, StagesOf, Revisions, KeyInv, KeyTypes,
       ReadsCurrent, KeyBetween, PollOutdatedOnlyByOverlap, InDatabase, Shows,
       ToReplace, Poll, Changes, Operations, Goto, Answer, Fault, dbVars, voteVars,
       historyVars
<1>12. ASSUME NEW r \in Requests, Fail(r) PROVE KeyBetween'
  BY <1>12, CacheAssumption DEF Fail, Types, StagesOf, Revisions, KeyInv, KeyTypes,
       ReadsCurrent, KeyBetween, PollOutdatedOnlyByOverlap, InDatabase, Shows,
       ToReplace, Poll, Changes, Operations, Goto, dbVars, voteVars, cacheVars
<1>13. CASE CountVote
  BY <1>13, CacheAssumption DEF CountVote, Types, StagesOf, Revisions, KeyInv, KeyTypes,
       ReadsCurrent, KeyBetween, PollOutdatedOnlyByOverlap, InDatabase, Shows,
       ToReplace, Poll, Changes, Operations, dbVars, cacheVars, requestVars, historyVars
<1>14. CASE DropOnVote
  BY <1>14, CacheAssumption DEF DropOnVote, Types, StagesOf, Revisions, KeyInv,
       KeyTypes, ReadsCurrent, KeyBetween, PollOutdatedOnlyByOverlap, InDatabase, Shows,
       ToReplace, Poll, Changes, Operations, Emptied, Fault, dbVars, requestVars
<1>15. CASE IncrementOnVote
  BY <1>15, CacheAssumption DEF IncrementOnVote, Types, StagesOf, Revisions, KeyInv,
       KeyTypes, ReadsCurrent, KeyBetween, PollOutdatedOnlyByOverlap, InDatabase, Shows,
       ToReplace, Poll, Changes, Operations, Fault, dbVars, requestVars, historyVars
<1>16. CASE EndVote
  BY <1>16, CacheAssumption DEF EndVote, Types, StagesOf, Revisions, KeyInv, KeyTypes,
       ReadsCurrent, KeyBetween, PollOutdatedOnlyByOverlap, InDatabase, Shows,
       ToReplace, Poll, Changes, Operations, Overtake, cacheVars, requestVars
<1>17. CASE Expire
  BY <1>17, CacheAssumption DEF Expire, Types, StagesOf, Revisions, KeyInv, KeyTypes,
       ReadsCurrent, KeyBetween, PollOutdatedOnlyByOverlap, InDatabase, Shows,
       ToReplace, Poll, Changes, Operations, Emptied, dbVars, voteVars, requestVars
<1>18. ASSUME NEW v \in Versions, ExpirePage(v) PROVE KeyBetween'
  BY <1>18, CacheAssumption DEF ExpirePage, Types, StagesOf, Revisions, KeyInv,
       KeyTypes, ReadsCurrent, KeyBetween, PollOutdatedOnlyByOverlap, InDatabase, Shows,
       ToReplace, Poll, Changes, Operations, dbVars, voteVars, requestVars, historyVars
<1>19. CASE UNCHANGED vars
  BY <1>19, CacheAssumption DEF Types, StagesOf, Revisions, KeyInv, KeyTypes,
       ReadsCurrent, KeyBetween, PollOutdatedOnlyByOverlap, InDatabase, Shows,
       ToReplace, Poll, Changes, Operations, vars, dbVars, voteVars, cacheVars,
       requestVars, historyVars
<1> QED
  BY <1>1, <1>2, <1>3, <1>4, <1>5, <1>6, <1>7, <1>8, <1>9, <1>10, <1>11, <1>12, <1>13,
       <1>14, <1>15, <1>16, <1>17, <1>18, <1>19 DEF Next, Serve, CountVotes

\* Each change empties the key, replaces what is under it or leaves it suspect.
LEMMA KeyStep ==
  ASSUME Types, \A r \in Requests : StagesOf(r), Revisions,
         KeyInv, [Next]_vars
  PROVE  PollOutdatedOnlyByOverlap'
<1>1. ASSUME NEW r \in Requests, \E o \in Operations : Call(r, o) PROVE PollOutdatedOnlyByOverlap'
  BY <1>1, CacheAssumption DEF Call, Types, StagesOf, Revisions, KeyInv, KeyTypes,
       ReadsCurrent, LastChangeReadsBack, KeyBetween, PollOutdatedOnlyByOverlap,
       InDatabase, Shows, ToReplace, Poll, Changes, Operations, Goto, dbVars, voteVars,
       cacheVars, historyVars
<1>2. ASSUME NEW r \in Requests, LookupPoll(r) PROVE PollOutdatedOnlyByOverlap'
  BY <1>2, CacheAssumption DEF LookupPoll, Types, StagesOf, Revisions, KeyInv, KeyTypes,
       ReadsCurrent, LastChangeReadsBack, KeyBetween, PollOutdatedOnlyByOverlap,
       InDatabase, Shows, ToReplace, Poll, Changes, Operations, Goto, Answer, Fault,
       dbVars, voteVars, historyVars
<1>3. ASSUME NEW r \in Requests, LookupVersion(r) PROVE PollOutdatedOnlyByOverlap'
  BY <1>3, CacheAssumption DEF LookupVersion, Types, StagesOf, Revisions, KeyInv,
       KeyTypes, ReadsCurrent, LastChangeReadsBack, KeyBetween,
       PollOutdatedOnlyByOverlap, InDatabase, Shows, ToReplace, Poll, Changes,
       Operations, Goto, Fault, dbVars, voteVars, historyVars
<1>4. ASSUME NEW r \in Requests, LookupPage(r) PROVE PollOutdatedOnlyByOverlap'
  BY <1>4, CacheAssumption DEF LookupPage, Types, StagesOf, Revisions, KeyInv, KeyTypes,
       ReadsCurrent, LastChangeReadsBack, KeyBetween, PollOutdatedOnlyByOverlap,
       InDatabase, Shows, ToReplace, Poll, Changes, Operations, Goto, Answer, Fault,
       dbVars, voteVars, historyVars
<1>5. ASSUME NEW r \in Requests, Commit(r) PROVE PollOutdatedOnlyByOverlap'
  BY <1>5, CacheAssumption DEF Commit, Types, StagesOf, Revisions, KeyInv, KeyTypes,
       ReadsCurrent, LastChangeReadsBack, KeyBetween, PollOutdatedOnlyByOverlap,
       InDatabase, Shows, ToReplace, Poll, Changes, Operations, Goto, Overtake,
       voteVars, cacheVars
<1>6. ASSUME NEW r \in Requests, ReadPoll(r) PROVE PollOutdatedOnlyByOverlap'
  BY <1>6, CacheAssumption DEF ReadPoll, Types, StagesOf, Revisions, KeyInv, KeyTypes,
       ReadsCurrent, LastChangeReadsBack, KeyBetween, PollOutdatedOnlyByOverlap,
       InDatabase, Shows, ToReplace, Poll, Changes, Operations, Goto, Answer, AfterRead,
       dbVars, voteVars, cacheVars
<1>7. ASSUME NEW r \in Requests, ReadOptions(r) PROVE PollOutdatedOnlyByOverlap'
  BY <1>7, CacheAssumption DEF ReadOptions, Types, StagesOf, Revisions, KeyInv,
       KeyTypes, ReadsCurrent, LastChangeReadsBack, KeyBetween,
       PollOutdatedOnlyByOverlap, InDatabase, Shows, ToReplace, Poll, Changes,
       Operations, Goto, AfterRead, dbVars, voteVars, cacheVars, historyVars
<1>8. ASSUME NEW r \in Requests, AnswerUncached(r) PROVE PollOutdatedOnlyByOverlap'
  BY <1>8, CacheAssumption DEF AnswerUncached, Types, StagesOf, Revisions, KeyInv,
       KeyTypes, ReadsCurrent, LastChangeReadsBack, KeyBetween,
       PollOutdatedOnlyByOverlap, InDatabase, Shows, ToReplace, Poll, Changes,
       Operations, Goto, Answer, dbVars, voteVars, cacheVars, historyVars
<1>9. ASSUME NEW r \in Requests, Fill(r) PROVE PollOutdatedOnlyByOverlap'
  <2>1. /\ op' = op /\ due' = due /\ confirmed' = confirmed /\ voteStage' = voteStage
        /\ life' = life /\ revision' = revision /\ votes' = votes
        /\ pc' \in {[pc EXCEPT ![r] = "increment"], [pc EXCEPT ![r] = "done"]}
        /\ op[r] \in Changes => pc' = [pc EXCEPT ![r] = "increment"]
    BY <1>9 DEF Fill, Answer, Goto, dbVars, voteVars
  <2>2. CASE op[r] = "list" /\ UNCHANGED <<cached, suspect>>
    BY <1>9, CacheAssumption, <2>1, <2>2 DEF PollOutdatedOnlyByOverlap, KeyInv, Types, Revisions,
           InDatabase, Shows, ToReplace, Changes
  <2>3. CASE op[r] # "list" /\ cached' = got[r]
             /\ suspect' = (across[r] \/ voteStage \in {"increment", "commit"})
    <3>1. ~ suspect' => ~ across[r] /\ voteStage \notin {"increment", "commit"}
      BY <2>3
    <3>2. ~ suspect' => cached' = InDatabase /\ got[r] \in Poll
      BY <1>9, <2>3, <3>1 DEF Fill, KeyInv, KeyTypes, ReadsCurrent
    <3> QED
      BY <1>9, CacheAssumption, <2>1, <2>3, <3>1, <3>2 DEF PollOutdatedOnlyByOverlap, KeyInv, Types, Revisions,
           InDatabase, Shows, ToReplace, Changes
  <2>4. CASE cached' = cached /\ suspect' = (suspect \/ op[r] \in Changes)
    <3>1. ~ suspect' => ~ suspect /\ op[r] \notin Changes
      BY <2>4
    <3> QED
      BY <1>9, CacheAssumption, <2>1, <2>4, <3>1 DEF PollOutdatedOnlyByOverlap, KeyInv, Types, Revisions,
           InDatabase, Shows, ToReplace, Changes
  <2> QED
    BY <1>9, <2>2, <2>3, <2>4 DEF Fill
<1>10. ASSUME NEW r \in Requests, Drop(r) PROVE PollOutdatedOnlyByOverlap'
  BY <1>10, CacheAssumption DEF Drop, Types, StagesOf, Revisions, KeyInv, KeyTypes,
       ReadsCurrent, LastChangeReadsBack, KeyBetween, PollOutdatedOnlyByOverlap,
       InDatabase, Shows, ToReplace, Poll, Changes, Operations, Goto, Emptied, Fault,
       dbVars, voteVars
<1>11. ASSUME NEW r \in Requests, Increment(r) PROVE PollOutdatedOnlyByOverlap'
  BY <1>11, CacheAssumption DEF Increment, Types, StagesOf, Revisions, KeyInv, KeyTypes,
       ReadsCurrent, LastChangeReadsBack, KeyBetween, PollOutdatedOnlyByOverlap,
       InDatabase, Shows, ToReplace, Poll, Changes, Operations, Goto, Answer, Fault,
       dbVars, voteVars, historyVars
<1>12. ASSUME NEW r \in Requests, Fail(r) PROVE PollOutdatedOnlyByOverlap'
  BY <1>12, CacheAssumption DEF Fail, Types, StagesOf, Revisions, KeyInv, KeyTypes,
       ReadsCurrent, LastChangeReadsBack, KeyBetween, PollOutdatedOnlyByOverlap,
       InDatabase, Shows, ToReplace, Poll, Changes, Operations, Goto, dbVars, voteVars,
       cacheVars
<1>13. CASE CountVote
  BY <1>13, CacheAssumption DEF CountVote, Types, StagesOf, Revisions, KeyInv, KeyTypes,
       ReadsCurrent, LastChangeReadsBack, KeyBetween, PollOutdatedOnlyByOverlap,
       InDatabase, Shows, ToReplace, Poll, Changes, Operations, dbVars, cacheVars,
       requestVars, historyVars
<1>14. CASE DropOnVote
  BY <1>14, CacheAssumption DEF DropOnVote, Types, StagesOf, Revisions, KeyInv,
       KeyTypes, ReadsCurrent, LastChangeReadsBack, KeyBetween,
       PollOutdatedOnlyByOverlap, InDatabase, Shows, ToReplace, Poll, Changes,
       Operations, Emptied, Fault, dbVars, requestVars
<1>15. CASE IncrementOnVote
  BY <1>15, CacheAssumption DEF IncrementOnVote, Types, StagesOf, Revisions, KeyInv,
       KeyTypes, ReadsCurrent, LastChangeReadsBack, KeyBetween,
       PollOutdatedOnlyByOverlap, InDatabase, Shows, ToReplace, Poll, Changes,
       Operations, Fault, dbVars, requestVars, historyVars
<1>16. CASE EndVote
  BY <1>16, CacheAssumption DEF EndVote, Types, StagesOf, Revisions, KeyInv, KeyTypes,
       ReadsCurrent, LastChangeReadsBack, KeyBetween, PollOutdatedOnlyByOverlap,
       InDatabase, Shows, ToReplace, Poll, Changes, Operations, Overtake, cacheVars,
       requestVars
<1>17. CASE Expire
  BY <1>17, CacheAssumption DEF Expire, Types, StagesOf, Revisions, KeyInv, KeyTypes,
       ReadsCurrent, LastChangeReadsBack, KeyBetween, PollOutdatedOnlyByOverlap,
       InDatabase, Shows, ToReplace, Poll, Changes, Operations, Emptied, dbVars,
       voteVars, requestVars
<1>18. ASSUME NEW v \in Versions, ExpirePage(v) PROVE PollOutdatedOnlyByOverlap'
  BY <1>18, CacheAssumption DEF ExpirePage, Types, StagesOf, Revisions, KeyInv,
       KeyTypes, ReadsCurrent, LastChangeReadsBack, KeyBetween,
       PollOutdatedOnlyByOverlap, InDatabase, Shows, ToReplace, Poll, Changes,
       Operations, dbVars, voteVars, requestVars, historyVars
<1>19. CASE UNCHANGED vars
  BY <1>19, CacheAssumption DEF Types, StagesOf, Revisions, KeyInv, KeyTypes,
       ReadsCurrent, LastChangeReadsBack, KeyBetween, PollOutdatedOnlyByOverlap,
       InDatabase, Shows, ToReplace, Poll, Changes, Operations, vars, dbVars, voteVars,
       cacheVars, requestVars, historyVars
<1> QED
  BY <1>1, <1>2, <1>3, <1>4, <1>5, <1>6, <1>7, <1>8, <1>9, <1>10, <1>11, <1>12, <1>13,
       <1>14, <1>15, <1>16, <1>17, <1>18, <1>19 DEF Next, Serve, CountVotes

\* The key of the poll holds what the database holds, or what the last change is about
\* to replace, and shows every change that was answered, unless a change or a vote
\* overtook the request that stored it, or a drop, a store or a reading back failed.
THEOREM PollKeyCorrect == Spec => []PollOutdatedOnlyByOverlap
<1>1. Init => PollCacheInv /\ KeyInv
  BY PollCacheInit, KeyInit
<1>2. PollCacheInv /\ KeyInv /\ [Next]_vars => PollCacheInv' /\ KeyInv'
  <2> SUFFICES ASSUME PollCacheInv, KeyInv, [Next]_vars PROVE PollCacheInv' /\ KeyInv'
    OBVIOUS
  <2>1. Types /\ Revisions /\ \A r \in Requests : StagesOf(r)
    BY DEF PollCacheInv
  <2>2. KeyTypes' /\ ReadsCurrent' /\ LastChangeReadsBack'
    BY <2>1, KeyTypesStep, ReadsCurrentStep, LastChangeStep DEF KeyInv
  <2>3. KeyBetween' /\ PollOutdatedOnlyByOverlap'
    BY <2>1, KeyBetweenStep, KeyStep
  <2> QED
    BY <2>2, <2>3, PollCacheStep DEF KeyInv
<1>3. KeyInv => PollOutdatedOnlyByOverlap
  BY DEF KeyInv
<1> QED
  BY <1>1, <1>2, <1>3, PTL DEF Spec

-----------------------------------------------------------------------------
(* The analytics. *)

\* The names of the keys.
Names == {"poll"} \cup Analytics!ToSet(Sections)

CacheTypes ==
  /\ DOMAIN keys = Analytics!ToSet(Analytics!Keys)
  /\ keys = [k \in Analytics!ToSet(Analytics!Keys) |-> keys[k]]
  /\ reader = [r \in Readers |-> reader[r]]
  /\ \A r \in Readers :
       reader[r] = [key |-> reader[r].key, left |-> reader[r].left, got |-> reader[r].got,
                    across |-> reader[r].across]
  /\ \A r \in Readers : reader[r].across \in BOOLEAN
  /\ consumer \in Seq(Names)
  /\ failed \in Nat

ReadIsCurrent == \A r \in Readers : ~ reader[r].across => Analytics!Current(reader[r].got)

\* The inductive invariant: what is under a key is what the tables hold, unless
\* one of the three reasons named says why not, and so is what a request has read,
\* unless an event was committed since its first statement.
CacheInv == CacheTypes /\ ReadIsCurrent /\ Analytics!OutdatedOnlyByOverlap

LEMMA CacheInvInit == Analytics!Init => CacheInv
<1> SUFFICES ASSUME Analytics!Init PROVE CacheInv
  OBVIOUS
<1>1. CacheTypes
  <2>1. /\ keys = [k \in Analytics!ToSet(Analytics!Keys) |-> None]
        /\ consumer = <<>> /\ failed = 0
        /\ reader = [r \in Readers |-> [key |-> None, left |-> <<>>, got |-> <<>>,
                                       across |-> FALSE]]
    BY DEF Analytics!Init
  <2>2. consumer \in Seq(Names) /\ failed \in Nat
    BY <2>1
  <2> QED
    BY <2>1, <2>2 DEF CacheTypes
<1>2. ReadIsCurrent
  BY DEF Analytics!Init, ReadIsCurrent, Analytics!Current
<1>3. Analytics!OutdatedOnlyByOverlap
  BY DEF Analytics!Init, Analytics!OutdatedOnlyByOverlap
<1> QED
  BY <1>1, <1>2, <1>3 DEF CacheInv

\* A statement changes two fields of its request.
LEMMA TwoFields ==
  ASSUME NEW q, q = [key |-> q.key, left |-> q.left, got |-> q.got, across |-> q.across],
         NEW left, NEW values
  PROVE  [q EXCEPT !.left = left, !.got = values]
           = [key |-> q.key, left |-> left, got |-> values, across |-> q.across]
<1> DEFINE new == [q EXCEPT !.left = left, !.got = values]
<1>1. DOMAIN q = {"key", "left", "got", "across"}
  OBVIOUS
<1>2. new = [x \in {"key", "left", "got", "across"} |-> new[x]]
  BY <1>1
<1>3. new.key = q.key /\ new.left = left /\ new.got = values /\ new.across = q.across
  BY <1>1
<1> HIDE DEF new
<1>4. new = [key |-> new.key, left |-> new.left, got |-> new.got, across |-> new.across]
  BY <1>2
<1> QED
  BY <1>3, <1>4 DEF new

\* What is still to be deleted after the first of it.
LEMMA TailOfKeys ==
  ASSUME consumer \in Seq(Names), consumer # <<>>, NEW k \in Analytics!ToSet(consumer),
         k # Head(consumer)
  PROVE  k \in Analytics!ToSet(Tail(consumer))
<1>1. PICK i \in 1 .. Len(consumer) : k = consumer[i]
  <2>1. DOMAIN consumer = 1 .. Len(consumer)
    OBVIOUS
  <2> QED
    BY <2>1 DEF Analytics!ToSet
<1>2. i # 1 /\ i - 1 \in 1 .. Len(Tail(consumer)) /\ Tail(consumer)[i - 1] = consumer[i]
  BY <1>1
<1>3. DOMAIN Tail(consumer) = 1 .. Len(Tail(consumer))
  OBVIOUS
<1> QED
  BY <1>1, <1>2, <1>3 DEF Analytics!ToSet

-----------------------------------------------------------------------------
\* A request that begins, fails or has its answer has read nothing.
LEMMA IdleKeepsInv ==
  ASSUME CacheInv, NEW r \in Readers, NEW key, NEW left,
         reader' = [reader EXCEPT ![r] = [key |-> key, left |-> left, got |-> <<>>,
                                          across |-> FALSE]],
         UNCHANGED <<tables, consumer>>, failed' \in Nat
  PROVE  /\ reader' = [q \in Readers |-> reader'[q]]
         /\ \A q \in Readers :
              reader'[q] = [key |-> reader'[q].key, left |-> reader'[q].left,
                            got |-> reader'[q].got, across |-> reader'[q].across]
         /\ \A q \in Readers : reader'[q].across \in BOOLEAN
         /\ ReadIsCurrent'
<1>1. reader = [q \in Readers |-> reader[q]]
  BY DEF CacheInv, CacheTypes
<1>2. \A q \in Readers : reader'[q] = IF q = r THEN [key |-> key, left |-> left, got |-> <<>>,
                                                     across |-> FALSE] ELSE reader[q]
  BY <1>1
<1>3. \A q \in Readers :
        reader'[q] = [key |-> reader'[q].key, left |-> reader'[q].left,
                      got |-> reader'[q].got, across |-> reader'[q].across]
  BY <1>2 DEF CacheInv, CacheTypes
<1>b. \A q \in Readers : reader'[q].across \in BOOLEAN
  BY <1>2 DEF CacheInv, CacheTypes
<1>4. ReadIsCurrent'
  BY <1>2 DEF CacheInv, ReadIsCurrent, Analytics!Current
<1>5. reader' = [q \in Readers |-> reader'[q]]
  BY <1>1
<1> QED
  BY <1>b, <1>3, <1>4, <1>5

LEMMA RequestKeepsInv ==
  ASSUME CacheInv, NEW r \in Readers,
         (\E key \in Analytics!ToSet(Analytics!Keys) : Analytics!Miss(r, key)) \/ Analytics!Fail(r)
  PROVE  CacheInv'
<1>1. PICK key, left :
        reader' = [reader EXCEPT ![r] = [key |-> key, left |-> left, got |-> <<>>,
                                         across |-> FALSE]]
  BY DEF Analytics!Miss, Analytics!Fail, Analytics!Ended
<1>2. UNCHANGED <<tables, consumer, keys>> /\ failed' \in Nat /\ failed' >= failed
  BY DEF CacheInv, CacheTypes, Analytics!Miss, Analytics!Fail, Analytics!Fault
<1>3. CacheTypes' /\ ReadIsCurrent'
  BY <1>1, <1>2, IdleKeepsInv DEF CacheInv, CacheTypes
<1>4. Analytics!OutdatedOnlyByOverlap'
  BY <1>2 DEF CacheInv, CacheTypes, Analytics!OutdatedOnlyByOverlap, Analytics!Current
<1> QED
  BY <1>3, <1>4 DEF CacheInv

LEMMA ReadKeepsInv ==
  ASSUME CacheInv, NEW r \in Readers, Analytics!ReadTable(r)
  PROVE  CacheInv'
<1> DEFINE t == Head(reader[r].left)
           old == reader[r].got
           values == [x \in DOMAIN old \cup {t} |-> IF x = t THEN tables[t] ELSE old[x]]
           new == [key |-> reader[r].key, left |-> Tail(reader[r].left), got |-> values,
                   across |-> reader[r].across]
<1>1. /\ reader = [q \in Readers |-> reader[q]]
      /\ reader[r] = [key |-> reader[r].key, left |-> reader[r].left, got |-> reader[r].got,
                      across |-> reader[r].across]
  BY DEF CacheInv, CacheTypes
<1>2. /\ reader' = [reader EXCEPT ![r].left = Tail(reader[r].left),
                                  ![r].got = values]
      /\ UNCHANGED <<tables, consumer, counted, keys, failed>>
  BY DEF Analytics!ReadTable
<1> HIDE DEF values, t
<1>3. [reader[r] EXCEPT !.left = Tail(reader[r].left), !.got = values] = new
  BY <1>1, TwoFields
<1>4. /\ reader' = [q \in Readers |-> reader'[q]]
      /\ \A q \in Readers : reader'[q] = IF q = r THEN new ELSE reader[q]
  <2>1. reader' = [reader EXCEPT ![r] = [reader[r] EXCEPT !.left = Tail(reader[r].left),
                                                          !.got = values]]
    BY <1>1, <1>2
  <2> QED
    BY <1>1, <1>3, <2>1
<1>n. new.got = values /\ new.across = reader[r].across
  OBVIOUS
<1>5. ~ reader[r].across => \A x \in DOMAIN values : values[x] = tables[x]
  BY DEF values, CacheInv, ReadIsCurrent, Analytics!Current
<1>6. CacheTypes'
  <2>1. \A q \in Readers :
          reader'[q] = [key |-> reader'[q].key, left |-> reader'[q].left,
                        got |-> reader'[q].got, across |-> reader'[q].across]
    BY <1>4 DEF CacheInv, CacheTypes
  <2>2. \A q \in Readers : reader'[q].across \in BOOLEAN
    BY <1>4, <1>n DEF CacheInv, CacheTypes
  <2> QED
    BY <1>2, <1>4, <2>1, <2>2 DEF CacheInv, CacheTypes
<1> HIDE DEF new
<1>7. ReadIsCurrent'
  <2> SUFFICES ASSUME NEW q \in Readers, ~ reader'[q].across
               PROVE  \A x \in DOMAIN reader'[q].got : reader'[q].got[x] = tables'[x]
    BY DEF ReadIsCurrent, Analytics!Current
  <2>1. CASE q = r
    BY <1>2, <1>4, <1>5, <1>n, <2>1
  <2>2. CASE q # r
    <3>1. reader'[q] = reader[q] /\ tables' = tables
      BY <1>2, <1>4, <2>2
    <3> QED
      BY <3>1 DEF CacheInv, ReadIsCurrent, Analytics!Current
  <2> QED
    BY <2>1, <2>2
<1>8. Analytics!OutdatedOnlyByOverlap'
  BY <1>2 DEF CacheInv, Analytics!OutdatedOnlyByOverlap, Analytics!Current
<1> QED
  BY <1>6, <1>7, <1>8 DEF CacheInv

\* What a request stores was current when no commit came between.
LEMMA FillKeepsInv ==
  ASSUME CacheInv, NEW r \in Readers, Analytics!Fill(r)
  PROVE  CacheInv'
<1>1. /\ reader' = [reader EXCEPT ![r] = [key |-> None, left |-> <<>>, got |-> <<>>,
                                          across |-> FALSE]]
      /\ UNCHANGED <<tables, consumer, counted>>
      /\ failed' \in Nat /\ failed' >= failed
  BY DEF CacheInv, CacheTypes, Analytics!Fill, Analytics!Ended, Analytics!Fault
<1>2. \/ UNCHANGED keys
      \/ keys' = [keys EXCEPT ![reader[r].key] =
                    [got |-> reader[r].got, across |-> reader[r].across]]
  BY DEF Analytics!Fill
<1>3. \A k \in Analytics!ToSet(Analytics!Keys) :
        keys'[k] = keys[k] \/ keys'[k] = [got |-> reader[r].got, across |-> reader[r].across]
  BY <1>2 DEF CacheInv, CacheTypes
<1>4. /\ DOMAIN keys' = Analytics!ToSet(Analytics!Keys)
      /\ keys' = [k \in Analytics!ToSet(Analytics!Keys) |-> keys'[k]]
  BY <1>2 DEF CacheInv, CacheTypes
<1>5. CacheTypes' /\ ReadIsCurrent'
  BY <1>1, <1>4, IdleKeepsInv DEF CacheInv, CacheTypes
<1>6. Analytics!OutdatedOnlyByOverlap'
  BY <1>1, <1>3 DEF CacheInv, CacheTypes, ReadIsCurrent,
                 Analytics!OutdatedOnlyByOverlap, Analytics!Current
<1> QED
  BY <1>5, <1>6 DEF CacheInv

-----------------------------------------------------------------------------
\* An event: every key is still to be deleted, and every request that has read
\* something lies across its commit.
LEMMA EventKeepsInv ==
  ASSUME CacheInv,
         (\E sections \in SUBSET Analytics!ToSet(Sections) : Analytics!HandleVote(sections))
         \/ Analytics!HandleAgain
  PROVE  CacheInv'
<1>0. Analytics!Keys \in Seq(Names)
  <2>1. <<"poll">> \in Seq(Names)
    BY DEF Names
  <2>2. Sections \in Seq(Names)
    BY SeqDef, SectionsAreNames DEF Names, ToSet, Analytics!ToSet
  <2> QED
    BY <2>1, <2>2 DEF Analytics!Keys
<1>1. consumer' = Analytics!Keys /\ consumer' \in Seq(Names) /\ UNCHANGED <<keys, failed>>
  BY <1>0 DEF Analytics!HandleVote, Analytics!HandleAgain, Analytics!FlushPoll
<1>2. Analytics!OutdatedOnlyByOverlap'
  BY <1>1 DEF Analytics!OutdatedOnlyByOverlap
<1>3. CASE \E sections \in SUBSET Analytics!ToSet(Sections) : Analytics!HandleVote(sections)
  <2>1. reader' = [q \in Readers |->
          [reader[q] EXCEPT !.across = reader[q].across \/ DOMAIN reader[q].got # {}]]
    BY <1>3 DEF Analytics!HandleVote
  <2>2. \A q \in Readers :
          reader'[q] = [key |-> reader[q].key, left |-> reader[q].left, got |-> reader[q].got,
                        across |-> reader[q].across \/ DOMAIN reader[q].got # {}]
    BY <2>1 DEF CacheInv, CacheTypes
  <2>3. CacheTypes'
    BY <1>1, <2>1, <2>2, ZenonT(30) DEF CacheInv, CacheTypes
  <2>4. ASSUME NEW q \in Readers, ~ reader'[q].across PROVE DOMAIN reader'[q].got = {}
    <3> DEFINE overlaps == reader[q].across \/ DOMAIN reader[q].got # {}
    <3>1. reader'[q] = [key |-> reader[q].key, left |-> reader[q].left, got |-> reader[q].got,
                        across |-> overlaps]
      BY <2>2
    <3> HIDE DEF overlaps
    <3>2. reader'[q].across = overlaps /\ reader'[q].got = reader[q].got
      BY <3>1
    <3> USE DEF overlaps
    <3>3. overlaps \in BOOLEAN /\ (~ overlaps => DOMAIN reader[q].got = {})
      OBVIOUS
    <3> QED
      BY <2>4, <3>2, <3>3
  <2>5. ReadIsCurrent'
    BY <2>4 DEF ReadIsCurrent, Analytics!Current
  <2> QED
    BY <1>2, <2>3, <2>5 DEF CacheInv
<1>4. CASE Analytics!HandleAgain
  BY <1>1, <1>2, <1>4 DEF Analytics!HandleAgain, CacheInv, CacheTypes, ReadIsCurrent,
                 Analytics!Current
<1> QED
  BY <1>3, <1>4

LEMMA DeleteKeepsInv ==
  ASSUME CacheInv,
         Analytics!DeleteKey \/ \E key \in Analytics!ToSet(Analytics!Keys) : Analytics!Expire(key)
  PROVE  CacheInv'
<1>1. UNCHANGED <<tables, reader>>
  BY DEF Analytics!DeleteKey, Analytics!Expire
<1>2. \A k \in Analytics!ToSet(Analytics!Keys) : keys'[k] = keys[k] \/ keys'[k] = None
  BY DEF CacheInv, CacheTypes, Analytics!DeleteKey, Analytics!Expire
<1>3. /\ DOMAIN keys' = Analytics!ToSet(Analytics!Keys)
      /\ keys' = [k \in Analytics!ToSet(Analytics!Keys) |-> keys'[k]]
  BY DEF CacheInv, CacheTypes, Analytics!DeleteKey, Analytics!Expire
<1>4. /\ consumer' \in Seq(Names) /\ failed' \in Nat
      /\ \/ failed' > 0
         \/ failed' = failed /\ consumer' = consumer
         \/ /\ failed' = failed /\ consumer # <<>> /\ consumer' = Tail(consumer)
            /\ keys' = [keys EXCEPT ![Head(consumer)] = None]
  <2>1. consumer \in Seq(Names) /\ failed \in Nat
    BY DEF CacheInv, CacheTypes
  <2>2. CASE Analytics!DeleteKey
    <3>1. CASE Analytics!Fault /\ consumer' = <<>>
      BY <2>1, <3>1 DEF Analytics!Fault
    <3>2. CASE /\ keys' = [keys EXCEPT ![Head(consumer)] = None]
               /\ consumer' = Tail(consumer) /\ failed' = failed /\ consumer # <<>>
      BY <2>1, <3>2
    <3> QED
      BY <2>2, <3>1, <3>2 DEF Analytics!DeleteKey
  <2>3. CASE \E key \in Analytics!ToSet(Analytics!Keys) : Analytics!Expire(key)
    BY <2>1, <2>3 DEF Analytics!Expire
  <2> QED
    BY <2>2, <2>3
<1>5. CacheTypes' /\ ReadIsCurrent'
  BY <1>1, <1>3, <1>4 DEF CacheInv, CacheTypes, ReadIsCurrent,
                 Analytics!Current
<1>6. Analytics!OutdatedOnlyByOverlap'
  <2> SUFFICES ASSUME NEW k \in Analytics!ToSet(Analytics!Keys), keys'[k] # None,
                      NEW t \in DOMAIN keys'[k].got, keys'[k].got[t] # tables'[t],
                      ~ failed' > 0, k \notin Analytics!ToSet(consumer')
               PROVE  keys'[k].across
    BY DEF Analytics!OutdatedOnlyByOverlap, Analytics!Current
  <2>1. keys'[k] = keys[k] /\ ~ Analytics!Current(keys[k].got)
    BY <1>1, <1>2 DEF Analytics!Current
  <2>2. failed' = failed /\ k \notin Analytics!ToSet(consumer)
    <3>1. CASE consumer' = consumer /\ failed' = failed
      BY <3>1
    <3>2. CASE /\ failed' = failed /\ consumer # <<>> /\ consumer' = Tail(consumer)
               /\ keys' = [keys EXCEPT ![Head(consumer)] = None]
      <4>1. k # Head(consumer)
        BY <3>2 DEF CacheInv, CacheTypes
      <4> QED
        BY <3>2, <4>1, TailOfKeys DEF CacheInv, CacheTypes
    <3> QED
      BY <1>4, <3>1, <3>2
  <2> QED
    BY <2>1, <2>2 DEF CacheInv, Analytics!OutdatedOnlyByOverlap
<1> QED
  BY <1>5, <1>6 DEF CacheInv

LEMMA CacheInvStep == CacheInv /\ [Analytics!Next]_(Analytics!vars) => CacheInv'
<1> SUFFICES ASSUME CacheInv, [Analytics!Next]_(Analytics!vars) PROVE CacheInv'
  OBVIOUS
<1>1. CASE UNCHANGED Analytics!vars
  BY <1>1 DEF Analytics!vars, CacheInv, CacheTypes, ReadIsCurrent,
                 Analytics!OutdatedOnlyByOverlap, Analytics!Current
<1>2. CASE Analytics!Next
  BY <1>2, RequestKeepsInv, ReadKeepsInv, FillKeepsInv, EventKeepsInv, DeleteKeepsInv
  DEF Analytics!Next
<1> QED
  BY <1>1, <1>2

\* Behind the flush of FlushPoll only a failed operation of the cache, or a read
\* that was under way at a commit, leaves what the tables no longer hold.
THEOREM OutdatedCorrect == MCSpec => []OutdatedOnlyByOverlap
<1>1. MCInit => CacheInv
  BY CacheInvInit DEF MCInit
<1>2. CacheInv /\ [MCNext]_<<service, vars, analyticsVars>> => CacheInv'
  <2>1. UNCHANGED analyticsVars => UNCHANGED Analytics!vars
    BY DEF analyticsVars, Analytics!vars
  <2> QED
    BY <2>1, CacheInvStep DEF MCNext
<1>3. CacheInv => OutdatedOnlyByOverlap
  BY DEF CacheInv, OutdatedOnlyByOverlap
<1> QED
  BY <1>1, <1>2, <1>3, PTL DEF MCSpec
=============================================================================
