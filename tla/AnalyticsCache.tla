--------------------------- MODULE AnalyticsCache ---------------------------
(***************************************************************************)
(* The analytics of one poll as they are read: the tables the consumer     *)
(* counts in, the statements that read them one after the other, and the   *)
(* cache in Redis before them.                                             *)
(*                                                                         *)
(* The whole analytics and each of their sections have a key of their own. *)
(* A read fills its key with what it read, if that is anything.  The       *)
(* consumer deletes the keys one by one after the commit of each event, so *)
(* that a read that was under way may fill a key behind it.                *)
(*                                                                         *)
(* A table stands for the number of events counted in it; VoteCounters has *)
(* how they are counted.                                                   *)
(***************************************************************************)
EXTENDS Naturals, SequencesExt

CONSTANTS
  Readers,    \* the requests
  Sections,   \* the demographic tables, in the order they are read and flushed
  MaxEvents,  \* how many vote events there are
  MaxFaults,  \* how many operations of the cache fail at the most
  None        \* nothing under a key, nothing asked for

VARIABLES
  tables,    \* [Tables -> the events counted]
  consumer,  \* the keys it has still to delete
  counted,   \* how many events it has handled
  keys,      \* [Keys -> what a request has read for the key, or None]
  reader,    \* the requests: their key, the tables they have still to read, what
             \* they have read of which, and whether an event was committed since
             \* the first of it (history)
  failed     \* how many operations of the cache have failed

vars == <<tables, consumer, counted, keys, reader, failed>>

\* The rows per option come first, as does the key of the whole.
Tables == <<"options">> \o Sections
Keys == <<"poll">> \o Sections

\* The tables a request reads.
TablesOf(key) == IF key = "poll" THEN Tables ELSE <<key>>

Init ==
  /\ tables = [t \in ToSet(Tables) |-> 0]
  /\ consumer = <<>>
  /\ counted = 0
  /\ keys = [k \in ToSet(Keys) |-> None]
  /\ reader = [r \in Readers |-> [key |-> None, left |-> <<>>, got |-> <<>>, across |-> FALSE]]
  /\ failed = 0

-----------------------------------------------------------------------------
Fault == failed < MaxFaults /\ failed' = failed + 1

\* A request that has an answer is ready for another.
Ended(r) == reader' = [reader EXCEPT ![r] = [key |-> None, left |-> <<>>, got |-> <<>>,
                                             across |-> FALSE]]

\* A value under the key is the answer and changes nothing; else, and if the
\* cache fails, the tables are read.
Miss(r, key) ==
  /\ reader[r].key = None
  /\ \/ keys[key] = None /\ UNCHANGED failed
     \/ Fault
  /\ reader' = [reader EXCEPT ![r] = [key |-> key, left |-> TablesOf(key), got |-> <<>>,
                                      across |-> FALSE]]
  /\ UNCHANGED <<tables, consumer, counted, keys>>

\* The next statement.
ReadTable(r) ==
  /\ reader[r].left # <<>>
  /\ LET t == Head(reader[r].left)
     IN reader' = [reader EXCEPT ![r].left = Tail(@),
                     ![r].got = [x \in DOMAIN @ \cup {t} |-> IF x = t THEN tables[t] ELSE @[x]]]
  /\ UNCHANGED <<tables, consumer, counted, keys, failed>>

\* shouldCachePollAnalytics, and len(result) > 0 of a section.
ShouldCache(got) == \E t \in DOMAIN got : got[t] > 0

\* SetJSON, whose error is ignored, and the answer.
Fill(r) ==
  /\ reader[r].key # None /\ reader[r].left = <<>>
  /\ \/ /\ ShouldCache(reader[r].got)
        /\ keys' = [keys EXCEPT ![reader[r].key] =
                      [got |-> reader[r].got, across |-> reader[r].across]]
        /\ UNCHANGED failed
     \/ ShouldCache(reader[r].got) /\ Fault /\ UNCHANGED keys
     \/ ~ ShouldCache(reader[r].got) /\ UNCHANGED <<keys, failed>>
  /\ Ended(r)
  /\ UNCHANGED <<tables, consumer, counted>>

\* A statement fails, or the request is cancelled.
Fail(r) ==
  /\ reader[r].left # <<>>
  /\ Ended(r)
  /\ UNCHANGED <<tables, consumer, counted, keys, failed>>

-----------------------------------------------------------------------------
\* Mutant of FlushPoll: the keys are those of the sections.
FlushSections == Sections

\* FlushPoll: the keys it deletes, in order.
FlushPoll == Keys

\* handleVoteCast and handleVoteRemoved, at their commit: the options, and the
\* sections the event has something of.  An event that was handled before
\* changes nothing.  The consumer then flushes, before it takes another.
HandleVote(sections) ==
  /\ consumer = <<>> /\ counted < MaxEvents
  /\ counted' = counted + 1
  /\ tables' = [t \in DOMAIN tables |->
                  IF t = "options" \/ t \in sections THEN tables[t] + 1 ELSE tables[t]]
  /\ consumer' = FlushPoll
  /\ reader' = [r \in Readers |->
                  [reader[r] EXCEPT !.across = @ \/ DOMAIN reader[r].got # {}]]
  /\ UNCHANGED <<keys, failed>>

HandleAgain ==
  /\ consumer = <<>> /\ counted < MaxEvents
  /\ counted' = counted + 1
  /\ consumer' = FlushPoll
  /\ UNCHANGED <<tables, keys, reader, failed>>

\* One Delete of it; an error ends the flush.
DeleteKey ==
  /\ consumer # <<>>
  /\ \/ /\ keys' = [keys EXCEPT ![Head(consumer)] = None]
        /\ consumer' = Tail(consumer)
        /\ UNCHANGED failed
     \/ /\ Fault
        /\ consumer' = <<>>
        /\ UNCHANGED keys
  /\ UNCHANGED <<tables, counted, reader>>

\* The time to live of a key ends.
Expire(key) ==
  /\ keys[key] # None
  /\ keys' = [keys EXCEPT ![key] = None]
  /\ UNCHANGED <<tables, consumer, counted, reader, failed>>

Next ==
  \/ \E r \in Readers : \/ \E key \in ToSet(Keys) : Miss(r, key)
                        \/ ReadTable(r) \/ Fill(r) \/ Fail(r)
  \/ \E sections \in SUBSET ToSet(Sections) : HandleVote(sections)
  \/ HandleAgain
  \/ DeleteKey
  \/ \E key \in ToSet(Keys) : Expire(key)

Spec == Init /\ [][Next]_vars

-----------------------------------------------------------------------------
\* Each variable holds a value of its kind.
TypeOK ==
  /\ tables \in [ToSet(Tables) -> 0 .. MaxEvents]
  /\ counted \in 0 .. MaxEvents /\ failed \in 0 .. MaxFaults
  /\ ToSet(consumer) \subseteq ToSet(Keys)
  /\ \A k \in ToSet(Keys) :
       keys[k] # None => /\ DOMAIN keys[k].got = ToSet(TablesOf(k))
                         /\ keys[k].across \in BOOLEAN
  /\ \A r \in Readers : DOMAIN reader[r].got \subseteq ToSet(Tables)

Current(got) == \A t \in DOMAIN got : got[t] = tables[t]

\* What is under a key is what the tables hold, unless a delete of the cache
\* failed, the key is still to be deleted, or the read that filled it was under
\* way when an event was committed.
OutdatedOnlyByOverlap ==
  \A k \in ToSet(Keys) :
    keys[k] # None /\ ~ Current(keys[k].got) =>
      failed > 0 \/ k \in ToSet(consumer) \/ keys[k].across
=============================================================================
