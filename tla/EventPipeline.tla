--------------------------- MODULE EventPipeline ----------------------------
(***************************************************************************)
(* The way of an event from the transaction that wrote it to the service   *)
(* that consumes it: the outbox table, the relay that publishes it, the    *)
(* partitions of the broker, the consumer group and the transaction of the *)
(* handler with its table processed_events.                                *)
(*                                                                         *)
(* One producing service (vote-service or poll-service) and one consuming  *)
(* service (poll-service, analytics-service or feed-service).  A stream is *)
(* a partition of a topic; what the relay publishes is only ever appended. *)
(*                                                                         *)
(* Faults are counted, and the kinds that may happen are a parameter:      *)
(*   "publish"   WriteMessages gives up; the event may be in the log       *)
(*   "ack"       an acknowledgement is lost and the writer sends again     *)
(*   "mark"      MarkPublished fails after the event was published         *)
(*   "crash"     a process ends and is started again                       *)
(*   "rebalance" the consumer is thrown out of its group and joins again   *)
(*   "handler"   a handler, or a fetch, returns an error                   *)
(***************************************************************************)
EXTENDS Integers, Sequences, FiniteSets

CONSTANTS
  Txs, Events, Streams,
  TxOf,       \* [Events -> Txs]: the transaction that writes the event
  StreamOf,   \* [Events -> Streams]: the partition its topic and key select
  BatchSize,  \* OUTBOX_RELAY_BATCH_SIZE
  Faults,     \* the kinds of fault that may happen
  MaxFaults,  \* how many faults may happen
  None        \* no event

ASSUME PipelineAssumption ==
  /\ TxOf \in [Events -> Txs]
  /\ StreamOf \in [Events -> Streams]
  /\ BatchSize \in Nat \ {0}
  /\ MaxFaults \in Nat
  /\ None \notin Events

VARIABLES
  status,     \* [Txs -> "new", "open", "committed" or "aborted"]
  older,      \* [Txs -> the transactions that began before it]: the order of
              \* the created_at of their events
  earlier,    \* [Txs -> the transactions committed before it began] (history)
  published,  \* the outbox rows with published_at set
  batch,      \* the rows of the relay's batch that it has not come to yet
  sent,       \* the event published whose row is to be marked next, or None
  gaveUp,     \* the events whose Publish failed (history)
  log,        \* [Streams -> Seq(Events)]: the broker's partitions
  running,    \* whether the goroutine of the consumer runs
  hand,       \* the messages, at most one, fetched and not yet handled
  position,   \* [Streams -> how many messages the reader has fetched]
  stash,      \* [Streams -> the offset to commit next; 0: nothing]
  offset,     \* [Streams -> the committed offset of the group]
  processed,  \* table processed_events
  applied,    \* [Events -> how often its effect was committed]
  faults      \* how many faults happened

producerVars == <<status, older, earlier>>
relayVars == <<published, batch, sent, gaveUp>>
readerVars == <<running, hand, position, stash>>
effectVars == <<processed, applied>>
vars == <<producerVars, relayVars, log, readerVars, offset, effectVars, faults>>

Committed == {t \in Txs : status[t] = "committed"}

\* The streams' view of a log: the event at an offset, and the events up to it.
UpTo(s, n) == {log[s][i] : i \in 1 .. n}
Logged(e) == e \in UpTo(StreamOf[e], Len(log[StreamOf[e]]))

Fault(kind) ==
  /\ kind \in Faults
  /\ faults < MaxFaults
  /\ faults' = faults + 1

Delivery == INSTANCE EventDelivery WITH
              committed <- Committed, effects <- applied

-----------------------------------------------------------------------------
Init ==
  /\ status = [t \in Txs |-> "new"]
  /\ older = [t \in Txs |-> {}]
  /\ earlier = [t \in Txs |-> {}]
  /\ published = {} /\ batch = {} /\ sent = None /\ gaveUp = {}
  /\ log = [s \in Streams |-> <<>>]
  /\ running = TRUE /\ hand = {}
  /\ position = [s \in Streams |-> 0]
  /\ stash = [s \in Streams |-> 0]
  /\ offset = [s \in Streams |-> 0]
  /\ processed = {}
  /\ applied = [e \in Events |-> 0]
  /\ faults = 0

\* A producing transaction begins; NOW(), the created_at of the rows it will
\* add, is this moment.
Begin(t) ==
  /\ status[t] = "new"
  /\ status' = [status EXCEPT ![t] = "open"]
  /\ older' = [older EXCEPT ![t] = {u \in Txs : status[u] # "new"}]
  /\ earlier' = [earlier EXCEPT ![t] = Committed]
  /\ UNCHANGED <<relayVars, log, readerVars, offset, effectVars, faults>>

\* It commits, and its rows become visible to the relay; or it rolls back.
End(t, outcome) ==
  /\ status[t] = "open"
  /\ status' = [status EXCEPT ![t] = outcome]
  /\ UNCHANGED <<older, earlier, relayVars, log, readerVars, offset, effectVars, faults>>

\* Mutant of Unpublished: the rows are added outside of the transaction.
UnpublishedOutsideTx ==
  {e \in Events : status[TxOf[e]] # "new" /\ e \notin published}

Unpublished == {e \in Events : TxOf[e] \in Committed /\ e \notin published}

\* The order of created_at; rows of one transaction have the same.
CreatedBefore(e, f) == TxOf[e] \in older[TxOf[f]]

\* The relay's SELECT: the BatchSize oldest of the unpublished rows; rows of
\* one created_at in no particular order.
ListUnpublished ==
  /\ batch = {} /\ sent = None
  /\ \E B \in SUBSET Unpublished :
       /\ \/ Cardinality(B) = BatchSize
          \/ B = Unpublished /\ Cardinality(B) < BatchSize
       /\ \A e \in B, f \in Unpublished \ B : ~ CreatedBefore(f, e)
       /\ batch' = B
  /\ UNCHANGED <<producerVars, published, sent, gaveUp, log, readerVars, offset, effectVars, faults>>

\* Mutant of NextInBatch: no ORDER BY.
NextInBatchUnordered(e) == sent = None /\ e \in batch

\* The relay comes to row e: its batch is a list ordered by created_at.
NextInBatch(e) ==
  /\ sent = None
  /\ e \in batch
  /\ \A f \in batch : ~ CreatedBefore(f, e)

\* The partition of e with copies of it at its end.
Append1(e) == [log EXCEPT ![StreamOf[e]] = Append(@, e)]
Append2(e) == [log EXCEPT ![StreamOf[e]] = Append(Append(@, e), e)]

\* Publish returns without an error, perhaps after the writer sent it twice.
Publish(e) ==
  /\ NextInBatch(e)
  /\ \/ log' = Append1(e) /\ UNCHANGED faults
     \/ log' = Append2(e) /\ Fault("ack")
  /\ batch' = batch \ {e}
  /\ sent' = e
  /\ UNCHANGED <<producerVars, published, gaveUp, readerVars, offset, effectVars>>

\* Mutant of PublishFails: MarkFailed sets published_at.
PublishFailsMarked(e) ==
  /\ NextInBatch(e) /\ Fault("publish")
  /\ batch' = batch \ {e}
  /\ published' = published \cup {e}
  /\ gaveUp' = gaveUp \cup {e}
  /\ UNCHANGED <<producerVars, sent, log, readerVars, offset, effectVars>>

\* Publish returns an error, though the broker may have the message: the row
\* stays unpublished (MarkFailed only counts the attempt, or fails too) and the
\* relay goes on with the next one.
PublishFails(e) ==
  /\ NextInBatch(e) /\ Fault("publish")
  /\ log' \in {log, Append1(e)}
  /\ batch' = batch \ {e}
  /\ gaveUp' = gaveUp \cup {e}
  /\ UNCHANGED <<producerVars, published, sent, readerVars, offset, effectVars>>

MarkPublished ==
  /\ sent # None
  /\ published' = published \cup {sent}
  /\ sent' = None
  /\ UNCHANGED <<producerVars, batch, gaveUp, log, readerVars, offset, effectVars, faults>>

\* MarkPublished fails, which the relay only logs: the row will be listed, and
\* the event published, again.
MarkPublishedFails ==
  /\ sent # None /\ Fault("mark")
  /\ sent' = None
  /\ UNCHANGED <<producerVars, published, batch, gaveUp, log, readerVars, offset, effectVars>>

\* The producing service ends and starts again: open transactions are rolled
\* back and the relay forgets its batch.
ProducerCrash ==
  /\ Fault("crash")
  /\ status' = [t \in Txs |-> IF status[t] = "open" THEN "aborted" ELSE status[t]]
  /\ batch' = {} /\ sent' = None
  /\ UNCHANGED <<older, earlier, published, gaveUp, log, readerVars, offset, effectVars>>

-----------------------------------------------------------------------------
\* FetchMessage returns the next message of some partition.
Fetch(s) ==
  /\ running /\ hand = {} /\ position[s] < Len(log[s])
  /\ position' = [position EXCEPT ![s] = @ + 1]
  /\ hand' = {[stream |-> s, at |-> position[s] + 1]}
  /\ UNCHANGED <<producerVars, relayVars, log, running, stash, offset, effectVars, faults>>

\* Mutant of Effect: the row of processed_events is not looked at.
EffectAlways(e) ==
  /\ processed' = processed \cup {e}
  /\ applied' = [applied EXCEPT ![e] = @ + 1]

\* The transaction of a handler commits: an event is new if its row can be
\* inserted into processed_events, and only a new event has its effect.
Effect(e) ==
  /\ processed' = processed \cup {e}
  /\ applied' = IF e \in processed THEN applied
                ELSE [applied EXCEPT ![e] = @ + 1]

\* CommitMessages only notes the offset; a later one is never lowered.
Stash(m) ==
  [stash EXCEPT ![m.stream] = IF m.at > @ THEN m.at ELSE @]

\* The handler succeeds and the offset of its message is noted.
Handle(m) ==
  /\ m \in hand
  /\ Effect(log[m.stream][m.at])
  /\ hand' = {}
  /\ stash' = Stash(m)
  /\ UNCHANGED <<producerVars, relayVars, log, running, position, offset, faults>>

Flushed == [s \in Streams |-> IF stash[s] = 0 THEN offset[s] ELSE stash[s]]

\* The reader commits the offsets it noted, every KAFKA_COMMIT_PERIOD.
FlushOffsets ==
  /\ running
  /\ offset' = Flushed
  /\ stash' = [s \in Streams |-> 0]
  /\ UNCHANGED <<producerVars, relayVars, log, running, hand, position, effectVars, faults>>

\* Subscribe returns an error and its deferred Close commits what was noted, or
\* fails to.  main only logs the error: nothing calls Run again.
Stop ==
  /\ Fault("handler")
  /\ running' = FALSE
  /\ hand' = {}
  /\ offset' \in {offset, Flushed}
  /\ stash' = [s \in Streams |-> 0]
  /\ UNCHANGED <<producerVars, relayVars, log, position>>

\* A fetch fails; or a handler fails, its transaction being rolled back, or
\* committed with the answer to COMMIT lost.
ConsumerStops ==
  /\ running
  /\ \/ hand = {} /\ UNCHANGED effectVars
     \/ \E m \in hand :
          UNCHANGED effectVars \/ Effect(log[m.stream][m.at])
  /\ Stop

\* A generation of the group ends: the reader starts at the committed offsets
\* again.  A message that a handler has in hand is handled to its end.
Rebalance ==
  /\ running /\ Fault("rebalance")
  /\ position' = offset
  /\ stash' = [s \in Streams |-> 0]
  /\ UNCHANGED <<producerVars, relayVars, log, running, hand, offset, effectVars>>

\* The consuming service ends and starts again.
ConsumerCrash ==
  /\ Fault("crash")
  /\ running' = TRUE /\ hand' = {}
  /\ position' = offset
  /\ stash' = [s \in Streams |-> 0]
  /\ UNCHANGED <<producerVars, relayVars, log, offset, effectVars>>

-----------------------------------------------------------------------------
Relay ==
  \/ ListUnpublished
  \/ \E e \in Events : Publish(e)
  \/ MarkPublished

Consume ==
  \/ \E s \in Streams : Fetch(s)
  \/ \E m \in hand : Handle(m)

Next ==
  \/ \E t \in Txs : Begin(t)
  \/ \E t \in Txs, outcome \in {"committed", "aborted"} : End(t, outcome)
  \/ Relay
  \/ \E e \in Events : PublishFails(e)
  \/ MarkPublishedFails
  \/ ProducerCrash
  \/ Consume
  \/ FlushOffsets
  \/ ConsumerStops
  \/ Rebalance
  \/ ConsumerCrash

Spec == Init /\ [][Next]_vars

\* The relay's loop and the consumer's loop go on; no transaction, flush,
\* fault or restart has to happen.
Fairness == WF_vars(Relay) /\ WF_vars(Consume)
FairSpec == Spec /\ Fairness

-----------------------------------------------------------------------------
\* Each variable holds a value of its kind, and no position, noted or committed
\* offset points past the end of its partition.
TypeOK ==
  /\ status \in [Txs -> {"new", "open", "committed", "aborted"}]
  /\ older \in [Txs -> SUBSET Txs]
  /\ earlier \in [Txs -> SUBSET Txs]
  /\ published \subseteq Events
  /\ batch \subseteq Events
  /\ sent \in Events \cup {None}
  /\ gaveUp \subseteq Events
  /\ log \in [Streams -> Seq(Events)]
  /\ running \in BOOLEAN
  /\ hand \subseteq [stream : Streams, at : Nat \ {0}]
  /\ position \in [Streams -> Nat]
  /\ stash \in [Streams -> Nat]
  /\ offset \in [Streams -> Nat]
  /\ processed \subseteq Events
  /\ applied \in [Events -> Nat]
  /\ faults \in Nat
  /\ \A s \in Streams :
       /\ position[s] <= Len(log[s])
       /\ stash[s] <= Len(log[s])
       /\ offset[s] <= Len(log[s])
  /\ \A m \in hand : m.at <= Len(log[m.stream])

\* However often an event was published, delivered or handled, its effect was
\* committed once if its id is in processed_events, and never otherwise.
EffectOnce ==
  \A e \in Events : applied[e] = IF e \in processed THEN 1 ELSE 0

\* The offset the group committed covers only what was handled: a restart
\* leaves nothing out.
CommittedAreProcessed ==
  \A s \in Streams : UpTo(s, offset[s]) \subseteq processed

\* A committed event is never lost: it took effect, or the relay will list it,
\* or it lies in its partition beyond the committed offset, where every restart
\* of the consumer finds it.
NoLostEvent ==
  \A e \in Events : TxOf[e] \in Committed =>
    \/ e \in processed
    \/ e \notin published
    \/ \E i \in 1 .. Len(log[StreamOf[e]]) :
         i > offset[StreamOf[e]] /\ log[StreamOf[e]][i] = e

\* Two events of one partition, of a transaction that had committed before the
\* other began; the relay never failed to publish the first.
InOrder(e, f) ==
  /\ StreamOf[e] = StreamOf[f]
  /\ TxOf[e] \in earlier[TxOf[f]]
  /\ e \notin gaveUp

\* Two events of one partition take effect in the order of their transactions
\* if one had committed before the other began and the relay never failed to
\* publish it: retries, lost marks, crashes and redeliveries reorder nothing.
AppliedInOrder ==
  \A e, f \in Events : InOrder(e, f) /\ f \in processed => e \in processed

\* The pipeline delivers: every step is one atomic effect of a committed event
\* that had none before, or no effect.
ImplementsDelivery == Delivery!Spec

\* Every committed event takes effect in the end, unless the consumer's
\* goroutine ends: the one fault that nothing but a restart of its process
\* repairs.
EveryEventApplied ==
  \A e \in Events : TxOf[e] \in Committed ~> e \in processed \/ ~ running

\* The invariant behind the three above, strong enough to be inductive.

\* The partitions, the relay's batch and the published rows hold committed
\* events, each in its partition; what is published is in its partition.
OnlyCommitted ==
  /\ \A e \in batch \cup published \cup ({sent} \ {None}) : TxOf[e] \in Committed
  /\ \A s \in Streams : \A i \in 1 .. Len(log[s]) :
       TxOf[log[s][i]] \in Committed /\ StreamOf[log[s][i]] = s
  /\ processed \subseteq {e \in Events : TxOf[e] \in Committed}
  /\ \A e \in published \cup ({sent} \ {None}) : Logged(e)

\* The reader is ahead of the handler by the message in hand alone.
HandledUpTo ==
  /\ \A s \in Streams : UpTo(s, stash[s]) \subseteq processed
  /\ \A s \in Streams : \A i \in 1 .. position[s] :
       log[s][i] \in processed \/ [stream |-> s, at |-> i] \in hand \/ ~ running
  /\ \A m \in hand : UpTo(m.stream, m.at - 1) \subseteq processed
  /\ \A m, n \in hand : m = n

PipelineInv ==
  /\ TypeOK
  /\ EffectOnce
  /\ OnlyCommitted
  /\ CommittedAreProcessed
  /\ HandledUpTo
\* What a transaction saw committed when it began has the older rows.
EarlierIsOlder ==
  \A t \in Txs : earlier[t] \subseteq older[t] \cap Committed

\* An event comes into a batch with what is before it in order, or after it;
\* and every copy of it in its partition lies behind a copy of that.
RelayedInOrder ==
  \A e, f \in Events : InOrder(e, f) =>
    /\ f \in batch => e \in batch \/ Logged(e)
    /\ \A i \in 1 .. Len(log[StreamOf[f]]) :
         log[StreamOf[f]][i] = f => e \in UpTo(StreamOf[f], i - 1)

\* With PipelineInv, strong enough to be inductive.
OrderInv ==
  /\ EarlierIsOlder
  /\ RelayedInOrder
  /\ AppliedInOrder
=============================================================================
