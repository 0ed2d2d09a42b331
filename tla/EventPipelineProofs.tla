------------------------ MODULE EventPipelineProofs -------------------------
(***************************************************************************)
(* Exactly-once effects and no loss, for every number of transactions,     *)
(* events, partitions and faults, proved from PipelineInv.                 *)
(***************************************************************************)
EXTENDS EventPipeline, SequenceTheorems, TLAPS

USE PipelineAssumption

-----------------------------------------------------------------------------
\* A log that extends another: each partition keeps what it holds, and what is
\* new is copies of one event in its own partition.
Extends(new, old, e) ==
  /\ new \in [Streams -> Seq(Events)]
  /\ \A s \in Streams :
       /\ Len(old[s]) <= Len(new[s])
       /\ \A i \in 1 .. Len(old[s]) : new[s][i] = old[s][i]
       /\ \A i \in 1 .. Len(new[s]) :
            i > Len(old[s]) => new[s][i] = e /\ s = StreamOf[e]

\* One more message at the end of a partition.
LEMMA AppendExtends ==
  ASSUME NEW old \in [Streams -> Seq(Events)], NEW e \in Events
  PROVE  /\ Extends(old, old, e)
         /\ Extends([old EXCEPT ![StreamOf[e]] = Append(@, e)], old, e)
<1> DEFINE new == [old EXCEPT ![StreamOf[e]] = Append(@, e)]
<1>1. Extends(old, old, e)
  BY DEF Extends
<1>2. \A s \in Streams : new[s] = IF s = StreamOf[e] THEN Append(old[s], e) ELSE old[s]
  OBVIOUS
<1>3. \A s \in Streams :
        /\ old[s] \in Seq(Events)
        /\ Len(old[s]) \in Nat
        /\ Append(old[s], e) \in Seq(Events)
        /\ Len(Append(old[s], e)) = Len(old[s]) + 1
        /\ \A i \in 1 .. Len(old[s]) : Append(old[s], e)[i] = old[s][i]
        /\ Append(old[s], e)[Len(old[s]) + 1] = e
  BY AppendProperties
<1>4. new \in [Streams -> Seq(Events)]
  BY <1>3
<1>5. ASSUME NEW s \in Streams
      PROVE  /\ Len(old[s]) <= Len(new[s])
             /\ \A i \in 1 .. Len(old[s]) : new[s][i] = old[s][i]
             /\ \A i \in 1 .. Len(new[s]) :
                  i > Len(old[s]) => new[s][i] = e /\ s = StreamOf[e]
  <2>1. CASE s = StreamOf[e]
    <3>1. new[s] = Append(old[s], e)
      BY <1>2, <2>1
    <3> QED
      BY <1>3, <2>1, <3>1
  <2>2. CASE s # StreamOf[e]
    <3>1. new[s] = old[s]
      BY <1>2, <2>2
    <3> QED
      BY <1>3, <3>1
  <2> QED
    BY <2>1, <2>2
<1> QED
  BY <1>1, <1>4, <1>5 DEF Extends

\* Two extensions by the same event make one.
LEMMA ExtendsTwice ==
  ASSUME NEW a \in [Streams -> Seq(Events)], NEW b, NEW c, NEW e \in Events,
         Extends(b, a, e), Extends(c, b, e)
  PROVE  Extends(c, a, e)
<1>1. /\ c \in [Streams -> Seq(Events)]
      /\ b \in [Streams -> Seq(Events)]
  BY DEF Extends
<1>2. ASSUME NEW s \in Streams
      PROVE  /\ Len(a[s]) <= Len(c[s])
             /\ \A i \in 1 .. Len(a[s]) : c[s][i] = a[s][i]
             /\ \A i \in 1 .. Len(c[s]) :
                  i > Len(a[s]) => c[s][i] = e /\ s = StreamOf[e]
  <2>1. Len(a[s]) \in Nat /\ Len(b[s]) \in Nat /\ Len(c[s]) \in Nat
    BY <1>1
  <2>2. /\ Len(a[s]) <= Len(b[s]) /\ Len(b[s]) <= Len(c[s])
        /\ \A i \in 1 .. Len(a[s]) : b[s][i] = a[s][i]
        /\ \A i \in 1 .. Len(b[s]) : c[s][i] = b[s][i]
        /\ \A i \in 1 .. Len(b[s]) :
             i > Len(a[s]) => b[s][i] = e /\ s = StreamOf[e]
        /\ \A i \in 1 .. Len(c[s]) :
             i > Len(b[s]) => c[s][i] = e /\ s = StreamOf[e]
    BY DEF Extends
  <2>3. ASSUME NEW i \in 1 .. Len(c[s]), i > Len(a[s])
        PROVE  c[s][i] = e /\ s = StreamOf[e]
    <3>1. CASE i > Len(b[s])
      BY <2>2, <3>1
    <3>2. CASE i <= Len(b[s])
      <4>1. i \in 1 .. Len(b[s])
        BY <2>1, <3>2
      <4> QED
        BY <2>2, <2>3, <4>1
    <3> QED
      BY <2>1, <3>1, <3>2
  <2>4. ASSUME NEW i \in 1 .. Len(a[s])
        PROVE  c[s][i] = a[s][i]
    <3>1. i \in 1 .. Len(b[s])
      BY <2>1, <2>2
    <3> QED
      BY <2>2, <3>1
  <2> QED
    BY <2>1, <2>2, <2>3, <2>4
<1> QED
  BY <1>1, <1>2 DEF Extends

\* Whatever a publication leaves in the broker extends the log.
LEMMA PublishExtends ==
  ASSUME TypeOK, NEW e \in Events, log' \in {log, Append1(e), Append2(e)}
  PROVE  Extends(log', log, e)
<1>1. log \in [Streams -> Seq(Events)]
  BY DEF TypeOK
<1>2. Extends(log, log, e) /\ Extends(Append1(e), log, e)
  BY <1>1, AppendExtends DEF Append1
<1>3. Extends(Append2(e), log, e)
  <2> DEFINE one == Append1(e)
  <2>1. one \in [Streams -> Seq(Events)]
    BY <1>2 DEF Extends
  <2>2. Append2(e) = [one EXCEPT ![StreamOf[e]] = Append(@, e)]
    BY <1>1 DEF Append1, Append2
  <2> HIDE DEF one
  <2>3. Extends(Append2(e), one, e)
    BY <2>1, <2>2, AppendExtends
  <2>4. Extends(one, log, e)
    BY <1>2 DEF one
  <2> QED
    BY <1>1, <2>3, <2>4, ExtendsTwice
<1> QED
  BY <1>2, <1>3

\* What was read of a partition stays what it was.
LEMMA UpToStays ==
  ASSUME TypeOK, NEW e \in Events, Extends(log', log, e), NEW s \in Streams,
         NEW n \in 0 .. Len(log[s])
  PROVE  UpTo(s, n)' = UpTo(s, n)
<1>1. \A i \in 1 .. n : log'[s][i] = log[s][i]
  BY DEF Extends, TypeOK
<1> QED
  BY <1>1 DEF UpTo

-----------------------------------------------------------------------------
LEMMA LogLength ==
  ASSUME NEW l \in [Streams -> Seq(Events)], NEW s \in Streams
  PROVE  Len(l[s]) \in Nat
  BY LenProperties

\* A publication keeps the types.
LEMMA PublishType ==
  ASSUME TypeOK, NEW e \in Events, Extends(log', log, e),
         UNCHANGED <<producerVars, readerVars, offset, effectVars>>,
         published' \subseteq Events, batch' \subseteq Events,
         sent' \in Events \cup {None}, gaveUp' \subseteq Events,
         faults' \in Nat
  PROVE  TypeOK'
<1>1. \A s \in Streams : /\ Len(log[s]) \in Nat /\ Len(log'[s]) \in Nat
                         /\ Len(log[s]) <= Len(log'[s])
  BY LogLength DEF Extends, TypeOK
<1>2. \A s \in Streams : /\ position'[s] <= Len(log'[s])
                         /\ stash'[s] <= Len(log'[s])
                         /\ offset'[s] <= Len(log'[s])
  <2>1. position' = position /\ stash' = stash /\ offset' = offset
    BY DEF readerVars
  <2>2. \A s \in Streams : /\ position[s] \in Nat /\ position[s] <= Len(log[s])
                           /\ stash[s] \in Nat /\ stash[s] <= Len(log[s])
                           /\ offset[s] \in Nat /\ offset[s] <= Len(log[s])
    BY DEF TypeOK
  <2> QED
    BY <1>1, <2>1, <2>2
<1>3. \A m \in hand' : m.at <= Len(log'[m.stream])
  <2>1. hand' = hand
    BY DEF readerVars
  <2>2. \A m \in hand :
          m.stream \in Streams /\ m.at \in Nat /\ m.at <= Len(log[m.stream])
    BY DEF TypeOK
  <2> QED
    BY <1>1, <2>1, <2>2
<1>4. log' \in [Streams -> Seq(Events)]
  BY DEF Extends
<1> QED
  BY <1>2, <1>3, <1>4 DEF TypeOK, producerVars, readerVars, effectVars

\* The effect of an event keeps the types.
LEMMA EffectType ==
  ASSUME TypeOK, NEW e \in Events, Effect(e)
  PROVE  processed' \subseteq Events /\ applied' \in [Events -> Nat]
  BY DEF TypeOK, Effect

\* A message in hand is one of the log.
LEMMA HandType ==
  ASSUME TypeOK, NEW m \in hand
  PROVE  /\ m.stream \in Streams
         /\ m.at \in 1 .. Len(log[m.stream])
         /\ log[m.stream][m.at] \in Events
<1>1. m.stream \in Streams /\ m.at \in Nat \ {0}
  BY DEF TypeOK
<1>2. log[m.stream] \in Seq(Events) /\ Len(log[m.stream]) \in Nat
  BY <1>1 DEF TypeOK
<1>3. m.at \in 1 .. Len(log[m.stream])
  BY <1>1, <1>2 DEF TypeOK
<1> QED
  BY <1>1, <1>2, <1>3

\* Counting the faults keeps a number.
LEMMA FaultType ==
  ASSUME TypeOK, NEW kind, Fault(kind)
  PROVE  faults' \in Nat
  BY DEF TypeOK, Fault

\* TypeOK is inductive by itself.
LEMMA TypeStep == TypeOK /\ [Next]_vars => TypeOK'
<1> SUFFICES ASSUME TypeOK, [Next]_vars PROVE TypeOK'
  OBVIOUS
<1> USE DEF producerVars, relayVars, readerVars, effectVars
<1>1. ASSUME NEW t \in Txs, Begin(t) PROVE TypeOK'
  BY <1>1 DEF Begin, TypeOK, Committed
<1>2. ASSUME NEW t \in Txs, NEW o \in {"committed", "aborted"}, End(t, o)
      PROVE  TypeOK'
  BY <1>2 DEF End, TypeOK
<1>3. CASE ListUnpublished
  BY <1>3 DEF ListUnpublished, Unpublished, TypeOK
<1>4. ASSUME NEW e \in Events, Publish(e) PROVE TypeOK'
  <2>1. log' \in {log, Append1(e), Append2(e)} /\ faults' \in Nat
    BY <1>4, FaultType DEF Publish, TypeOK
  <2>2. Extends(log', log, e)
    BY <2>1, PublishExtends
  <2> QED
    BY <1>4, <2>1, <2>2, PublishType DEF Publish, TypeOK
<1>5. ASSUME NEW e \in Events, PublishFails(e) PROVE TypeOK'
  <2>1. log' \in {log, Append1(e), Append2(e)} /\ faults' \in Nat
    BY <1>5, FaultType DEF PublishFails
  <2>2. Extends(log', log, e)
    BY <2>1, PublishExtends
  <2> QED
    BY <1>5, <2>1, <2>2, PublishType DEF PublishFails, TypeOK
<1>6. CASE MarkPublished
  BY <1>6 DEF MarkPublished, TypeOK
<1>7. CASE MarkPublishedFails
  BY <1>7 DEF MarkPublishedFails, TypeOK, Fault
<1>8. CASE ProducerCrash
  BY <1>8 DEF ProducerCrash, TypeOK, Fault
<1>9. ASSUME NEW s \in Streams, Fetch(s) PROVE TypeOK'
  <2>1. Len(log[s]) \in Nat /\ position[s] \in Nat
    BY LogLength DEF TypeOK
  <2>2. position[s] + 1 \in Nat \ {0} /\ position[s] + 1 <= Len(log[s])
    BY <1>9, <2>1 DEF Fetch
  <2>3. /\ position' \in [Streams -> Nat]
        /\ \A q \in Streams : position'[q] <= Len(log[q])
    BY <1>9, <2>2 DEF Fetch, TypeOK
  <2>4. /\ hand' \subseteq [stream : Streams, at : Nat \ {0}]
        /\ \A m \in hand' : m.at <= Len(log[m.stream])
    BY <1>9, <2>2 DEF Fetch
  <2> QED
    BY <1>9, <2>3, <2>4 DEF Fetch, TypeOK
<1>10. ASSUME NEW m \in hand, Handle(m) PROVE TypeOK'
  <2>1. processed' \subseteq Events /\ applied' \in [Events -> Nat]
    BY <1>10, HandType, EffectType DEF Handle
  <2>2. /\ stash' \in [Streams -> Nat]
        /\ \A s \in Streams : stash'[s] <= Len(log[s])
    BY <1>10, HandType, LogLength DEF Handle, Stash, TypeOK
  <2> QED
    BY <1>10, <2>1, <2>2 DEF Handle, TypeOK
<1>11. CASE FlushOffsets
  BY <1>11 DEF FlushOffsets, Flushed, TypeOK
<1>12. CASE ConsumerStops
  <2>1. processed' \subseteq Events /\ applied' \in [Events -> Nat]
    BY <1>12, HandType, EffectType DEF ConsumerStops, TypeOK
  <2>2. Flushed \in [Streams -> Nat] /\ \A s \in Streams : Flushed[s] <= Len(log[s])
    BY DEF Flushed, TypeOK
  <2>3. /\ offset' \in [Streams -> Nat]
        /\ \A s \in Streams : offset'[s] <= Len(log[s])
    BY <1>12, <2>2 DEF ConsumerStops, Stop, TypeOK
  <2>4. /\ stash' \in [Streams -> Nat]
        /\ \A s \in Streams : stash'[s] <= Len(log[s])
    BY <1>12, LogLength DEF ConsumerStops, Stop, TypeOK
  <2>5. /\ hand' = {} /\ running' = FALSE /\ faults' \in Nat
        /\ UNCHANGED <<producerVars, relayVars, log, position>>
    BY <1>12 DEF ConsumerStops, Stop, Fault, TypeOK
  <2> QED
    BY <2>1, <2>3, <2>4, <2>5 DEF TypeOK
<1>13. CASE Rebalance
  BY <1>13 DEF Rebalance, Fault, TypeOK
<1>14. CASE ConsumerCrash
  BY <1>14 DEF ConsumerCrash, Fault, TypeOK
<1>15. CASE UNCHANGED vars
  BY <1>15 DEF vars, TypeOK
<1> QED
  BY <1>1, <1>2, <1>3, <1>4, <1>5, <1>6, <1>7, <1>8, <1>9, <1>10, <1>11, <1>12,
     <1>13, <1>14, <1>15 DEF Next, Relay, Consume

\* Every variable keeps its type and no offset leaves its partition.
THEOREM PipelineTypeCorrect == Spec => []TypeOK
<1>1. Init => TypeOK
  BY DEF Init, TypeOK
<1> QED
  BY <1>1, TypeStep, PTL DEF Spec

-----------------------------------------------------------------------------
\* A step of the producer or of the relay that publishes nothing.
LEMMA ProducerStep ==
  ASSUME PipelineInv, TypeOK', UNCHANGED <<log, readerVars, offset, effectVars>>,
         Committed \subseteq Committed',
         \A e \in batch' \cup published' \cup ({sent'} \ {None}) : TxOf[e] \in Committed',
         \A e \in published' \cup ({sent'} \ {None}) : Logged(e)
  PROVE  PipelineInv'
<1> USE DEF readerVars, effectVars
<1>1. EffectOnce'
  BY DEF PipelineInv, EffectOnce
<1>2. CommittedAreProcessed'
  BY DEF PipelineInv, CommittedAreProcessed, UpTo
<1>3. HandledUpTo'
  BY DEF PipelineInv, HandledUpTo, UpTo
<1>4. OnlyCommitted'
  BY DEF PipelineInv, OnlyCommitted, Logged, UpTo
<1> QED
  BY <1>1, <1>2, <1>3, <1>4 DEF PipelineInv

\* What is in its partition stays there.
LEMMA StaysLogged ==
  ASSUME TypeOK, NEW e \in Events, Extends(log', log, e),
         NEW f \in Events, Logged(f)
  PROVE  Logged(f)'
<1>1. StreamOf[f] \in Streams
  OBVIOUS
<1> DEFINE s == StreamOf[f]
<1>2. PICK i \in 1 .. Len(log[s]) : log[s][i] = f
  BY DEF Logged, UpTo
<1>3. Len(log[s]) \in Nat /\ Len(log'[s]) \in Nat
  BY <1>1, LogLength DEF TypeOK, Extends
<1>4. log'[s][i] = f /\ i \in 1 .. Len(log'[s])
  BY <1>1, <1>2, <1>3 DEF Extends
<1> QED
  BY <1>4 DEF Logged, UpTo

\* What was just published is in its partition.
LEMMA PublishedIsLogged ==
  ASSUME TypeOK, NEW e \in Events, log' \in {Append1(e), Append2(e)}
  PROVE  Logged(e)'
<1> DEFINE s == StreamOf[e]
<1>1. s \in Streams /\ log[s] \in Seq(Events)
  BY DEF TypeOK
<1>2. \A q \in Seq(Events) : /\ Append(q, e) \in Seq(Events)
                             /\ Len(q) \in Nat
                             /\ Len(Append(q, e)) = Len(q) + 1
                             /\ Append(q, e)[Len(q) + 1] = e
  BY AppendProperties, LenProperties
<1>3. log'[s] \in {Append(log[s], e), Append(Append(log[s], e), e)}
  BY <1>1 DEF Append1, Append2, TypeOK
<1>4. PICK q \in Seq(Events) : log'[s] = Append(q, e)
  BY <1>1, <1>2, <1>3
<1>5. Len(log'[s]) \in 1 .. Len(log'[s]) /\ log'[s][Len(log'[s])] = e
  BY <1>2, <1>4
<1> QED
  BY <1>5 DEF Logged, UpTo

\* A publication.
LEMMA PublishStep ==
  ASSUME PipelineInv, TypeOK', NEW e \in Events, TxOf[e] \in Committed,
         Extends(log', log, e), batch' \subseteq batch,
         sent' = None \/ (sent' = e /\ Logged(e)'),
         UNCHANGED <<producerVars, published, readerVars, offset, effectVars>>
  PROVE  PipelineInv'
<1> USE DEF producerVars, readerVars, effectVars
<1>0. /\ TypeOK /\ Committed' = Committed
      /\ \A s \in Streams : Len(log[s]) \in Nat /\ Len(log'[s]) \in Nat
  BY LogLength DEF PipelineInv, TypeOK, Extends, Committed
<1>1. EffectOnce'
  BY DEF PipelineInv, EffectOnce
<1>2. CommittedAreProcessed'
  <2> SUFFICES ASSUME NEW s \in Streams PROVE UpTo(s, offset[s])' \subseteq processed
    BY DEF CommittedAreProcessed
  <2>1. offset[s] \in 0 .. Len(log[s]) /\ offset' = offset
    BY <1>0 DEF TypeOK
  <2>2. \A i \in 1 .. offset[s] : log'[s][i] = log[s][i]
    BY <1>0, <2>1 DEF Extends
  <2> QED
    BY <2>1, <2>2 DEF PipelineInv, CommittedAreProcessed, UpTo
<1>3. HandledUpTo'
  <2>1. ASSUME NEW s \in Streams
        PROVE  /\ UpTo(s, stash[s])' \subseteq processed
               /\ \A i \in 1 .. position[s] :
                    log'[s][i] \in processed \/ [stream |-> s, at |-> i] \in hand \/ ~ running
    <3>1. stash[s] \in 0 .. Len(log[s]) /\ position[s] \in 0 .. Len(log[s])
      BY <1>0 DEF TypeOK
    <3>2. \A i \in 1 .. Len(log[s]) : log'[s][i] = log[s][i]
      BY DEF Extends
    <3> QED
      BY <1>0, <3>1, <3>2 DEF PipelineInv, HandledUpTo, UpTo
  <2>2. ASSUME NEW m \in hand
        PROVE  UpTo(m.stream, m.at - 1)' \subseteq processed
    <3>1. m.stream \in Streams /\ m.at \in 1 .. Len(log[m.stream])
      BY <1>0, HandType
    <3>2. \A i \in 1 .. m.at - 1 : i \in 1 .. Len(log[m.stream])
      BY <1>0, <3>1
    <3>3. \A i \in 1 .. m.at - 1 : log'[m.stream][i] = log[m.stream][i]
      BY <3>1, <3>2 DEF Extends
    <3> QED
      BY <3>3 DEF PipelineInv, HandledUpTo, UpTo
  <2> QED
    BY <2>1, <2>2 DEF PipelineInv, HandledUpTo
<1>4. OnlyCommitted'
  <2>1. \A f \in batch' \cup published' \cup ({sent'} \ {None}) : TxOf[f] \in Committed'
    BY <1>0 DEF PipelineInv, OnlyCommitted
  <2>2. ASSUME NEW s \in Streams, NEW i \in 1 .. Len(log'[s])
        PROVE  TxOf[log'[s][i]] \in Committed' /\ StreamOf[log'[s][i]] = s
    <3>1. CASE i > Len(log[s])
      BY <1>0, <3>1 DEF Extends
    <3>2. CASE i <= Len(log[s])
      <4>1. i \in 1 .. Len(log[s])
        BY <1>0, <3>2
      <4> QED
        BY <1>0, <4>1 DEF Extends, PipelineInv, OnlyCommitted
    <3> QED
      BY <1>0, <3>1, <3>2
  <2>3. \A f \in published' \cup ({sent'} \ {None}) : Logged(f)'
    BY <1>0, StaysLogged DEF PipelineInv, OnlyCommitted, TypeOK
  <2>4. processed' \subseteq {f \in Events : TxOf[f] \in Committed'}
    BY <1>0 DEF PipelineInv, OnlyCommitted
  <2> QED
    BY <2>1, <2>2, <2>3, <2>4 DEF OnlyCommitted
<1> QED
  BY <1>1, <1>2, <1>3, <1>4 DEF PipelineInv

\* The effect of the message in hand.
LEMMA EffectStep ==
  ASSUME PipelineInv, NEW m \in hand, Effect(log[m.stream][m.at])
  PROVE  /\ EffectOnce'
         /\ processed \subseteq processed'
         /\ processed' \subseteq {e \in Events : TxOf[e] \in Committed}
         /\ UpTo(m.stream, m.at) \subseteq processed'
<1> DEFINE e == log[m.stream][m.at]
<1>1. m.stream \in Streams /\ m.at \in 1 .. Len(log[m.stream]) /\ e \in Events
  BY HandType DEF PipelineInv
<1>2. TxOf[e] \in Committed
  BY <1>1 DEF PipelineInv, OnlyCommitted
<1>3. processed' = processed \cup {e}
  BY DEF Effect
<1>4. EffectOnce'
  <2>1. applied' = IF e \in processed THEN applied
                   ELSE [applied EXCEPT ![e] = @ + 1]
    BY DEF Effect
  <2>2. /\ applied \in [Events -> Nat]
        /\ \A f \in Events : applied[f] = IF f \in processed THEN 1 ELSE 0
    BY DEF PipelineInv, TypeOK, EffectOnce
  <2> HIDE DEF e
  <2>3. CASE e \in processed
    BY <1>3, <2>1, <2>2, <2>3 DEF EffectOnce
  <2>4. CASE e \notin processed
    BY <1>1, <1>3, <2>1, <2>2, <2>4 DEF EffectOnce
  <2> QED
    BY <2>3, <2>4
<1>5. UpTo(m.stream, m.at) \subseteq processed'
  <2>1. \A i \in 1 .. m.at : i = m.at \/ i \in 1 .. m.at - 1
    BY <1>1
  <2>2. UpTo(m.stream, m.at - 1) \subseteq processed
    BY DEF PipelineInv, HandledUpTo
  <2> QED
    BY <1>3, <2>1, <2>2 DEF UpTo
<1> QED
  BY <1>1, <1>2, <1>3, <1>4, <1>5 DEF PipelineInv, OnlyCommitted

\* What a step of the consumer has to show: the rest it leaves alone.
LEMMA ConsumerStep ==
  ASSUME PipelineInv, TypeOK', UNCHANGED <<producerVars, relayVars, log>>,
         EffectOnce', CommittedAreProcessed', HandledUpTo',
         processed' \subseteq {e \in Events : TxOf[e] \in Committed}
  PROVE  PipelineInv'
<1>1. OnlyCommitted'
  BY DEF PipelineInv, OnlyCommitted, producerVars, relayVars, Logged, UpTo, Committed
<1> QED
  BY <1>1 DEF PipelineInv

\* Every step keeps the invariant.
LEMMA PipelineInvStep == PipelineInv /\ [Next]_vars => PipelineInv'
<1> SUFFICES ASSUME PipelineInv, [Next]_vars PROVE PipelineInv'
  OBVIOUS
<1>0. TypeOK /\ TypeOK'
  BY TypeStep DEF PipelineInv
<1>a. /\ \A e \in batch \cup published \cup ({sent} \ {None}) :
           e \in Events /\ TxOf[e] \in Committed
      /\ \A e \in published \cup ({sent} \ {None}) : Logged(e)
  BY <1>0 DEF PipelineInv, OnlyCommitted, TypeOK
<1>1. ASSUME NEW t \in Txs, Begin(t) PROVE PipelineInv'
  <2>1. Committed \subseteq Committed'
    BY <1>0, <1>1 DEF Begin, Committed, TypeOK
  <2> QED
    BY <1>0, <1>a, <1>1, <2>1, ProducerStep DEF Begin, relayVars
<1>2. ASSUME NEW t \in Txs, NEW o \in {"committed", "aborted"}, End(t, o)
      PROVE  PipelineInv'
  <2>1. Committed \subseteq Committed'
    BY <1>0, <1>2 DEF End, Committed, TypeOK
  <2> QED
    BY <1>0, <1>a, <1>2, <2>1, ProducerStep DEF End, relayVars
<1>3. CASE ListUnpublished
  <2>1. Committed' = Committed
    BY <1>3 DEF ListUnpublished, producerVars, Committed
  <2>2. \A e \in batch' : TxOf[e] \in Committed
    BY <1>3 DEF ListUnpublished, Unpublished
  <2> QED
    BY <1>0, <1>a, <1>3, <2>1, <2>2, ProducerStep DEF ListUnpublished
<1>4. ASSUME NEW e \in Events, Publish(e) PROVE PipelineInv'
  <2>1. log' \in {Append1(e), Append2(e)}
    BY <1>4 DEF Publish
  <2>2. Extends(log', log, e) /\ Logged(e)'
    BY <1>0, <2>1, PublishExtends, PublishedIsLogged
  <2>3. TxOf[e] \in Committed
    BY <1>a, <1>4 DEF Publish, NextInBatch
  <2> QED
    BY <1>0, <1>4, <2>2, <2>3, PublishStep DEF Publish
<1>5. ASSUME NEW e \in Events, PublishFails(e) PROVE PipelineInv'
  <2>1. log' \in {log, Append1(e)}
    BY <1>5 DEF PublishFails
  <2>2. Extends(log', log, e)
    BY <1>0, <2>1, PublishExtends
  <2>3. TxOf[e] \in Committed /\ sent' = None
    BY <1>a, <1>5 DEF PublishFails, NextInBatch
  <2>4. /\ batch' \subseteq batch
        /\ UNCHANGED <<producerVars, published, readerVars, offset, effectVars>>
    BY <1>5 DEF PublishFails
  <2> QED
    BY <1>0, <2>2, <2>3, <2>4, PublishStep
<1>6. CASE MarkPublished
  <2>1. Committed' = Committed
    BY <1>6 DEF MarkPublished, producerVars, Committed
  <2> QED
    BY <1>0, <1>a, <1>6, <2>1, ProducerStep DEF MarkPublished
<1>7. CASE MarkPublishedFails
  <2>1. Committed' = Committed
    BY <1>7 DEF MarkPublishedFails, producerVars, Committed
  <2> QED
    BY <1>0, <1>a, <1>7, <2>1, ProducerStep DEF MarkPublishedFails
<1>8. CASE ProducerCrash
  <2>1. Committed \subseteq Committed'
    BY <1>0, <1>8 DEF ProducerCrash, Committed, TypeOK
  <2> QED
    BY <1>0, <1>a, <1>8, <2>1, ProducerStep DEF ProducerCrash
<1> USE DEF readerVars, effectVars
<1>b. /\ EffectOnce /\ CommittedAreProcessed /\ HandledUpTo
      /\ processed \subseteq {e \in Events : TxOf[e] \in Committed}
  BY DEF PipelineInv, OnlyCommitted
<1>9. ASSUME NEW s \in Streams, Fetch(s) PROVE PipelineInv'
  <2>1. EffectOnce' /\ CommittedAreProcessed'
    BY <1>b, <1>9 DEF Fetch, EffectOnce, CommittedAreProcessed, UpTo
  <2>2. position[s] \in Nat /\ running
    BY <1>0, <1>9 DEF Fetch, TypeOK
  <2>3. \A q \in Streams : \A i \in 1 .. position[q] : log[q][i] \in processed
    BY <1>b, <1>9, <2>2 DEF Fetch, HandledUpTo
  <2>4. \A q \in Streams : \A i \in 1 .. position'[q] :
          log[q][i] \in processed \/ [stream |-> q, at |-> i] \in hand'
    <3> SUFFICES ASSUME NEW q \in Streams, NEW i \in 1 .. position'[q],
                        log[q][i] \notin processed
                 PROVE  [stream |-> q, at |-> i] \in hand'
      OBVIOUS
    <3>1. position'[q] = IF q = s THEN position[s] + 1 ELSE position[q]
      BY <1>0, <1>9 DEF Fetch, TypeOK
    <3>2. i \notin 1 .. position[q]
      BY <2>3
    <3>3. q = s /\ i = position[s] + 1
      BY <2>2, <3>1, <3>2
    <3> QED
      BY <1>9, <3>3 DEF Fetch
  <2>5. \A m \in hand' : UpTo(m.stream, m.at - 1) \subseteq processed
    BY <1>9, <2>2, <2>3 DEF Fetch, UpTo
  <2>6. HandledUpTo'
    BY <1>b, <1>9, <2>4, <2>5 DEF Fetch, HandledUpTo, UpTo
  <2> QED
    BY <1>0, <1>b, <1>9, <2>1, <2>6, ConsumerStep DEF Fetch
<1>10. ASSUME NEW m \in hand, Handle(m) PROVE PipelineInv'
  <2>1. /\ EffectOnce' /\ processed \subseteq processed'
        /\ processed' \subseteq {e \in Events : TxOf[e] \in Committed}
        /\ UpTo(m.stream, m.at) \subseteq processed'
    BY <1>10, EffectStep DEF Handle
  <2>2. m.stream \in Streams /\ m.at \in 1 .. Len(log[m.stream])
    BY <1>0, HandType
  <2>3. CommittedAreProcessed'
    BY <1>b, <1>10, <2>1 DEF Handle, CommittedAreProcessed, UpTo
  <2>4. \A s \in Streams : UpTo(s, stash'[s]) \subseteq processed'
    BY <1>0, <1>b, <1>10, <2>1, <2>2 DEF Handle, Stash, HandledUpTo, TypeOK
  <2>5. log[m.stream][m.at] \in processed'
    BY <2>1, <2>2 DEF UpTo
  <2>6. \A s \in Streams : \A i \in 1 .. position[s] :
          log[s][i] \in processed' \/ ~ running
    <3> SUFFICES ASSUME NEW s \in Streams, NEW i \in 1 .. position[s], running
                 PROVE  log[s][i] \in processed'
      OBVIOUS
    <3>1. CASE [stream |-> s, at |-> i] \in hand
      <4>1. m = [stream |-> s, at |-> i]
        BY <1>b, <3>1 DEF HandledUpTo
      <4> QED
        BY <2>5, <4>1
    <3>2. CASE log[s][i] \in processed
      BY <2>1, <3>2
    <3> QED
      BY <1>b, <3>1, <3>2 DEF HandledUpTo
  <2>7. HandledUpTo'
    BY <1>10, <2>4, <2>6 DEF Handle, HandledUpTo, UpTo
  <2> QED
    BY <1>0, <1>10, <2>1, <2>3, <2>7, ConsumerStep DEF Handle
<1>c. \A s \in Streams : UpTo(s, Flushed[s]) \subseteq processed
  BY <1>b DEF Flushed, HandledUpTo, CommittedAreProcessed
<1>d. \A s \in Streams : UpTo(s, 0) = {}
  BY DEF UpTo
<1>11. CASE FlushOffsets
  <2>1. EffectOnce' /\ CommittedAreProcessed'
    BY <1>b, <1>c, <1>11 DEF FlushOffsets, EffectOnce, CommittedAreProcessed, UpTo
  <2>2. HandledUpTo'
    BY <1>b, <1>d, <1>11 DEF FlushOffsets, HandledUpTo, UpTo
  <2> QED
    BY <1>0, <1>b, <1>11, <2>1, <2>2, ConsumerStep DEF FlushOffsets
<1>12. CASE ConsumerStops
  <2>1. /\ hand' = {} /\ running' = FALSE /\ offset' \in {offset, Flushed}
        /\ stash' = [s \in Streams |-> 0]
        /\ UNCHANGED <<producerVars, relayVars, log, position>>
    BY <1>12 DEF ConsumerStops, Stop
  <2>2. /\ EffectOnce' /\ processed \subseteq processed'
        /\ processed' \subseteq {e \in Events : TxOf[e] \in Committed}
    <3>1. CASE UNCHANGED effectVars
      BY <1>b, <3>1 DEF EffectOnce
    <3>2. ASSUME NEW m \in hand, Effect(log[m.stream][m.at])
          PROVE  /\ EffectOnce' /\ processed \subseteq processed'
                 /\ processed' \subseteq {e \in Events : TxOf[e] \in Committed}
      BY <3>2, EffectStep
    <3> QED
      BY <1>12, <3>1, <3>2 DEF ConsumerStops
  <2>3. CommittedAreProcessed'
    BY <1>b, <1>c, <2>1, <2>2 DEF CommittedAreProcessed, UpTo
  <2>4. HandledUpTo'
    BY <1>d, <2>1 DEF HandledUpTo, UpTo
  <2> QED
    BY <1>0, <2>1, <2>2, <2>3, <2>4, ConsumerStep
<1>13. CASE Rebalance
  <2>1. EffectOnce' /\ CommittedAreProcessed'
    BY <1>b, <1>13 DEF Rebalance, EffectOnce, CommittedAreProcessed, UpTo
  <2>2. \A s \in Streams : \A i \in 1 .. position'[s] : log[s][i] \in processed
    BY <1>b, <1>13 DEF Rebalance, CommittedAreProcessed, UpTo
  <2>3. HandledUpTo'
    BY <1>b, <1>d, <1>13, <2>2 DEF Rebalance, HandledUpTo, UpTo
  <2> QED
    BY <1>0, <1>b, <1>13, <2>1, <2>3, ConsumerStep DEF Rebalance
<1>14. CASE ConsumerCrash
  <2>1. EffectOnce' /\ CommittedAreProcessed'
    BY <1>b, <1>14 DEF ConsumerCrash, EffectOnce, CommittedAreProcessed, UpTo
  <2>2. \A s \in Streams : \A i \in 1 .. position'[s] : log[s][i] \in processed
    BY <1>b, <1>14 DEF ConsumerCrash, CommittedAreProcessed, UpTo
  <2>3. HandledUpTo'
    BY <1>b, <1>d, <1>14, <2>2 DEF ConsumerCrash, HandledUpTo, UpTo
  <2> QED
    BY <1>0, <1>b, <1>14, <2>1, <2>3, ConsumerStep DEF ConsumerCrash
<1>15. CASE UNCHANGED vars
  <2>1. EffectOnce' /\ CommittedAreProcessed' /\ HandledUpTo'
    BY <1>b, <1>15 DEF vars, EffectOnce, CommittedAreProcessed, HandledUpTo, UpTo
  <2> QED
    BY <1>0, <1>b, <1>15, <2>1, ConsumerStep DEF vars
<1> QED
  BY <1>1, <1>2, <1>3, <1>4, <1>5, <1>6, <1>7, <1>8, <1>9, <1>10, <1>11, <1>12,
     <1>13, <1>14, <1>15 DEF Next, Relay, Consume

\* The inductive invariant of the pipeline.
THEOREM PipelineInvCorrect == Spec => []PipelineInv
<1>1. Init => PipelineInv
  BY DEF Init, PipelineInv, TypeOK, EffectOnce, OnlyCommitted,
         CommittedAreProcessed, HandledUpTo, UpTo, Logged
<1> QED
  BY <1>1, PipelineInvStep, PTL DEF Spec

\* However often the relay, the broker and restarts repeat an event, it takes
\* effect once.
THEOREM EffectOnceCorrect == Spec => []EffectOnce
<1>1. PipelineInv => EffectOnce
  BY DEF PipelineInv
<1> QED
  BY <1>1, PipelineInvCorrect, PTL

\* The group never commits an offset past a message it has not handled.
THEOREM OffsetsCorrect == Spec => []CommittedAreProcessed
<1>1. PipelineInv => CommittedAreProcessed
  BY DEF PipelineInv
<1> QED
  BY <1>1, PipelineInvCorrect, PTL

\* No failure of the relay or of the consumer loses a committed event.
THEOREM NoLostEventCorrect == Spec => []NoLostEvent
<1>1. ASSUME PipelineInv PROVE NoLostEvent
  <2> SUFFICES ASSUME NEW e \in Events, e \in published, e \notin processed
               PROVE  \E i \in 1 .. Len(log[StreamOf[e]]) :
                        i > offset[StreamOf[e]] /\ log[StreamOf[e]][i] = e
    BY DEF NoLostEvent
  <2> DEFINE s == StreamOf[e]
  <2>1. s \in Streams /\ offset[s] \in Nat
    BY <1>1 DEF PipelineInv, TypeOK
  <2>2. e # None
    OBVIOUS
  <2>3. PICK i \in 1 .. Len(log[s]) : log[s][i] = e
    BY <1>1, <2>2 DEF PipelineInv, OnlyCommitted, Logged, UpTo
  <2>4. i \notin 1 .. offset[s]
    BY <1>1, <2>1, <2>3 DEF PipelineInv, CommittedAreProcessed, UpTo
  <2>5. Len(log[s]) \in Nat
    BY <1>1, <2>1, LogLength DEF PipelineInv, TypeOK
  <2>6. i > offset[s]
    BY <2>1, <2>4, <2>5
  <2> QED
    BY <2>3, <2>6
<1> QED
  BY <1>1, PipelineInvCorrect, PTL

-----------------------------------------------------------------------------
\* The pipeline implements exactly-once delivery.

\* The handler's transaction is one Apply, or none when the event is known.
LEMMA EffectIsApply ==
  ASSUME PipelineInv, NEW m \in hand, Effect(log[m.stream][m.at]),
         UNCHANGED producerVars
  PROVE  Delivery!Next \/ UNCHANGED Delivery!deliveryVars
<1> DEFINE e == log[m.stream][m.at]
<1>1. e \in Events /\ TxOf[e] \in Committed /\ Committed' = Committed
  BY HandType DEF PipelineInv, OnlyCommitted, producerVars, Committed
<1>2. CASE e \in processed
  BY <1>1, <1>2 DEF Effect, Delivery!deliveryVars
<1>3. CASE e \notin processed
  <2>1. applied[e] = 0
    BY <1>1, <1>3 DEF PipelineInv, EffectOnce
  <2>2. applied' = [applied EXCEPT ![e] = 1]
    BY <1>3, <2>1 DEF Effect
  <2> QED
    BY <1>1, <2>1, <2>2 DEF Delivery!Next, Delivery!Apply
<1> QED
  BY <1>2, <1>3

LEMMA DeliveryStep ==
  ASSUME PipelineInv, [Next]_vars
  PROVE  [Delivery!Next]_(Delivery!deliveryVars)
<1> USE DEF Delivery!deliveryVars
<1>0. TypeOK
  BY DEF PipelineInv
<1>1. ASSUME NEW t \in Txs, Begin(t) PROVE UNCHANGED <<Committed, applied>>
  BY <1>0, <1>1 DEF Begin, Committed, TypeOK, effectVars
<1>2. ASSUME NEW t \in Txs, End(t, "committed") PROVE Delivery!Next
  <2>1. Committed' = Committed \cup {t}
    BY <1>0, <1>2 DEF End, Committed, TypeOK
  <2> QED
    BY <1>2, <2>1 DEF End, effectVars, Delivery!Next, Delivery!Commit
<1>3. ASSUME NEW t \in Txs, End(t, "aborted") PROVE UNCHANGED <<Committed, applied>>
  BY <1>0, <1>3 DEF End, Committed, TypeOK, effectVars
<1>4. ASSUME ProducerCrash PROVE UNCHANGED <<Committed, applied>>
  BY <1>0, <1>4 DEF ProducerCrash, Committed, TypeOK, effectVars
<1>5. ASSUME UNCHANGED producerVars, UNCHANGED effectVars
      PROVE  UNCHANGED <<Committed, applied>>
  BY <1>5 DEF producerVars, effectVars, Committed
<1>6. ASSUME NEW e \in Events, Publish(e) \/ PublishFails(e)
      PROVE  UNCHANGED <<Committed, applied>>
  BY <1>5, <1>6 DEF Publish, PublishFails
<1>7. ASSUME \/ ListUnpublished \/ MarkPublished \/ MarkPublishedFails
             \/ FlushOffsets \/ Rebalance \/ ConsumerCrash
      PROVE  UNCHANGED <<Committed, applied>>
  BY <1>5, <1>7 DEF ListUnpublished, MarkPublished, MarkPublishedFails,
                    FlushOffsets, Rebalance, ConsumerCrash
<1>8. ASSUME NEW s \in Streams, Fetch(s) PROVE UNCHANGED <<Committed, applied>>
  BY <1>5, <1>8 DEF Fetch
<1>9. ASSUME NEW m \in hand, Handle(m)
      PROVE  Delivery!Next \/ UNCHANGED Delivery!deliveryVars
  BY <1>9, EffectIsApply DEF Handle
<1>10. ASSUME ConsumerStops
       PROVE  Delivery!Next \/ UNCHANGED Delivery!deliveryVars
  <2>1. UNCHANGED producerVars
    BY <1>10 DEF ConsumerStops, Stop
  <2> QED
    BY <1>5, <1>10, <2>1, EffectIsApply DEF ConsumerStops
<1>11. CASE UNCHANGED vars
  BY <1>5, <1>11 DEF vars
<1> QED
  BY <1>1, <1>2, <1>3, <1>4, <1>6, <1>7, <1>8, <1>9, <1>10, <1>11
     DEF Next, Relay, Consume

\* Outbox, relay, broker and consumer together deliver every event at most once
\* and only after its transaction committed, whatever fails.
THEOREM DeliveryRefinement == Spec => ImplementsDelivery
<1>1. Init => Delivery!Init
  BY DEF Init, Delivery!Init, Committed
<1>2. PipelineInv /\ [Next]_vars => [Delivery!Next]_(Delivery!deliveryVars)
  BY DeliveryStep
<1> QED
  BY <1>1, <1>2, PipelineInvCorrect, PTL DEF Spec, ImplementsDelivery, Delivery!Spec
-----------------------------------------------------------------------------
\* The order of the events of a partition.

\* A step that publishes and processes nothing, and forgets a batch at most as a
\* whole.
LEMMA OrderKept ==
  ASSUME OrderInv, UNCHANGED <<older, earlier, log, processed>>,
         Committed \subseteq Committed', gaveUp \subseteq gaveUp',
         batch' \in {batch, {}}
  PROVE  OrderInv'
<1>1. EarlierIsOlder'
  BY DEF OrderInv, EarlierIsOlder
<1>2. \A e, f \in Events : InOrder(e, f)' => InOrder(e, f)
  BY DEF InOrder
<1>3. RelayedInOrder'
  BY <1>2 DEF OrderInv, RelayedInOrder, Logged, UpTo
<1>4. AppliedInOrder'
  BY <1>2 DEF OrderInv, AppliedInOrder
<1> QED
  BY <1>1, <1>3, <1>4 DEF OrderInv

\* The relay comes to event g, and publishes it or gives it up.
LEMMA OrderPublish ==
  ASSUME PipelineInv, OrderInv, NEW g \in Events, NextInBatch(g),
         Extends(log', log, g), batch' = batch \ {g},
         Logged(g)' \/ g \in gaveUp', gaveUp \subseteq gaveUp',
         UNCHANGED <<producerVars, processed>>
  PROVE  OrderInv'
<1>0. /\ TypeOK /\ UNCHANGED <<status, older, earlier>>
      /\ \A s \in Streams : Len(log[s]) \in Nat /\ Len(log'[s]) \in Nat
  BY LogLength DEF PipelineInv, TypeOK, Extends, producerVars
<1>1. EarlierIsOlder'
  BY <1>0 DEF OrderInv, EarlierIsOlder, Committed
<1>2. \A e, f \in Events : InOrder(e, f)' => InOrder(e, f)
  BY <1>0 DEF InOrder
<1>3. AppliedInOrder'
  BY <1>2 DEF OrderInv, AppliedInOrder
<1>4. ASSUME NEW e \in Events, NEW f \in Events, InOrder(e, f)', f \in batch'
      PROVE  e \in batch' \/ Logged(e)'
  <2>1. e \in batch \/ Logged(e)
    BY <1>2, <1>4 DEF OrderInv, RelayedInOrder
  <2>2. e # g \/ Logged(e)'
    BY <1>4 DEF InOrder
  <2> QED
    BY <1>0, <2>1, <2>2, StaysLogged
<1>5. ASSUME NEW e \in Events, NEW f \in Events, InOrder(e, f)',
             NEW i \in 1 .. Len(log'[StreamOf[f]]), log'[StreamOf[f]][i] = f
      PROVE  e \in UpTo(StreamOf[f], i - 1)'
  <2> DEFINE s == StreamOf[f]
  <2>1. s \in Streams /\ InOrder(e, f)
    BY <1>2, <1>5
  <2>2. /\ Len(log[s]) \in Nat
        /\ \A j \in 1 .. Len(log[s]) : log'[s][j] = log[s][j]
    BY <1>0, <2>1 DEF Extends
  <2>3. CASE i <= Len(log[s])
    <3>1. i \in 1 .. Len(log[s])
      BY <1>0, <2>1, <2>3
    <3>2. e \in UpTo(s, i - 1)
      BY <1>5, <2>1, <2>2, <3>1 DEF OrderInv, RelayedInOrder
    <3>3. \A j \in 1 .. i - 1 : log'[s][j] = log[s][j]
      BY <2>2, <3>1
    <3> QED
      BY <3>2, <3>3 DEF UpTo
  <2>4. CASE i > Len(log[s])
    <3>1. f = g
      BY <1>5, <2>1, <2>4 DEF Extends
    <3>2. e \notin batch
      BY <2>1, <3>1 DEF NextInBatch, CreatedBefore, InOrder, OrderInv, EarlierIsOlder
    <3>3. Logged(e)
      BY <2>1, <3>1, <3>2 DEF NextInBatch, OrderInv, RelayedInOrder
    <3>4. PICK j \in 1 .. Len(log[s]) : log[s][j] = e
      BY <2>1, <3>3 DEF Logged, UpTo, InOrder
    <3>5. j \in 1 .. i - 1 /\ log'[s][j] = e
      BY <2>2, <2>4, <3>4
    <3> QED
      BY <3>5 DEF UpTo
  <2> QED
    BY <1>0, <2>1, <2>2, <2>3, <2>4
<1>6. RelayedInOrder'
  BY <1>4, <1>5 DEF RelayedInOrder
<1> QED
  BY <1>1, <1>3, <1>6 DEF OrderInv

\* The effect of the message in hand: all before it had theirs.
LEMMA OrderEffect ==
  ASSUME PipelineInv, OrderInv, NEW m \in hand, Effect(log[m.stream][m.at]),
         UNCHANGED <<producerVars, relayVars, log>>
  PROVE  OrderInv'
<1> DEFINE g == log[m.stream][m.at]
<1>0. /\ UNCHANGED <<status, older, earlier, batch, gaveUp, log>>
      /\ \A e, f \in Events : InOrder(e, f)' => InOrder(e, f)
  BY DEF producerVars, relayVars, InOrder
<1>1. EarlierIsOlder' /\ RelayedInOrder'
  BY <1>0 DEF OrderInv, EarlierIsOlder, RelayedInOrder, Committed, Logged, UpTo
<1>2. m.stream \in Streams /\ m.at \in 1 .. Len(log[m.stream]) /\ g \in Events
  BY HandType DEF PipelineInv
<1>3. StreamOf[g] = m.stream /\ UpTo(m.stream, m.at - 1) \subseteq processed
  BY <1>2 DEF PipelineInv, OnlyCommitted, HandledUpTo
<1>4. processed' = processed \cup {g}
  BY DEF Effect
<1>5. ASSUME NEW e \in Events, InOrder(e, g) PROVE e \in processed
  BY <1>2, <1>3, <1>5 DEF OrderInv, RelayedInOrder
<1>6. AppliedInOrder'
  BY <1>0, <1>4, <1>5 DEF OrderInv, AppliedInOrder
<1> QED
  BY <1>1, <1>6 DEF OrderInv

LEMMA OrderStep == PipelineInv /\ OrderInv /\ [Next]_vars => OrderInv'
<1> SUFFICES ASSUME PipelineInv, OrderInv, [Next]_vars PROVE OrderInv'
  OBVIOUS
<1> USE DEF producerVars, relayVars, readerVars, effectVars
<1>0. TypeOK
  BY DEF PipelineInv
<1>1. ASSUME NEW t \in Txs, Begin(t) PROVE OrderInv'
  <2>1. /\ Committed' = Committed /\ t \notin Committed
        /\ \A u \in Txs \ {t} : older'[u] = older[u] /\ earlier'[u] = earlier[u]
        /\ earlier'[t] = Committed /\ older'[t] = {u \in Txs : status[u] # "new"}
    BY <1>0, <1>1 DEF Begin, Committed, TypeOK
  <2>2. EarlierIsOlder'
    BY <2>1 DEF OrderInv, EarlierIsOlder, Committed
  <2>3. /\ UNCHANGED <<log, batch, gaveUp, processed>>
        /\ \A e, f \in Events : InOrder(e, f)' /\ TxOf[f] # t => InOrder(e, f)
    BY <1>1, <2>1 DEF Begin, InOrder
  <2>4. ASSUME NEW f \in Events, TxOf[f] = t
        PROVE  /\ f \notin batch \cup processed
               /\ \A i \in 1 .. Len(log[StreamOf[f]]) : log[StreamOf[f]][i] # f
    BY <2>1, <2>4 DEF PipelineInv, OnlyCommitted
  <2>5. RelayedInOrder'
    BY <2>3, <2>4 DEF OrderInv, RelayedInOrder, Logged, UpTo
  <2>6. AppliedInOrder'
    BY <2>3, <2>4 DEF OrderInv, AppliedInOrder
  <2> QED
    BY <2>2, <2>5, <2>6 DEF OrderInv
<1>2. ASSUME NEW t \in Txs, NEW o \in {"committed", "aborted"}, End(t, o)
      PROVE  OrderInv'
  BY <1>0, <1>2, OrderKept DEF End, Committed, TypeOK
<1>3. CASE ListUnpublished
  <2>1. PICK B \in SUBSET Unpublished :
          /\ \A e \in B, f \in Unpublished \ B : ~ CreatedBefore(f, e)
          /\ batch' = B
    BY <1>3 DEF ListUnpublished
  <2>2. UNCHANGED <<status, older, earlier, log, gaveUp, processed>>
    BY <1>3 DEF ListUnpublished
  <2>3. ASSUME NEW e \in Events, NEW f \in Events, InOrder(e, f), f \in B
        PROVE  e \in B \/ Logged(e)
    <3>1. CreatedBefore(e, f) /\ TxOf[e] \in Committed
      BY <2>3 DEF InOrder, CreatedBefore, OrderInv, EarlierIsOlder
    <3>2. CASE e \in published
      <4>1. e # None
        OBVIOUS
      <4> QED
        BY <3>2, <4>1 DEF PipelineInv, OnlyCommitted
    <3>3. CASE e \notin published
      BY <2>1, <2>3, <3>1, <3>3 DEF Unpublished
    <3> QED
      BY <3>2, <3>3
  <2>4. EarlierIsOlder' /\ AppliedInOrder'
    BY <2>2 DEF OrderInv, EarlierIsOlder, AppliedInOrder, InOrder, Committed
  <2>5. RelayedInOrder'
    BY <2>1, <2>2, <2>3 DEF OrderInv, RelayedInOrder, InOrder, Logged, UpTo
  <2> QED
    BY <2>4, <2>5 DEF OrderInv
<1>4. ASSUME NEW e \in Events, Publish(e) PROVE OrderInv'
  <2>1. log' \in {Append1(e), Append2(e)}
    BY <1>4 DEF Publish
  <2> QED
    BY <1>0, <1>4, <2>1, PublishExtends, PublishedIsLogged, OrderPublish DEF Publish
<1>5. ASSUME NEW e \in Events, PublishFails(e) PROVE OrderInv'
  <2>1. log' \in {log, Append1(e), Append2(e)} /\ e \in gaveUp'
    BY <1>5 DEF PublishFails
  <2> QED
    BY <1>0, <1>5, <2>1, PublishExtends, OrderPublish DEF PublishFails
<1>6. CASE \/ MarkPublished \/ MarkPublishedFails \/ FlushOffsets
           \/ Rebalance \/ ConsumerCrash
  BY <1>6, OrderKept DEF MarkPublished, MarkPublishedFails, FlushOffsets, Rebalance,
                         ConsumerCrash, Committed
<1>7. CASE ProducerCrash
  BY <1>0, <1>7, OrderKept DEF ProducerCrash, Committed, TypeOK
<1>8. ASSUME NEW s \in Streams, Fetch(s) PROVE OrderInv'
  BY <1>8, OrderKept DEF Fetch, Committed
<1>9. ASSUME NEW m \in hand, Handle(m) PROVE OrderInv'
  BY <1>9, OrderEffect DEF Handle
<1>10. CASE ConsumerStops
  <2>1. UNCHANGED <<producerVars, relayVars, log>>
    BY <1>10 DEF ConsumerStops, Stop
  <2>2. CASE UNCHANGED effectVars
    BY <2>1, <2>2, OrderKept DEF Committed
  <2>3. ASSUME NEW m \in hand, Effect(log[m.stream][m.at]) PROVE OrderInv'
    BY <2>1, <2>3, OrderEffect
  <2> QED
    BY <1>10, <2>2, <2>3 DEF ConsumerStops
<1>11. CASE UNCHANGED vars
  BY <1>11, OrderKept DEF vars, Committed
<1> QED
  BY <1>1, <1>2, <1>3, <1>4, <1>5, <1>6, <1>7, <1>8, <1>9, <1>10, <1>11
     DEF Next, Relay, Consume

\* Retries, lost marks, crashes and redeliveries reorder nothing: an event takes
\* effect after those of its partition whose transactions had committed before
\* its own began, unless the relay failed to publish one.
THEOREM OrderCorrect == Spec => []AppliedInOrder
<1>1. Init => OrderInv
  BY DEF Init, OrderInv, EarlierIsOlder, RelayedInOrder, AppliedInOrder
<1>2. PipelineInv /\ OrderInv /\ [Next]_vars => OrderInv'
  BY OrderStep
<1>3. OrderInv => AppliedInOrder
  BY DEF OrderInv
<1> QED
  BY <1>1, <1>2, <1>3, PipelineInvCorrect, PTL DEF Spec
=============================================================================
