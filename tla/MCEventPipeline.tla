-------------------------- MODULE MCEventPipeline ---------------------------
(***************************************************************************)
(* Instances of EventPipeline for TLC: a vote that moves a selection       *)
(* (transaction t1: vote.removed and vote.cast, two topics) and a later or *)
(* overlapping one (t2: vote.cast); the poll is the key, so the two casts  *)
(* share a partition.  The three events are more than a batch holds.       *)
(***************************************************************************)
EXTENDS EventPipeline

CONSTANTS t1, t2, removed1, cast1, cast2, castLog, removedLog

MCTxs == {t1, t2}
MCEvents == {removed1, cast1, cast2}
MCStreams == {castLog, removedLog}
MCTxOf == [e \in MCEvents |-> IF e = cast2 THEN t2 ELSE t1]
MCStreamOf == [e \in MCEvents |-> IF e = removed1 THEN removedLog ELSE castLog]
=============================================================================
