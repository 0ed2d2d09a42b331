---------------------------- MODULE MCReadCaches ----------------------------
(***************************************************************************)
(* Small instances of the read caches for TLC: of the poll service         *)
(* (PollCache) and of the analytics service (AnalyticsCache).  They share  *)
(* nothing but Redis, under keys of their own, so a behaviour is one of    *)
(* either.                                                                 *)
(***************************************************************************)
EXTENDS PollCache, Sequences, SequencesExt

CONSTANTS Readers, MaxEvents, Sections

ASSUME SectionsAreNames == Sections \in Seq(ToSet(Sections))

VARIABLES
  service,                                              \* "poll" or "analytics"
  tables, consumer, counted, keys, reader, failed       \* of the analytics service

analyticsVars == <<tables, consumer, counted, keys, reader, failed>>

\* The sections work alike.
MCSections == <<"age">>

Analytics == INSTANCE AnalyticsCache

\* The service that is not looked at stays at its beginning.
MCInit == service \in {"poll", "analytics"} /\ Init /\ Analytics!Init

MCNext ==
  \/ service = "poll" /\ Next /\ UNCHANGED <<service, analyticsVars>>
  \/ service = "analytics" /\ Analytics!Next /\ UNCHANGED <<service, vars>>

MCSpec == MCInit /\ [][MCNext]_<<service, vars, analyticsVars>>

\* What AnalyticsCache says of the values under its keys.
OutdatedOnlyByOverlap == Analytics!OutdatedOnlyByOverlap
=============================================================================
