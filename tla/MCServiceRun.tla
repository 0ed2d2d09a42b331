---------------------------- MODULE MCServiceRun ----------------------------
(***************************************************************************)
(* Instances of ServiceRun for TLC: every service with all it may need, and *)
(* with one of its settings unset or unparsable.                           *)
(***************************************************************************)
EXTENDS ServiceRun

Endpoints == {"USER_GRPC_ENDPOINT", "POLL_GRPC_ENDPOINT", "VOTE_GRPC_ENDPOINT",
              "FEED_GRPC_ENDPOINT", "ANALYTICS_GRPC_ENDPOINT"}
Shared == {"DATABASE_URL", "KAFKA_BROKERS"}
Settings ==
  [user |-> {"DATABASE_URL", "JWT_SECRET"},
   vote |-> Shared \cup {"EVENT_PUBLISHER", "USER_GRPC_ENDPOINT", "POLL_GRPC_ENDPOINT"},
   poll |-> Shared \cup MinIO \cup {"EVENT_PUBLISHER", "MINIO_LIMITS", "USER_GRPC_ENDPOINT"},
   feed |-> Shared \cup {"USER_GRPC_ENDPOINT"},
   analytics |-> Shared,
   api |-> Endpoints \cup {"JWT_SECRET"}]

All(s) == [v \in UNION {Settings[t] : t \in Service} |-> IF v \in Settings[s] THEN "good" ELSE "unset"]
Environments(s) ==
  {All(s), [v \in DOMAIN All(s) |-> IF v \in MinIO THEN "unset" ELSE All(s)[v]]}
  \cup {[All(s) EXCEPT ![v] = value] : v \in Settings[s], value \in {"unset", "bad"}}
MCProcesses ==
  UNION {{[service |-> s, env |-> e] : e \in Environments(s)} : s \in Service}
=============================================================================
