----------------------------- MODULE ServiceRun -----------------------------
(***************************************************************************)
(* The life of one process of one of the six services: the configuration,  *)
(* the start step by step, requests, outbox relay and consumer while it    *)
(* serves, the graceful stop, and all the ways in which it ends at once,   *)
(* to be started again by Docker.                                          *)
(*                                                                         *)
(* EventPipeline has the events in detail and VoteService a request; here  *)
(* a request is a transaction of one connection, which adds one event if   *)
(* the service has an outbox.                                              *)
(***************************************************************************)
EXTENDS Integers, Sequences, SequencesExt

CONSTANTS
  Processes,   \* what may run: a service and its environment
  Requests,
  MaxStarts,   \* how often the process is started
  Faults,      \* what may go wrong outside
  MaxFaults,
  NoEvent

Service == {"api", "user", "vote", "poll", "feed", "analytics"}

ASSUME RunAssumption ==
  /\ \A p \in Processes : p.service \in Service
  /\ NoEvent \notin Requests
  /\ Requests \cap {"relay", "consumer"} = {}
  /\ MaxStarts \in Nat /\ MaxFaults \in Nat

VARIABLES
  service, env,  \* the service and its environment
  phase,     \* of main
  step,      \* the next step of the start, or of the waits of the stop
  signals,   \* "default", or "caught" by signal.NotifyContext
  ctx,       \* whether its context is "live" or "done"
  open,      \* the deferred calls of Close, the last first to be run
  server,    \* of gRPC, or HTTP
  failed,    \* whether Serve returned an error
  timedOut,  \* whether a timer of the stop ended
  worker,    \* the goroutines of the relay and of the consumer
  item,      \* the event the relay is at
  handler,   \* [Requests -> the handler of the request]
  client,    \* [Requests -> what whoever sent it knows]
  outbox,    \* the events, named by their requests, that are not marked published
  topic,     \* the events in Kafka
  starts, faults

envVars == <<service, env>>
mainVars == <<phase, step, signals, ctx, open, server, failed, timedOut>>
workVars == <<worker, item, handler>>
eventVars == <<outbox, topic>>
countVars == <<starts, faults>>
vars == <<envVars, mainVars, workVars, client, eventVars, countVars>>

-----------------------------------------------------------------------------
\* A setting is unset, good, or something that cannot be parsed; a duration or
\* a number of that kind falls back to its default and is left out.
\* EVENT_PUBLISHER "good" is kafka, unset is log.
MinIO == {"MINIO_ENDPOINT", "MINIO_ACCESS_KEY", "MINIO_SECRET_KEY", "MINIO_BUCKET",
          "MINIO_PUBLIC_BASE_URL"}

Given(e, settings) == \A v \in settings : e[v] # "unset"
Kafka(e) == e["EVENT_PUBLISHER"] = "good"

LoadUser(e) == Given(e, {"DATABASE_URL", "JWT_SECRET"})

LoadVote(e) ==
  /\ Given(e, {"DATABASE_URL", "USER_GRPC_ENDPOINT", "POLL_GRPC_ENDPOINT"})
  /\ e["EVENT_PUBLISHER"] # "bad"
  /\ Kafka(e) => Given(e, {"KAFKA_BROKERS"})

\* MINIO_LIMITS are the two that must be positive; the others all or none.
LoadPoll(e) ==
  /\ Given(e, {"DATABASE_URL", "USER_GRPC_ENDPOINT", "KAFKA_BROKERS"})
  /\ e["EVENT_PUBLISHER"] # "bad" /\ e["MINIO_LIMITS"] # "bad"
  /\ (\E v \in MinIO : Given(e, {v})) => Given(e, MinIO)

LoadFeed(e) == Given(e, {"DATABASE_URL", "KAFKA_BROKERS"})
LoadAnalytics(e) == Given(e, {"DATABASE_URL", "KAFKA_BROKERS"})

LoadApi(e) == Given(e, {"JWT_SECRET", "USER_GRPC_ENDPOINT", "POLL_GRPC_ENDPOINT",
  "VOTE_GRPC_ENDPOINT", "FEED_GRPC_ENDPOINT", "ANALYTICS_GRPC_ENDPOINT"})

Load(s, e) ==
  CASE s = "user" -> LoadUser(e)
    [] s = "vote" -> LoadVote(e)
    [] s = "poll" -> LoadPoll(e)
    [] s = "feed" -> LoadFeed(e)
    [] s = "analytics" -> LoadAnalytics(e)
    [] s = "api" -> LoadApi(e)

\* What the constructors refuse.
NewUploader(e) == Given(e, MinIO) /\ e["MINIO_PUBLIC_BASE_URL"] # "bad"
NewKafkaPublisher(e) == Given(e, {"KAFKA_BROKERS"})
NewKafkaSubscriber(e) == Given(e, {"KAFKA_BROKERS"})

Refuses(name, s, e) ==
  CASE name = "load" -> ~ Load(s, e)
    [] name = "pool" -> e["DATABASE_URL"] = "bad"
    [] name = "userConn" -> e["USER_GRPC_ENDPOINT"] = "bad"
    [] name = "pollConn" -> e["POLL_GRPC_ENDPOINT"] = "bad"
    [] name = "uploader" -> Given(e, {"MINIO_ENDPOINT"}) /\ ~ NewUploader(e)
    [] name = "publisher" -> Kafka(e) /\ ~ NewKafkaPublisher(e)
    [] name = "subscriber" -> ~ NewKafkaSubscriber(e)
    [] OTHER -> FALSE

-----------------------------------------------------------------------------
\* What main does, in its order, until it serves.
StartUser == <<"load", "signals", "pool", "ping", "listen">>
StartVote == <<"load", "signals", "pool", "userConn", "pollConn", "publisher", "relay", "listen">>
StartPoll == <<"load", "signals", "pool", "uploader", "cache", "publisher", "subscriber",
               "relay", "consumer", "listen">>
StartFeed == <<"load", "signals", "pool", "userConn", "cache", "subscriber", "consumer", "listen">>
StartAnalytics == <<"load", "signals", "pool", "cache", "subscriber", "consumer", "listen">>
StartApi == <<"load", "signals", "clients">>

Startup == [user |-> StartUser, vote |-> StartVote, poll |-> StartPoll, feed |-> StartFeed,
            analytics |-> StartAnalytics, api |-> StartApi]

Has(name) == name \in ToSet(Startup[service])

\* What the end of main waits for, in its order, when no new requests come: the
\* goroutines whose done channels it was given.
WaitsUser == <<>>
WaitsVote == <<"relay">>

\* Mutant of WaitsPoll: nobody waits for the relay.
WaitsPollForConsumer == <<"consumer">>
WaitsPoll == <<"relay", "consumer">>

WaitsFeed == <<"consumer">>
WaitsAnalytics == <<"consumer">>
WaitsApi == <<>>

Waits == [user |-> WaitsUser, vote |-> WaitsVote, poll |-> WaitsPoll, feed |-> WaitsFeed,
          analytics |-> WaitsAnalytics, api |-> WaitsApi][service]

\* The workers that were started.
Workers == {"relay", "consumer"} \cap ToSet(Startup[service])

\* Whether a step leaves something open that main closes when it returns.
Opens(name) ==
  \/ name \in {"pool", "userConn", "pollConn", "cache"}
  \/ name = "publisher" /\ Kafka(env)

Fault(kind) == kind \in Faults /\ faults < MaxFaults /\ faults' = faults + 1

IsOpen(name) == name \in ToSet(open)

\* Whether the pool hands out connections: Close ends that before it waits.
Usable == IsOpen("pool") /\ ~ (phase = "closing" /\ Last(open) = "pool")

\* Who has one for longer than a statement.
Holders ==
  {r \in Requests : handler[r] = "holding"} \cup
  {w \in Workers : worker[w] = "handling"}

Busy == {r \in Requests : handler[r] \in {"running", "holding", "committed"}}

NoWorkers == [w \in {"relay", "consumer"} |-> "none"]

Init ==
  /\ \E p \in Processes : service = p.service /\ env = p.env
  /\ phase = "down" /\ step = 1
  /\ signals = "default" /\ ctx = "live"
  /\ open = <<>> /\ server = "none"
  /\ failed = FALSE /\ timedOut = FALSE
  /\ worker = NoWorkers /\ item = NoEvent
  /\ handler = [r \in Requests |-> "none"]
  /\ client = [r \in Requests |-> "none"]
  /\ outbox = {} /\ topic = {}
  /\ starts = 0 /\ faults = 0

-----------------------------------------------------------------------------
\* The process is gone, whatever it had in hand with it.  Who waits for an
\* answer gets none.
Exit(cause) ==
  /\ phase' = "down" /\ step' = 1
  /\ signals' = "default" /\ ctx' = "live"
  /\ open' = <<>> /\ server' = "none"
  /\ failed' = FALSE /\ timedOut' = FALSE
  /\ worker' = NoWorkers /\ item' = NoEvent
  /\ handler' = [r \in Requests |-> "none"]
  /\ client' = [r \in Requests |->
       IF client[r] # "waiting" THEN client[r]
       ELSE IF timedOut THEN "forced" ELSE cause]
  /\ UNCHANGED <<envVars, eventVars>>

\* Docker starts it, for the first time or again.
Start ==
  /\ phase = "down" /\ starts < MaxStarts
  /\ phase' = "starting"
  /\ starts' = starts + 1
  /\ UNCHANGED <<envVars, step, signals, ctx, open, server, failed, timedOut, workVars,
                 client, eventVars, faults>>

\* The step is refused or fails, log.Fatalf: nothing that was deferred is run.
FailStep ==
  /\ phase = "starting" /\ step <= Len(Startup[service])
  /\ LET name == Startup[service][step] IN
       \/ Refuses(name, service, env) /\ UNCHANGED faults
       \/ name \in {"ping", "listen"} /\ Fault(name)
       \/ name = "ping" /\ ctx = "done" /\ UNCHANGED faults
  /\ Exit("lost")
  /\ UNCHANGED starts

\* A cache that is not configured or does not answer is left out.
TakeStep ==
  /\ phase = "starting" /\ step <= Len(Startup[service])
  /\ LET name == Startup[service][step] IN
       /\ ~ Refuses(name, service, env)
       /\ name = "ping" => ctx = "live"
       /\ signals' = IF name = "signals" THEN "caught" ELSE signals
       /\ \/ open' = IF Opens(name) THEN Append(open, name) ELSE open
          \/ name = "cache" /\ UNCHANGED open
       /\ worker' = IF name \in Workers THEN [worker EXCEPT ![name] = "idle"] ELSE worker
  /\ step' = step + 1
  /\ UNCHANGED <<envVars, phase, ctx, server, failed, timedOut, item, handler,
                 client, eventVars, countVars>>

Serve ==
  /\ phase = "starting" /\ step = Len(Startup[service]) + 1
  /\ phase' = "serving" /\ server' = "serving"
  /\ UNCHANGED <<envVars, step, signals, ctx, open, failed, timedOut, workVars, client,
                 eventVars, countVars>>

\* SIGTERM or SIGINT.  NotifyContext goes on catching them until stop(): more of
\* them change nothing.  Before and after, they end the process.
Signal ==
  /\ phase # "down"
  /\ IF signals = "caught"
     THEN /\ ctx = "live" /\ ctx' = "done"
          /\ UNCHANGED <<envVars, phase, step, signals, open, server, failed, timedOut,
                         workVars, client, eventVars>>
     ELSE Exit("killed")
  /\ UNCHANGED countVars

\* SIGKILL, which Docker sends 10 s after SIGTERM, a panic, the machine.
Kill ==
  /\ phase # "down"
  /\ Exit("killed")
  /\ UNCHANGED countVars

\* Serve returns an error: main calls stop() and goes on as after a signal; the
\* gateway is Fatal at once.
ServeFails ==
  /\ phase = "serving" /\ Fault("serve")
  /\ IF service = "api"
     THEN Exit("fatal")
     ELSE /\ failed' = TRUE /\ ctx' = "done" /\ signals' = "default"
          /\ phase' = "draining" /\ server' = "draining"
          /\ UNCHANGED <<envVars, step, open, timedOut, workVars, client, eventVars>>
  /\ UNCHANGED starts

\* Mutant of BeginDrain: the requests that run are not waited for.
BeginStop ==
  /\ phase = "serving" /\ ctx = "done"
  /\ phase' = "waiting" /\ step' = 1 /\ server' = "stopped"
  /\ UNCHANGED <<envVars, signals, ctx, open, failed, timedOut, workVars, client,
                 eventVars, countVars>>

\* Mutant of BeginDrain: main waits for an error of Serve alone.
BeginDrainOnError ==
  /\ phase = "serving" /\ failed
  /\ phase' = "draining" /\ server' = "draining"
  /\ UNCHANGED <<envVars, step, signals, ctx, open, failed, timedOut, workVars, client,
                 eventVars, countVars>>

\* GracefulStop, or Shutdown of the gateway's server: no new requests.
BeginDrain ==
  /\ phase = "serving" /\ ctx = "done"
  /\ phase' = "draining" /\ server' = "draining"
  /\ UNCHANGED <<envVars, step, signals, ctx, open, failed, timedOut, workVars, client,
                 eventVars, countVars>>

\* All requests are answered; or, after 10 s, Stop() closes their connections
\* and cancels their contexts.  The gateway then only stops waiting.
EndDrain ==
  /\ phase = "draining"
  /\ phase' = "waiting" /\ step' = 1 /\ server' = "stopped"
  /\ \/ Busy = {} /\ UNCHANGED <<timedOut, client>>
     \/ /\ timedOut' = TRUE
        /\ client' = [r \in Requests |->
             IF client[r] = "waiting" /\ service # "api" THEN "forced" ELSE client[r]]
  /\ UNCHANGED <<envVars, signals, ctx, open, failed, workVars, eventVars, countVars>>

\* waitForShutdown: a worker has ended, or 10 s are over.
WaitForWorker ==
  /\ phase = "waiting" /\ step <= Len(Waits)
  /\ \/ worker[Waits[step]] = "ended" /\ UNCHANGED timedOut
     \/ timedOut' = TRUE
  /\ step' = step + 1
  /\ UNCHANGED <<envVars, phase, signals, ctx, open, server, failed, workVars, client,
                 eventVars, countVars>>

\* The end of main: after a failed Serve it is Fatal again.
EndWaits ==
  /\ phase = "waiting" /\ step > Len(Waits)
  /\ IF failed
     THEN Exit("lost")
     ELSE /\ phase' = "closing"
          /\ UNCHANGED <<envVars, step, signals, ctx, open, server, failed, timedOut, workVars,
                         client, eventVars>>
  /\ UNCHANGED countVars

\* The pool's Close waits until nobody has a connection of it.
CloseLast ==
  /\ phase = "closing" /\ open # <<>>
  /\ Last(open) = "pool" => Holders = {}
  /\ open' = Front(open)
  /\ UNCHANGED <<envVars, phase, step, signals, ctx, server, failed, timedOut, workVars, client,
                 eventVars, countVars>>

Return ==
  /\ phase = "closing" /\ open = <<>>
  /\ Exit("lost")
  /\ UNCHANGED countVars

-----------------------------------------------------------------------------
Handler(r, from, to) ==
  /\ handler[r] \in from
  /\ handler' = [handler EXCEPT ![r] = to]
  /\ UNCHANGED <<envVars, mainVars, worker, item, topic, countVars>>

Answered(r) ==
  client' = [client EXCEPT ![r] = IF @ = "waiting" THEN "answered" ELSE @]

Accept(r) ==
  /\ server = "serving" /\ client[r] = "none"
  /\ Handler(r, {"none"}, "running")
  /\ client' = [client EXCEPT ![r] = "waiting"]
  /\ UNCHANGED outbox

\* BEGIN, on a connection of the pool.
Acquire(r) ==
  /\ Usable
  /\ Handler(r, {"running"}, "holding")
  /\ UNCHANGED <<client, outbox>>

CommitTx(r) ==
  /\ Handler(r, {"holding"}, "committed")
  /\ outbox' = IF Has("relay") THEN outbox \cup {r} ELSE outbox
  /\ UNCHANGED client

\* Its last read, and the answer; the gateway has the answer from a service.
Answer(r) ==
  /\ Handler(r, IF Has("pool") THEN {"committed"} ELSE {"running"}, "done")
  /\ Answered(r)
  /\ UNCHANGED outbox

\* An error is answered: of the database, of another service, of the context.
AnswerError(r) ==
  /\ Handler(r, {"running", "holding"}, "done")
  /\ Answered(r)
  /\ UNCHANGED outbox

-----------------------------------------------------------------------------
Worker(name, from, to) ==
  /\ worker[name] = from
  /\ worker' = [worker EXCEPT ![name] = to]
  /\ UNCHANGED <<envVars, mainVars, handler, client, starts>>

\* Mutant of Unpublished: the events of this process alone.
UnpublishedOfProcess == {e \in outbox : handler[e] # "none"}

Unpublished == outbox

\* The relay comes to an event: EventPipeline has its batches.
ListUnpublished ==
  /\ ctx = "live" /\ Usable
  /\ \E e \in Unpublished : item' = e
  /\ Worker("relay", "idle", "publishing")
  /\ UNCHANGED <<eventVars, faults>>

\* The log publisher counts as well.
Publish ==
  /\ IsOpen("publisher") \/ ~ Kafka(env)
  /\ Worker("relay", "publishing", "marking")
  /\ topic' = topic \cup {item}
  /\ UNCHANGED <<item, outbox, faults>>

MarkPublished ==
  /\ ctx = "live" /\ Usable
  /\ Worker("relay", "marking", "idle")
  /\ outbox' = outbox \ {item} /\ item' = NoEvent
  /\ UNCHANGED <<topic, faults>>

\* The write or the mark fails, or is cancelled half-way: it may have been done.
RelayFails ==
  /\ \/ ctx = "done" /\ UNCHANGED faults
     \/ Fault("relay")
  /\ \/ Worker("relay", "publishing", "idle") /\ UNCHANGED outbox
     \/ Worker("relay", "marking", "idle") /\ outbox' \in {outbox, outbox \ {item}}
  /\ item' = NoEvent
  /\ UNCHANGED topic

RelayEnds ==
  /\ ctx = "done"
  /\ Worker("relay", "idle", "ended")
  /\ UNCHANGED <<item, eventVars, faults>>

\* A message is fetched, even if the context is done meanwhile; it is handled
\* with a context of its own then.
Fetch ==
  /\ Usable
  /\ Worker("consumer", "idle", "handling")
  /\ UNCHANGED <<item, eventVars, faults>>

\* The transaction of the handler ends, one way or the other, and the consumer
\* goes on unless it was told to stop or the handler failed.
HandleMessage ==
  /\ \/ ctx = "live" /\ Worker("consumer", "handling", "idle") /\ UNCHANGED faults
     \/ ctx = "done" /\ Worker("consumer", "handling", "ended") /\ UNCHANGED faults
     \/ Fault("handler") /\ Worker("consumer", "handling", "ended")
  /\ UNCHANGED <<item, eventVars>>

ConsumerEnds ==
  /\ ctx = "done"
  /\ Worker("consumer", "idle", "ended")
  /\ UNCHANGED <<item, eventVars, faults>>

-----------------------------------------------------------------------------
Main ==
  \/ FailStep \/ TakeStep \/ Serve
  \/ BeginDrain \/ EndDrain \/ WaitForWorker \/ EndWaits \/ CloseLast \/ Return

Handle(r) == Acquire(r) \/ CommitTx(r) \/ Answer(r) \/ AnswerError(r)
Relay == ListUnpublished \/ Publish \/ MarkPublished \/ RelayFails \/ RelayEnds
Consumer == Fetch \/ HandleMessage \/ ConsumerEnds

Next ==
  \/ Start \/ Main
  \/ Signal \/ Kill \/ ServeFails
  \/ \E r \in Requests : Accept(r) \/ Handle(r)
  \/ Relay \/ Consumer

Spec == Init /\ [][Next]_vars

\* The Go scheduler runs every goroutine, timers end, Docker starts what ended,
\* and the database answers or gives up.  No request, signal, kill or fault has
\* to happen, and no message has to be there for the consumer.
Fairness ==
  /\ WF_vars(Start) /\ WF_vars(Main)
  /\ \A r \in Requests : WF_vars(Handle(r))
  /\ WF_vars(Relay)
  /\ WF_vars(HandleMessage)
FairSpec == Spec /\ Fairness

-----------------------------------------------------------------------------
\* Each variable holds a value of its kind.
TypeOK ==
  /\ service \in Service
  /\ phase \in {"down", "starting", "serving", "draining", "waiting", "closing"}
  /\ step \in Nat \ {0}
  /\ signals \in {"default", "caught"} /\ ctx \in {"live", "done"}
  /\ open \in Seq({"pool", "userConn", "pollConn", "cache", "publisher"})
  /\ server \in {"none", "serving", "draining", "stopped"}
  /\ failed \in BOOLEAN /\ timedOut \in BOOLEAN
  /\ worker \in [{"relay", "consumer"} ->
                   {"none", "idle", "publishing", "marking", "handling", "ended"}]
  /\ item \in Requests \cup {NoEvent}
  /\ handler \in [Requests -> {"none", "running", "holding", "committed", "done"}]
  /\ client \in [Requests -> {"none", "waiting", "answered", "forced", "killed", "fatal",
                            "lost"}]
  /\ outbox \subseteq Requests /\ topic \subseteq Requests
  /\ starts \in Nat /\ faults \in Nat

\* Who works for the process, and what main opened for them.
Active ==
  Busy \cup {w \in Workers : worker[w] \notin {"none", "ended"}}

Needs(u) == {"pool"} \cup (IF u = "relay" /\ Kafka(env) THEN {"publisher"} ELSE {})

\* Nothing is closed under whoever uses it: what a request, the relay and the
\* consumer need stays open until they are done, unless a timer of the stop
\* ended, and whoever has a connection keeps the pool open even then.
UsedWhileOpen ==
  /\ Holders # {} => IsOpen("pool")
  /\ Has("pool") /\ ~ timedOut => \A u \in Active : Needs(u) \subseteq ToSet(open)

\* Whoever sent a request gets an answer, if the process was not killed and the
\* 10 s of the graceful stop sufficed: no way out of main leaves one behind, but
\* the gateway's, which is Fatal in the middle of its requests when Serve fails.
AnsweredUnlessKilled == \A r \in Requests : client[r] # "lost"

\* A process that is told to stop ends, whatever its requests and workers do.
EndsOnSignal == ctx = "done" ~> phase = "down"

\* The events of the last requests, which are committed when the relay has
\* ended already, are published by a later process.
LeftoversPublished ==
  \A e \in Requests :
    e \in outbox ~> e \in topic \/ (phase = "down" /\ starts = MaxStarts)
=============================================================================
