-------------------------- MODULE ServiceRunProofs --------------------------
(***************************************************************************)
(* Proofs about ServiceRun, for any processes, requests and faults and any *)
(* number of starts: whoever sent a request gets an answer, if the process *)
(* was not killed and its graceful stop was not cut short.                 *)
(*                                                                         *)
(* The inductive invariant ties who waits for an answer to the phase of    *)
(* main: a request that is waited for is being handled, and main has not   *)
(* come past the drain unless a timer of the stop ended.                   *)
(***************************************************************************)
EXTENDS ServiceRun, SequenceTheorems, TLAPS

RunTypes ==
  /\ phase \in {"down", "starting", "serving", "draining", "waiting", "closing"}
  /\ timedOut \in BOOLEAN
  /\ handler \in [Requests -> {"none", "running", "holding", "committed", "done"}]
  /\ client \in [Requests -> {"none", "waiting", "answered", "forced", "killed", "fatal",
                            "lost"}]

\* The server takes requests only while main serves.
ServesInPhase == server = "serving" => phase = "serving"

\* Where main is when somebody waits for an answer.
Waited ==
  \/ phase \in {"serving", "draining"}
  \/ phase \in {"waiting", "closing"} /\ timedOut

WaitingAreHandled == \A r \in Requests : client[r] = "waiting" => r \in Busy /\ Waited

RunInv ==
  /\ RunTypes
  /\ ServesInPhase
  /\ WaitingAreHandled
  /\ AnsweredUnlessKilled

LEMMA RunInvInit == Init => RunInv
  BY DEF Init, RunInv, RunTypes, ServesInPhase, WaitingAreHandled, AnsweredUnlessKilled

-----------------------------------------------------------------------------
\* The process ends: nobody waits any more, and it lost somebody only if there
\* was somebody who waited and no timer had ended.
LEMMA ExitKeepsInv ==
  ASSUME RunInv, NEW cause \in {"killed", "fatal", "lost"}, Exit(cause),
         cause = "lost" => timedOut \/ \A r \in Requests : client[r] # "waiting"
  PROVE  RunInv'
<1>1. RunTypes'
  BY DEF RunInv, RunTypes, Exit
<1>2. ServesInPhase'
  BY DEF Exit, ServesInPhase
<1>3. \A r \in Requests : client'[r] # "waiting"
  BY DEF RunInv, RunTypes, Exit
<1>4. \A r \in Requests : client'[r] # "lost"
  BY DEF RunInv, RunTypes, AnsweredUnlessKilled, Exit
<1> QED
  BY <1>1, <1>2, <1>3, <1>4 DEF RunInv, WaitingAreHandled, AnsweredUnlessKilled

\* A step of main or of a worker that leaves the requests alone.
LEMMA QuietKeepsInv ==
  ASSUME RunInv, UNCHANGED <<handler, client>>, RunTypes', ServesInPhase',
         Waited => Waited' \/ \A r \in Requests : client[r] # "waiting"
  PROVE  RunInv'
  BY DEF RunInv, WaitingAreHandled, AnsweredUnlessKilled, Busy

\* Nobody waits before main serves, nor after it, unless a timer ended.
LEMMA NobodyWaits ==
  ASSUME RunInv, ~ Waited
  PROVE  \A r \in Requests : client[r] # "waiting"
  BY DEF RunInv, WaitingAreHandled

-----------------------------------------------------------------------------
LEMMA MainKeepsInv == RunInv /\ Main => RunInv'
<1> SUFFICES ASSUME RunInv, Main PROVE RunInv'
  OBVIOUS
<1> USE DEF envVars, mainVars, workVars, eventVars, countVars
<1>types. RunTypes /\ ServesInPhase
  BY DEF RunInv
<1>1. CASE FailStep
  <2>1. phase = "starting" /\ Exit("lost")
    BY <1>1 DEF FailStep
  <2>2. ~ Waited
    BY <2>1 DEF Waited
  <2> QED
    BY <2>1, <2>2, NobodyWaits, ExitKeepsInv
<1>2. CASE TakeStep
  <2>1. UNCHANGED <<phase, server, timedOut, handler, client>>
    BY <1>2 DEF TakeStep
  <2> QED
    BY <1>types, <2>1, QuietKeepsInv DEF RunTypes, ServesInPhase, Waited
<1>3. CASE Serve
  <2>1. /\ phase' = "serving"
        /\ UNCHANGED <<timedOut, handler, client>>
    BY <1>3 DEF Serve
  <2> QED
    BY <1>types, <2>1, QuietKeepsInv DEF RunTypes, ServesInPhase, Waited
<1>4. CASE BeginDrain
  <2>1. /\ phase' = "draining" /\ server' = "draining"
        /\ UNCHANGED <<timedOut, handler, client>>
    BY <1>4 DEF BeginDrain
  <2> QED
    BY <1>types, <2>1, QuietKeepsInv DEF RunTypes, ServesInPhase, Waited
<1>5. CASE EndDrain
  <2>1. phase' = "waiting" /\ server' = "stopped" /\ UNCHANGED handler
    BY <1>5 DEF EndDrain
  <2>2. CASE Busy = {} /\ UNCHANGED <<timedOut, client>>
    <3>1. \A r \in Requests : client[r] # "waiting"
      BY <2>2 DEF RunInv, WaitingAreHandled
    <3> QED
      BY <1>types, <2>1, <2>2, <3>1, QuietKeepsInv DEF RunTypes, ServesInPhase
  <2>3. CASE /\ timedOut' = TRUE
             /\ client' = [r \in Requests |->
                  IF client[r] = "waiting" /\ service # "api" THEN "forced" ELSE client[r]]
    <3>1. RunTypes' /\ ServesInPhase'
      BY <1>types, <2>1, <2>3 DEF RunTypes, ServesInPhase
    <3>2. \A r \in Requests : client'[r] = client[r] \/ client'[r] = "forced"
      BY <2>3
    <3> QED
      BY <2>1, <2>3, <3>1, <3>2
      DEF RunInv, WaitingAreHandled, Waited, Busy, AnsweredUnlessKilled
  <2> QED
    BY <1>5, <2>2, <2>3 DEF EndDrain
<1>6. CASE WaitForWorker
  <2>1. /\ phase = "waiting" /\ timedOut' \in {timedOut, TRUE}
        /\ UNCHANGED <<phase, server, handler, client>>
    BY <1>6 DEF WaitForWorker
  <2> QED
    BY <1>types, <2>1, QuietKeepsInv DEF RunTypes, ServesInPhase, Waited
<1>7. CASE EndWaits
  <2>1. CASE failed
    <3>1. phase = "waiting" /\ Exit("lost")
      BY <1>7, <2>1 DEF EndWaits
    <3>2. timedOut \/ ~ Waited
      BY <3>1 DEF Waited
    <3> QED
      BY <3>1, <3>2, NobodyWaits, ExitKeepsInv
  <2>2. CASE ~ failed
    <3>1. /\ phase = "waiting" /\ phase' = "closing"
          /\ UNCHANGED <<server, timedOut, handler, client>>
      BY <1>7, <2>2 DEF EndWaits
    <3> QED
      BY <1>types, <3>1, QuietKeepsInv DEF RunTypes, ServesInPhase, Waited
  <2> QED
    BY <2>1, <2>2
<1>8. CASE CloseLast
  <2>1. UNCHANGED <<phase, server, timedOut, handler, client>>
    BY <1>8 DEF CloseLast
  <2> QED
    BY <1>types, <2>1, QuietKeepsInv DEF RunTypes, ServesInPhase, Waited
<1>9. CASE Return
  <2>1. phase = "closing" /\ Exit("lost")
    BY <1>9 DEF Return
  <2>2. timedOut \/ ~ Waited
    BY <2>1 DEF Waited
  <2> QED
    BY <2>1, <2>2, NobodyWaits, ExitKeepsInv
<1> QED
  BY <1>1, <1>2, <1>3, <1>4, <1>5, <1>6, <1>7, <1>8, <1>9 DEF Main

\* The signals and what ends the process from outside.
LEMMA EndsKeepInv == RunInv /\ (Start \/ Signal \/ Kill \/ ServeFails) => RunInv'
<1> SUFFICES ASSUME RunInv, Start \/ Signal \/ Kill \/ ServeFails PROVE RunInv'
  OBVIOUS
<1> USE DEF envVars, mainVars, workVars, eventVars, countVars
<1>types. RunTypes /\ ServesInPhase
  BY DEF RunInv
<1>1. CASE Start
  <2>1. /\ phase = "down" /\ phase' = "starting"
        /\ UNCHANGED <<server, timedOut, handler, client>>
    BY <1>1 DEF Start
  <2> QED
    BY <1>types, <2>1, QuietKeepsInv DEF RunTypes, ServesInPhase, Waited
<1>2. CASE Signal
  <2>1. \/ Exit("killed")
        \/ UNCHANGED <<phase, server, timedOut, handler, client>>
    BY <1>2 DEF Signal
  <2> QED
    BY <1>types, <2>1, ExitKeepsInv, QuietKeepsInv DEF RunTypes, ServesInPhase, Waited
<1>3. CASE Kill
  BY <1>3, ExitKeepsInv DEF Kill
<1>4. CASE ServeFails
  <2>1. \/ Exit("fatal")
        \/ /\ phase' = "draining" /\ server' = "draining"
           /\ UNCHANGED <<timedOut, handler, client>>
    BY <1>4 DEF ServeFails
  <2> QED
    BY <1>types, <2>1, ExitKeepsInv, QuietKeepsInv DEF RunTypes, ServesInPhase, Waited
<1> QED
  BY <1>1, <1>2, <1>3, <1>4

-----------------------------------------------------------------------------
\* A request comes, is handled and answered.
LEMMA RequestKeepsInv ==
  ASSUME RunInv, NEW r \in Requests, Accept(r) \/ Handle(r)
  PROVE  RunInv'
<1> USE DEF envVars, mainVars, workVars, eventVars, countVars
<1>types. RunTypes /\ ServesInPhase
  BY DEF RunInv
<1>1. /\ UNCHANGED <<phase, server, timedOut>>
      /\ handler \in [Requests -> {"none", "running", "holding", "committed", "done"}]
      /\ client \in [Requests -> {"none", "waiting", "answered", "forced", "killed", "fatal",
                                "lost"}]
  BY <1>types DEF RunTypes, Accept, Handle, Acquire, CommitTx, Answer, AnswerError, Handler
<1>2. CASE Accept(r)
  <2>1. /\ handler' = [handler EXCEPT ![r] = "running"]
        /\ client' = [client EXCEPT ![r] = "waiting"]
        /\ server = "serving"
    BY <1>2 DEF Accept, Handler
  <2>2. phase = "serving"
    BY <1>types, <2>1 DEF ServesInPhase
  <2> QED
    BY <1>types, <1>1, <2>1, <2>2
    DEF RunInv, RunTypes, ServesInPhase, WaitingAreHandled, Waited, Busy, AnsweredUnlessKilled
<1>3. CASE Acquire(r) \/ CommitTx(r)
  <2>1. PICK to \in {"holding", "committed"} : handler' = [handler EXCEPT ![r] = to]
    BY <1>3 DEF Acquire, CommitTx, Handler
  <2>2. UNCHANGED client
    BY <1>3 DEF Acquire, CommitTx
  <2> QED
    BY <1>types, <1>1, <2>1, <2>2
    DEF RunInv, RunTypes, ServesInPhase, WaitingAreHandled, Waited, Busy, AnsweredUnlessKilled
<1>4. CASE Answer(r) \/ AnswerError(r)
  <2>1. handler' = [handler EXCEPT ![r] = "done"]
    BY <1>4 DEF Answer, AnswerError, Handler
  <2>2. client' = [client EXCEPT ![r] = IF client[r] = "waiting" THEN "answered" ELSE client[r]]
    BY <1>4 DEF Answer, AnswerError, Answered
  <2> QED
    BY <1>types, <1>1, <2>1, <2>2
    DEF RunInv, RunTypes, ServesInPhase, WaitingAreHandled, Waited, Busy, AnsweredUnlessKilled
<1> QED
  BY <1>2, <1>3, <1>4 DEF Handle

\* The relay and the consumer leave the requests alone.
LEMMA WorkerKeepsInv == RunInv /\ (Relay \/ Consumer) => RunInv'
<1> SUFFICES ASSUME RunInv, Relay \/ Consumer PROVE RunInv'
  OBVIOUS
<1>1. UNCHANGED <<phase, server, timedOut, handler, client>>
  BY DEF Relay, Consumer, ListUnpublished, Publish, MarkPublished, RelayFails, RelayEnds, Fetch,
         HandleMessage, ConsumerEnds, Worker, mainVars
<1>2. RunTypes /\ ServesInPhase
  BY DEF RunInv
<1> QED
  BY <1>1, <1>2, QuietKeepsInv DEF RunTypes, ServesInPhase, Waited

LEMMA RunInvStep == RunInv /\ [Next]_vars => RunInv'
<1> SUFFICES ASSUME RunInv, [Next]_vars PROVE RunInv'
  OBVIOUS
<1>1. CASE UNCHANGED vars
  <2>1. UNCHANGED <<phase, server, timedOut, handler, client>>
    BY <1>1 DEF vars, mainVars, workVars
  <2> QED
    BY <2>1, QuietKeepsInv DEF RunInv, RunTypes, ServesInPhase, Waited
<1>2. CASE Next
  BY <1>2, MainKeepsInv, EndsKeepInv, RequestKeepsInv, WorkerKeepsInv DEF Next
<1> QED
  BY <1>1, <1>2

\* The inductive invariant: who waits is handled, and main has not come past the
\* drain without its timer.
THEOREM RunInvCorrect == Spec => []RunInv
  BY RunInvInit, RunInvStep, PTL DEF Spec

\* No way out of any main leaves a request without an answer, but a kill, the end
\* of the graceful stop's timer, and the gateway's Fatal.
THEOREM AnsweredCorrect == Spec => []AnsweredUnlessKilled
<1>1. RunInv => AnsweredUnlessKilled
  BY DEF RunInv
<1> QED
  BY <1>1, RunInvCorrect, PTL
-----------------------------------------------------------------------------
\* What main opened, and who uses it.

Name(i) == Startup[service][i]
Steps == 1 .. Len(Startup[service])

\* The steps of the start that main has taken.
Past(i) == phase \notin {"down", "starting"} \/ i < step

OpenTypes ==
  /\ service \in Service
  /\ step \in Nat \ {0}
  /\ open \in Seq({"pool", "userConn", "pollConn", "cache", "publisher"})
  /\ worker \in [{"relay", "consumer"} ->
                   {"none", "idle", "publishing", "marking", "handling", "ended"}]

\* Until main closes, what it opened is open; only the cache may be missing.
Opened ==
  phase # "closing" =>
    \A i \in Steps :
      Past(i) /\ Opens(Name(i)) /\ Name(i) # "cache" => IsOpen(Name(i))

\* A worker runs from its own step on, requests once main serves.
Started ==
  /\ \A w \in Workers : worker[w] # "none" => \E i \in Steps : Name(i) = w /\ Past(i)
  /\ phase \in {"down", "starting"} => Busy = {}

\* If no timer ended, nothing runs any more when main has waited for it.
Drained ==
  ~ timedOut =>
    /\ phase \in {"waiting", "closing"} => Busy = {}
    /\ phase = "waiting" =>
         \A w \in Workers, j \in 1 .. Len(Waits) :
           j < step /\ Waits[j] = w => worker[w] = "ended"
    /\ phase = "closing" => \A w \in Workers : worker[w] = "ended"

OpenInv ==
  /\ OpenTypes
  /\ Opened
  /\ Started
  /\ Drained
  /\ Holders # {} => IsOpen("pool")

\* In every main the pool is opened before a worker is started, the publisher
\* before the relay, and what is waited for in the end are all the workers.
LEMMA StartOrder ==
  ASSUME service \in Service, NEW i \in Steps
  PROVE  /\ Name(i) \in {"relay", "consumer"} => \E j \in Steps : j < i /\ Name(j) = "pool"
         /\ Name(i) = "relay" => \E j \in Steps : j < i /\ Name(j) = "publisher"
<1> USE DEF Name, Steps, Startup
<1>1. CASE service = "user"
  BY <1>1 DEF StartUser
<1>2. CASE service = "vote"
  <2>1. Name(3) = "pool" /\ Name(6) = "publisher" /\ 3 \in Steps /\ 6 \in Steps
    BY <1>2 DEF StartVote
  <2>2. i \in 1 .. 8
    BY <1>2 DEF StartVote
  <2>3. Name(i) \in {"relay", "consumer"} => i = 7
    BY <1>2, <2>2 DEF StartVote
  <2> QED
    BY <2>1, <2>3
<1>3. CASE service = "poll"
  <2>1. Name(3) = "pool" /\ Name(6) = "publisher" /\ 3 \in Steps /\ 6 \in Steps
    BY <1>3 DEF StartPoll
  <2>2. i \in 1 .. 10
    BY <1>3 DEF StartPoll
  <2>3. Name(i) \in {"relay", "consumer"} => i \in {8, 9}
    BY <1>3, <2>2 DEF StartPoll
  <2> QED
    BY <2>1, <2>3
<1>4. CASE service = "feed"
  <2>1. Name(3) = "pool" /\ 3 \in Steps
    BY <1>4 DEF StartFeed
  <2>2. i \in 1 .. 8
    BY <1>4 DEF StartFeed
  <2>3. /\ Name(i) \in {"relay", "consumer"} => i = 7
        /\ Name(i) # "relay"
    BY <1>4, <2>2 DEF StartFeed
  <2> QED
    BY <2>1, <2>3
<1>5. CASE service = "analytics"
  <2>1. Name(3) = "pool" /\ 3 \in Steps
    BY <1>5 DEF StartAnalytics
  <2>2. i \in 1 .. 7
    BY <1>5 DEF StartAnalytics
  <2>3. /\ Name(i) \in {"relay", "consumer"} => i = 6
        /\ Name(i) # "relay"
    BY <1>5, <2>2 DEF StartAnalytics
  <2> QED
    BY <2>1, <2>3
<1>6. CASE service = "api"
  BY <1>6 DEF StartApi
<1> QED
  BY <1>1, <1>2, <1>3, <1>4, <1>5, <1>6 DEF Service

\* A worker is a step of the start.
LEMMA WorkerSteps ==
  ASSUME service \in Service
  PROVE  /\ \A w \in Workers : w \in {"relay", "consumer"} /\ \E i \in Steps : Name(i) = w
         /\ \A name : Has(name) <=> \E i \in Steps : Name(i) = name
<1>1. DOMAIN Startup[service] = Steps
  BY DEF Steps, Startup, Service, StartUser, StartVote, StartPoll, StartFeed,
         StartAnalytics, StartApi
<1> QED
  BY <1>1 DEF Workers, Has, ToSet, Name, Steps

LEMMA AllAreWaitedFor ==
  ASSUME service \in Service, NEW w \in Workers
  PROVE  \E j \in 1 .. Len(Waits) : Waits[j] = w
<1>1. PICK i \in Steps : Name(i) = w
  BY WorkerSteps
<1>2. w \in {"relay", "consumer"}
  BY WorkerSteps
<1> USE <1>1, <1>2 DEF Name, Steps, Startup
<1>3. CASE service = "user"
  BY <1>3 DEF StartUser
<1>4. CASE service = "vote"
  <2>1. Waits = <<"relay">>
    BY <1>4 DEF Waits, WaitsVote
  <2>2. w = "relay"
    BY <1>4 DEF StartVote
  <2> QED
    BY <2>1, <2>2
<1>5. CASE service = "poll"
  <2>1. Waits = <<"relay", "consumer">>
    BY <1>5 DEF Waits, WaitsPoll
  <2>2. 1 \in 1 .. Len(Waits) /\ 2 \in 1 .. Len(Waits)
    BY <2>1
  <2> QED
    BY <2>1, <2>2
<1>6. CASE service = "feed"
  <2>1. Waits = <<"consumer">>
    BY <1>6 DEF Waits, WaitsFeed
  <2>2. w = "consumer"
    BY <1>6 DEF StartFeed
  <2> QED
    BY <2>1, <2>2
<1>7. CASE service = "analytics"
  <2>1. Waits = <<"consumer">>
    BY <1>7 DEF Waits, WaitsAnalytics
  <2>2. w = "consumer"
    BY <1>7 DEF StartAnalytics
  <2> QED
    BY <2>1, <2>2
<1>8. CASE service = "api"
  BY <1>8 DEF StartApi
<1> QED
  BY <1>3, <1>4, <1>5, <1>6, <1>7, <1>8 DEF Service

\* What the property says, the invariant implies.
LEMMA OpenIsUsed ==
  ASSUME RunAssumption, OpenInv
  PROVE  UsedWhileOpen
<1>1. service \in Service
  BY DEF OpenInv, OpenTypes
<1>2. ASSUME Has("pool"), ~ timedOut, NEW u \in Active
      PROVE  Needs(u) \subseteq ToSet(open)
  <2>1. PICK p \in Steps : Name(p) = "pool"
    BY <1>1, <1>2, WorkerSteps
  <2>2. phase # "closing"
    BY <1>2 DEF Active, OpenInv, Drained
  <2>3. \A i \in Steps : Past(i) /\ Name(i) = "pool" => "pool" \in ToSet(open)
    BY <2>2 DEF OpenInv, Opened, Opens, IsOpen
  <2>4. CASE u \in Busy
    <3>1. phase \notin {"down", "starting"}
      BY <2>4 DEF OpenInv, Started
    <3>2. u # "relay"
      BY <2>4 DEF Busy, RunAssumption
    <3> QED
      BY <2>1, <2>3, <3>1, <3>2 DEF Past, Needs
  <2>5. CASE u \in Workers /\ worker[u] # "none"
    <3>1. PICK i \in Steps : Name(i) = u /\ Past(i)
      BY <2>5 DEF OpenInv, Started
    <3>2. step \in Int /\ \A j \in Steps : j \in Int /\ (j < i => Past(j))
      BY <3>1 DEF Past, Steps, OpenInv, OpenTypes
    <3>3. u \in {"relay", "consumer"}
      BY <1>1, <2>5, WorkerSteps
    <3>4. "pool" \in ToSet(open)
      BY <1>1, <2>3, <3>1, <3>2, <3>3, StartOrder
    <3>5. u = "relay" /\ Kafka(env) => "publisher" \in ToSet(open)
      <4> SUFFICES ASSUME u = "relay", Kafka(env) PROVE "publisher" \in ToSet(open)
        OBVIOUS
      <4>1. PICK j \in Steps : j < i /\ Name(j) = "publisher"
        BY <1>1, <3>1, StartOrder
      <4>2. Past(j) /\ Opens(Name(j)) /\ Name(j) # "cache"
        BY <3>2, <4>1 DEF Opens
      <4> QED
        BY <2>2, <4>1, <4>2 DEF OpenInv, Opened, IsOpen
    <3> QED
      BY <3>4, <3>5 DEF Needs
  <2> QED
    BY <2>4, <2>5 DEF Active
<1> QED
  BY <1>2 DEF UsedWhileOpen, OpenInv

\* One more at the end of what is open, and one less.
LEMMA OpenSets ==
  ASSUME NEW S, NEW q \in Seq(S)
  PROVE  /\ \A x \in S : Append(q, x) \in Seq(S) /\ ToSet(Append(q, x)) = ToSet(q) \cup {x}
         /\ q # <<>> => /\ Front(q) \in Seq(S)
                        /\ ToSet(q) \subseteq ToSet(Front(q)) \cup {Last(q)}
<1>1. Len(q) \in Nat /\ DOMAIN q = 1 .. Len(q)
  BY LenProperties
<1>2. ASSUME NEW x \in S
      PROVE  Append(q, x) \in Seq(S) /\ ToSet(Append(q, x)) = ToSet(q) \cup {x}
  <2>1. /\ Append(q, x) \in Seq(S)
        /\ DOMAIN Append(q, x) = 1 .. Len(q) + 1
        /\ \A i \in 1 .. Len(q) : Append(q, x)[i] = q[i]
        /\ Append(q, x)[Len(q) + 1] = x
    BY AppendProperties, LenProperties
  <2>2. ToSet(Append(q, x)) = {Append(q, x)[i] : i \in 1 .. Len(q) + 1}
    BY <2>1 DEF ToSet
  <2>3. ToSet(q) = {q[i] : i \in 1 .. Len(q)}
    BY <1>1 DEF ToSet
  <2>4. \A i \in 1 .. Len(q) + 1 : i = Len(q) + 1 \/ i \in 1 .. Len(q)
    BY <1>1
  <2>5. Len(q) + 1 \in 1 .. Len(q) + 1 /\ 1 .. Len(q) \subseteq 1 .. Len(q) + 1
    BY <1>1
  <2>6. ToSet(Append(q, x)) \subseteq ToSet(q) \cup {x}
    BY <2>1, <2>2, <2>3, <2>4
  <2>7. ToSet(q) \cup {x} \subseteq ToSet(Append(q, x))
    BY <2>1, <2>2, <2>3, <2>5
  <2> QED
    BY <2>1, <2>6, <2>7
<1>3. ASSUME q # <<>>
      PROVE  Front(q) \in Seq(S) /\ ToSet(q) \subseteq ToSet(Front(q)) \cup {Last(q)}
  <2>1. Len(q) - 1 \in Nat
    BY <1>1, <1>3, EmptySeq
  <2>2. /\ Front(q) \in Seq(S)
        /\ Len(Front(q)) = Len(q) - 1
        /\ \A i \in 1 .. Len(q) - 1 : Front(q)[i] = q[i]
    BY <1>1, <2>1, SubSeqProperties DEF Front
  <2>3. DOMAIN Front(q) = 1 .. Len(q) - 1
    BY <2>2, LenProperties
  <2>4. \A i \in 1 .. Len(q) : i = Len(q) \/ i \in 1 .. Len(q) - 1
    <3>1. \A n \in Nat : \A i \in 1 .. n : i = n \/ i \in 1 .. n - 1
      OBVIOUS
    <3> QED
      BY <1>1, <3>1, Zenon
  <2>5. ToSet(q) = {q[i] : i \in 1 .. Len(q)}
    BY <1>1 DEF ToSet
  <2>6. ToSet(Front(q)) = {Front(q)[i] : i \in 1 .. Len(q) - 1}
    BY <2>3 DEF ToSet
  <2>7. ASSUME NEW i \in 1 .. Len(q)
        PROVE  q[i] \in ToSet(Front(q)) \cup {Last(q)}
    <3>1. CASE i = Len(q)
      BY <3>1 DEF Last
    <3>2. CASE i \in 1 .. Len(q) - 1
      BY <2>2, <2>6, <3>2
    <3> QED
      BY <2>4, <3>1, <3>2
  <2> QED
    BY <2>2, <2>5, <2>7
<1> QED
  BY <1>2, <1>3
-----------------------------------------------------------------------------
\* Nothing that belongs to the process is left when it is gone.
LEMMA ExitKeepsOpen ==
  ASSUME OpenInv, NEW cause, Exit(cause)
  PROVE  OpenInv'
<1> USE DEF envVars
<1>1. OpenTypes'
  BY EmptySeq DEF OpenInv, OpenTypes, Exit, NoWorkers
<1>2. Opened' /\ Started'
  BY DEF OpenInv, OpenTypes, Opened, Started, Exit, Past, Steps, Busy, NoWorkers, Workers
<1>3. Drained'
  BY DEF Drained, Exit
<1>4. Holders' = {}
  BY DEF Holders, Exit, NoWorkers, Workers
<1> QED
  BY <1>1, <1>2, <1>3, <1>4 DEF OpenInv

\* A step of a request or of a worker: no worker begins or comes back, and no
\* request does, unless main serves; and who takes a connection finds the pool.
LEMMA WorkKeepsOpen ==
  ASSUME OpenInv, UNCHANGED <<service, env, phase, step, open, timedOut>>,
         worker' \in [{"relay", "consumer"} ->
                   {"none", "idle", "publishing", "marking", "handling", "ended"}],
         \A w \in Workers : /\ worker[w] = "none" => worker'[w] = "none"
                            /\ worker[w] = "ended" => worker'[w] = "ended",
         Busy' # {} => Busy # {} \/ phase = "serving",
         Holders' # {} => Holders # {} \/ IsOpen("pool")
  PROVE  OpenInv'
<1>1. OpenTypes'
  BY DEF OpenInv, OpenTypes
<1>2. Opened'
  BY DEF OpenInv, Opened, Past, Steps, Name, Opens, Kafka, IsOpen
<1>3. Started'
  BY DEF OpenInv, Started, Past, Steps, Name, Workers
<1>4. Drained'
  BY DEF OpenInv, Drained, Waits, Workers
<1>5. (Holders # {} => IsOpen("pool"))'
  BY DEF OpenInv, IsOpen
<1> QED
  BY <1>1, <1>2, <1>3, <1>4, <1>5 DEF OpenInv

\* A step of main that opens and closes nothing, and starts nobody.
LEMMA PhaseKeepsOpen ==
  ASSUME OpenInv, UNCHANGED <<service, env, open, worker, handler>>,
         step' \in Nat \ {0},
         Opened', Drained',
         \A i \in Steps : Past(i) => Past(i)',
         phase' \in {"down", "starting"} => phase \in {"down", "starting"}
  PROVE  OpenInv'
<1>1. OpenTypes'
  BY DEF OpenInv, OpenTypes
<1>2. Started'
  BY DEF OpenInv, Started, Past, Steps, Name, Workers, Busy
<1>3. (Holders # {} => IsOpen("pool"))'
  BY DEF OpenInv, IsOpen, Holders, Workers
<1> QED
  BY <1>1, <1>2, <1>3 DEF OpenInv

-----------------------------------------------------------------------------
LEMMA TakeStepOpens == OpenInv /\ TakeStep => OpenInv'
<1> SUFFICES ASSUME OpenInv, TakeStep PROVE OpenInv'
  OBVIOUS
<1> USE DEF envVars
<1> DEFINE S == {"pool", "userConn", "pollConn", "cache", "publisher"}
           name == Name(step)
<1>1. /\ UNCHANGED <<service, env, phase, timedOut, handler>>
      /\ phase = "starting" /\ step' = step + 1
      /\ step \in Nat /\ step <= Len(Startup[service])
      /\ open \in Seq(S) /\ service \in Service
  BY DEF TakeStep, OpenInv, OpenTypes
<1>2. /\ \/ open' = IF Opens(name) THEN Append(open, name) ELSE open
         \/ name = "cache" /\ UNCHANGED open
      /\ worker' = IF name \in Workers THEN [worker EXCEPT ![name] = "idle"] ELSE worker
  BY DEF TakeStep, Name
<1>3. Opens(name) => name \in S
  BY DEF Opens
<1>4. /\ open' \in Seq(S)
      /\ ToSet(open) \subseteq ToSet(open')
      /\ Opens(name) /\ name # "cache" => name \in ToSet(open')
  <2>1. CASE open' = Append(open, name) /\ Opens(name)
    <3>1. name \in S /\ open \in Seq(S)
      BY <1>1, <1>3, <2>1
    <3> HIDE DEF S, name
    <3>2. Append(open, name) \in Seq(S) /\ ToSet(Append(open, name)) = ToSet(open) \cup {name}
      BY <3>1, OpenSets
    <3> QED
      BY <2>1, <3>2
  <2>2. CASE open' = open /\ (~ Opens(name) \/ name = "cache")
    BY <1>1, <2>2
  <2> QED
    BY <1>2, <2>1, <2>2
<1>5. OpenTypes'
  <2>1. service' \in Service /\ step' \in Nat \ {0}
    BY <1>1
  <2>2. worker' \in [{"relay", "consumer"} ->
                       {"none", "idle", "publishing", "marking", "handling", "ended"}]
    <3> HIDE DEF name
    <3> QED
      BY <1>2 DEF OpenInv, OpenTypes
  <2> QED
    BY <1>4, <2>1, <2>2 DEF OpenTypes
<1>6. \A i \in Steps : Past(i)' <=> Past(i) \/ i = step
  BY <1>1 DEF Past, Steps
<1>7. Opened'
  <2> SUFFICES ASSUME NEW i \in Steps, Past(i)', Opens(Name(i)), Name(i) # "cache"
               PROVE  Name(i) \in ToSet(open')
    BY <1>1 DEF Opened, Steps, Name, Opens, Kafka, IsOpen
  <2>1. CASE i = step
    BY <1>4, <2>1
  <2>2. CASE Past(i)
    BY <1>1, <1>4, <2>2 DEF OpenInv, Opened, IsOpen
  <2> QED
    BY <1>6, <2>1, <2>2
<1>8. Started'
  <2>1. Busy' = {}
    BY <1>1 DEF OpenInv, Started, Busy
  <2>2. ASSUME NEW w \in Workers, worker'[w] # "none"
        PROVE  \E i \in Steps : Name(i) = w /\ Past(i)'
    <3>1. CASE w = name
      <4>1. step \in Steps
        BY <1>1, <1>5 DEF Steps, OpenInv, OpenTypes
      <4> QED
        BY <1>6, <3>1, <4>1
    <3>2. CASE w # name
      <4>1. w \in {"relay", "consumer"}
        BY <1>1, WorkerSteps
      <4>2. worker'[w] = worker[w]
        BY <1>2, <3>2, <4>1 DEF OpenInv, OpenTypes
      <4> QED
        BY <1>6, <2>2, <4>2 DEF OpenInv, Started
    <3> QED
      BY <3>1, <3>2
  <2> QED
    BY <1>1, <2>1, <2>2 DEF Started, Workers, Steps, Name
<1>9. Drained'
  BY <1>1 DEF Drained
<1>10. (Holders # {} => IsOpen("pool"))'
  <2>1. \A w \in Workers : worker'[w] = "handling" => worker[w] = "handling"
    BY <1>1, <1>2, WorkerSteps DEF OpenInv, OpenTypes
  <2>2. Holders' \subseteq Holders
    BY <1>1, <2>1 DEF Holders, Workers
  <2> QED
    BY <1>4, <2>2 DEF OpenInv, IsOpen
<1> QED
  BY <1>5, <1>7, <1>8, <1>9, <1>10 DEF OpenInv

LEMMA MainKeepsOpen == OpenInv /\ Main => OpenInv'
<1> SUFFICES ASSUME OpenInv, Main PROVE OpenInv'
  OBVIOUS
<1> USE DEF envVars, workVars
<1>0. OpenTypes /\ step \in Nat \ {0} /\ service \in Service
  BY DEF OpenInv, OpenTypes
<1>1. CASE FailStep
  BY <1>1, ExitKeepsOpen DEF FailStep
<1>2. CASE TakeStep
  BY <1>2, TakeStepOpens
<1>3. CASE Serve
  <2>1. /\ phase = "starting" /\ step = Len(Startup[service]) + 1
        /\ phase' = "serving"
        /\ UNCHANGED <<service, env, step, open, worker, handler>>
    BY <1>3 DEF Serve
  <2>2. \A i \in Steps : Past(i) /\ Past(i)'
    BY <1>0, <2>1 DEF Past, Steps
  <2>3. Opened'
    BY <2>1, <2>2 DEF OpenInv, Opened, Steps, Name, Opens, Kafka, IsOpen
  <2>4. Drained'
    BY <2>1 DEF Drained
  <2> QED
    BY <1>0, <2>1, <2>2, <2>3, <2>4, PhaseKeepsOpen
<1>4. CASE BeginDrain
  <2>1. /\ phase = "serving" /\ phase' = "draining"
        /\ UNCHANGED <<service, env, step, open, worker, handler>>
    BY <1>4 DEF BeginDrain
  <2>2. Opened' /\ Drained' /\ \A i \in Steps : Past(i)'
    BY <2>1 DEF OpenInv, Opened, Steps, Name, Opens, Kafka, IsOpen, Past, Drained
  <2> QED
    BY <1>0, <2>1, <2>2, PhaseKeepsOpen
<1>5. CASE EndDrain
  <2>1. /\ phase = "draining" /\ phase' = "waiting" /\ step' = 1
        /\ timedOut' \/ Busy = {}
        /\ UNCHANGED <<service, env, open, worker, handler>>
    BY <1>5 DEF EndDrain
  <2>2. Opened' /\ \A i \in Steps : Past(i)'
    BY <2>1 DEF OpenInv, Opened, Steps, Name, Opens, Kafka, IsOpen, Past
  <2>3. Drained'
    BY <2>1 DEF Drained, Busy
  <2> QED
    BY <1>0, <2>1, <2>2, <2>3, PhaseKeepsOpen
<1>6. CASE WaitForWorker
  <2>1. /\ phase = "waiting" /\ phase' = "waiting"
        /\ step <= Len(Waits) /\ step' = step + 1
        /\ timedOut' \/ (worker[Waits[step]] = "ended" /\ ~ timedOut) \/ timedOut
        /\ timedOut => timedOut'
        /\ UNCHANGED <<service, env, open, worker, handler>>
    BY <1>6 DEF WaitForWorker
  <2>2. Opened' /\ \A i \in Steps : Past(i)'
    BY <2>1 DEF OpenInv, Opened, Steps, Name, Opens, Kafka, IsOpen, Past
  <2>3. Drained'
    <3> SUFFICES ASSUME ~ timedOut'
                 PROVE  /\ Busy = {}
                        /\ \A w \in Workers, j \in 1 .. Len(Waits) :
                             j < step + 1 /\ Waits[j] = w => worker[w] = "ended"
      BY <2>1 DEF Drained, Busy, Workers, Waits
    <3>1. ~ timedOut /\ worker[Waits[step]] = "ended"
      BY <2>1
    <3>2. \A j \in 1 .. Len(Waits) : j < step + 1 => j < step \/ j = step
      BY <1>0
    <3> QED
      BY <2>1, <3>1, <3>2 DEF OpenInv, Drained
  <2> QED
    BY <1>0, <2>1, <2>2, <2>3, PhaseKeepsOpen
<1>7. CASE EndWaits
  <2>1. CASE failed
    BY <1>7, <2>1, ExitKeepsOpen DEF EndWaits
  <2>2. CASE ~ failed
    <3>1. /\ phase = "waiting" /\ step > Len(Waits) /\ phase' = "closing"
          /\ UNCHANGED <<service, env, step, open, timedOut, worker, handler>>
      BY <1>7, <2>2 DEF EndWaits
    <3>2. Opened' /\ \A i \in Steps : Past(i)'
      BY <3>1 DEF Opened, Past
    <3>3. Drained'
      <4> SUFFICES ASSUME ~ timedOut
                   PROVE  Busy = {} /\ \A w \in Workers : worker[w] = "ended"
        BY <3>1 DEF Drained, Busy, Workers
      <4>1. ASSUME NEW w \in Workers PROVE worker[w] = "ended"
        <5>1. PICK j \in 1 .. Len(Waits) : Waits[j] = w
          BY <1>0, AllAreWaitedFor
        <5>2. j < step
          BY <1>0, <3>1, <5>1
        <5> QED
          BY <3>1, <5>1, <5>2 DEF OpenInv, Drained
      <4> QED
        BY <3>1, <4>1 DEF OpenInv, Drained
    <3> QED
      BY <1>0, <3>1, <3>2, <3>3, PhaseKeepsOpen
  <2> QED
    BY <2>1, <2>2
<1>8. CASE CloseLast
  <2> DEFINE S == {"pool", "userConn", "pollConn", "cache", "publisher"}
  <2>1. /\ phase = "closing" /\ open # <<>> /\ open \in Seq(S)
        /\ Last(open) = "pool" => Holders = {}
        /\ open' = Front(open)
        /\ UNCHANGED <<service, env, phase, step, timedOut, worker, handler>>
    BY <1>0, <1>8 DEF CloseLast, OpenTypes
  <2>2. open' \in Seq(S) /\ ToSet(open) \subseteq ToSet(open') \cup {Last(open)}
    BY <2>1, OpenSets
  <2>3. OpenTypes' /\ Opened' /\ Started' /\ Drained'
    BY <1>0, <2>1, <2>2
    DEF OpenInv, OpenTypes, Opened, Started, Drained, Past, Steps, Name, Workers, Busy
  <2>4. (Holders # {} => IsOpen("pool"))'
    BY <2>1, <2>2 DEF OpenInv, IsOpen, Holders, Workers
  <2> QED
    BY <2>3, <2>4 DEF OpenInv
<1>9. CASE Return
  BY <1>9, ExitKeepsOpen DEF Return
<1> QED
  BY <1>1, <1>2, <1>3, <1>4, <1>5, <1>6, <1>7, <1>8, <1>9 DEF Main

LEMMA EndsKeepOpen == OpenInv /\ (Start \/ Signal \/ Kill \/ ServeFails) => OpenInv'
<1> SUFFICES ASSUME OpenInv, Start \/ Signal \/ Kill \/ ServeFails PROVE OpenInv'
  OBVIOUS
<1> USE DEF envVars, workVars
<1>0. OpenTypes /\ step \in Nat \ {0}
  BY DEF OpenInv, OpenTypes
<1>1. CASE Start
  <2>1. /\ phase = "down" /\ phase' = "starting"
        /\ UNCHANGED <<service, env, step, open, worker, handler>>
    BY <1>1 DEF Start
  <2>2. Opened' /\ Drained' /\ \A i \in Steps : Past(i) => Past(i)'
    BY <2>1 DEF OpenInv, Opened, Steps, Name, Opens, Kafka, IsOpen, Past, Drained
  <2> QED
    BY <1>0, <2>1, <2>2, PhaseKeepsOpen
<1>2. CASE Signal
  <2>1. CASE Exit("killed")
    BY <2>1, ExitKeepsOpen
  <2>2. CASE UNCHANGED <<envVars, phase, step, open, timedOut, workVars>>
    <3>1. Opened' /\ Drained' /\ \A i \in Steps : Past(i) => Past(i)'
      BY <2>2 DEF OpenInv, Opened, Steps, Name, Opens, Kafka, IsOpen, Past, Drained,
                  Workers, Busy, Waits
    <3> QED
      BY <1>0, <2>2, <3>1, PhaseKeepsOpen
  <2> QED
    BY <1>2, <2>1, <2>2 DEF Signal
<1>3. CASE Kill
  BY <1>3, ExitKeepsOpen DEF Kill
<1>4. CASE ServeFails
  <2>1. CASE Exit("fatal")
    BY <2>1, ExitKeepsOpen
  <2>2. CASE /\ phase = "serving" /\ phase' = "draining"
             /\ UNCHANGED <<envVars, step, open, timedOut, workVars>>
    <3>1. Opened' /\ Drained' /\ \A i \in Steps : Past(i)'
      BY <2>2 DEF OpenInv, Opened, Steps, Name, Opens, Kafka, IsOpen, Past, Drained
    <3> QED
      BY <1>0, <2>2, <3>1, PhaseKeepsOpen
  <2> QED
    BY <1>4, <2>1, <2>2 DEF ServeFails
<1> QED
  BY <1>1, <1>2, <1>3, <1>4

LEMMA RequestKeepsOpen ==
  ASSUME RunInv, OpenInv, NEW r \in Requests, Accept(r) \/ Handle(r)
  PROVE  OpenInv'
<1>1. /\ UNCHANGED <<service, env, phase, step, open, timedOut, worker>>
      /\ server = "serving" => phase = "serving"
  BY DEF RunInv, ServesInPhase, Accept, Handle, Acquire, CommitTx, Answer, AnswerError,
         Handler, envVars, mainVars
<1>2. handler \in [Requests -> {"none", "running", "holding", "committed", "done"}]
  BY DEF RunInv, RunTypes
<1>3. \E to \in {"running", "holding", "committed", "done"} :
        /\ handler' = [handler EXCEPT ![r] = to]
        /\ IF handler[r] = "none" THEN server = "serving"
           ELSE handler[r] \in {"running", "holding", "committed"}
        /\ to = "holding" => Usable
  <2>1. CASE Accept(r)
    BY <2>1 DEF Accept, Handler
  <2>2. CASE Acquire(r)
    BY <2>2 DEF Acquire, Handler
  <2>3. CASE CommitTx(r)
    BY <2>3 DEF CommitTx, Handler
  <2>4. CASE Answer(r)
    BY <2>4 DEF Answer, Handler
  <2>5. CASE AnswerError(r)
    BY <2>5 DEF AnswerError, Handler
  <2> QED
    BY <2>1, <2>2, <2>3, <2>4, <2>5 DEF Handle
<1>4. Busy' # {} => Busy # {} \/ phase = "serving"
  BY <1>1, <1>3 DEF Busy
<1>5. Holders' # {} => Holders # {} \/ IsOpen("pool")
  <2>1. {w \in Workers : worker[w] = "handling"}' = {w \in Workers : worker[w] = "handling"}
    BY <1>1 DEF Workers
  <2>2. {q \in Requests : handler[q] = "holding"}' # {} =>
           {q \in Requests : handler[q] = "holding"} # {} \/ IsOpen("pool")
    BY <1>2, <1>3 DEF Usable
  <2> QED
    BY <2>1, <2>2 DEF Holders
<1> QED
  BY <1>1, <1>4, <1>5, WorkKeepsOpen DEF OpenInv, OpenTypes

LEMMA WorkerKeepsOpen == OpenInv /\ (Relay \/ Consumer) => OpenInv'
<1> SUFFICES ASSUME OpenInv, Relay \/ Consumer PROVE OpenInv'
  OBVIOUS
<1>1. UNCHANGED <<service, env, phase, step, open, timedOut, handler>>
  BY DEF Relay, Consumer, ListUnpublished, Publish, MarkPublished, RelayFails, RelayEnds, Fetch,
         HandleMessage, ConsumerEnds, Worker, envVars, mainVars
<1>2. PICK w \in {"relay", "consumer"},
           from \in {"idle", "publishing", "marking", "handling"},
           to \in {"idle", "publishing", "marking", "handling", "ended"} :
        /\ worker[w] = from
        /\ worker' = [worker EXCEPT ![w] = to]
        /\ to = "handling" => Usable
  BY DEF Relay, Consumer, ListUnpublished, Publish, MarkPublished, RelayFails, RelayEnds, Fetch,
         HandleMessage, ConsumerEnds, Worker
<1>3. worker \in [{"relay", "consumer"} ->
                   {"none", "idle", "publishing", "marking", "handling", "ended"}]
  BY DEF OpenInv, OpenTypes
<1>4. \A v \in {"relay", "consumer"} : /\ worker[v] = "none" => worker'[v] = "none"
                                       /\ worker[v] = "ended" => worker'[v] = "ended"
  BY <1>2, <1>3
<1>5. Busy' = Busy
  BY <1>1 DEF Busy
<1>6. Holders' # {} => Holders # {} \/ IsOpen("pool")
  BY <1>1, <1>2, <1>3 DEF Holders, Workers, Usable
<1>7. Workers \subseteq {"relay", "consumer"}
  BY DEF Workers
<1> QED
  BY <1>1, <1>2, <1>3, <1>4, <1>5, <1>6, <1>7, WorkKeepsOpen

LEMMA OpenInvStep == RunInv /\ OpenInv /\ [Next]_vars => OpenInv'
<1> SUFFICES ASSUME RunInv, OpenInv, [Next]_vars PROVE OpenInv'
  OBVIOUS
<1>1. CASE UNCHANGED vars
  <2>1. UNCHANGED <<service, env, phase, step, open, timedOut, worker, handler>>
    BY <1>1 DEF vars, envVars, mainVars, workVars
  <2>2. Busy' = Busy /\ Holders' = Holders
    BY <2>1 DEF Busy, Holders, Workers
  <2> QED
    BY <2>1, <2>2, WorkKeepsOpen DEF OpenInv, OpenTypes
<1>2. CASE Next
  BY <1>2, MainKeepsOpen, EndsKeepOpen, RequestKeepsOpen, WorkerKeepsOpen DEF Next
<1> QED
  BY <1>1, <1>2

LEMMA OpenInvInit == Init => OpenInv
<1> SUFFICES ASSUME Init PROVE OpenInv
  OBVIOUS
<1>1. OpenTypes
  BY RunAssumption, EmptySeq DEF Init, OpenTypes, NoWorkers
<1>2. Opened /\ Started /\ Drained
  BY DEF Init, Opened, Started, Drained, Past, Steps, Busy, NoWorkers, Workers
<1>3. Holders = {}
  BY DEF Init, Holders, NoWorkers, Workers
<1> QED
  BY <1>1, <1>2, <1>3 DEF OpenInv

\* In every service, whatever fails and whenever it is told to stop: nothing is
\* closed under a request, the relay or the consumer that still needs it, unless
\* a timer of the stop ended; a connection in use keeps the pool open even then.
THEOREM UsedWhileOpenCorrect == Spec => []UsedWhileOpen
<1>1. RunInv /\ OpenInv /\ [Next]_vars => OpenInv'
  BY OpenInvStep
<1>2. OpenInv => UsedWhileOpen
  BY OpenIsUsed, RunAssumption
<1> QED
  BY <1>1, <1>2, OpenInvInit, RunInvCorrect, PTL DEF Spec
=============================================================================
