--------------------------- MODULE FrontEndProofs ---------------------------
(***************************************************************************)
(* Proofs about the front end: BrowserSession, for any tabs, requests,     *)
(* sessions and faults, and PollPage, for any options and clicks.          *)
(***************************************************************************)
EXTENDS MCFrontEnd, FiniteSetTheorems, TLAPS

-----------------------------------------------------------------------------
(* The session.  The inductive invariant says where a request is that has  *)
(* taken effect: it is answered, and not with the refusal that alone makes *)
(* the client send it again; if it registered, the account is there.       *)


Updates == [call : {"setTokens", "setMe", "clearSession"}, tokens : Tokens]

RequestStates ==
  [stage : {"new", "sent", "creating", "answered", "refreshing", "exchanged", "done"},
   kind : Kinds, tab : Tabs, sent : Tokens, body : Tokens, retried : BOOLEAN,
   got : {"none", "ok", "unauthorized", "failed"}, issued : Tokens]

\* What SetSession changes.
PageTypes ==
  /\ stored \in Tokens
  /\ state \in [Tabs -> Tokens]
  /\ queue \in [Tabs -> Seq(Updates)]
  /\ disturbed \subseteq Disturbances

ServerTypes ==
  /\ session \in [Sessions -> {"none", "live", "revoked"}]
  /\ account \in BOOLEAN /\ valid \subseteq Sessions
  /\ effects \in [Requests -> Nat]

RequestTypes == request \in [Requests -> RequestStates]

Types ==
  /\ PageTypes /\ ServerTypes /\ RequestTypes
  /\ faults \in 0 .. MaxFaults
  /\ used \subseteq Tabs

LEMMA TypesImplyTypeOK == Types => TypeOK
<1> SUFFICES ASSUME Types PROVE TypeOK
  OBVIOUS
<1>1. \A t \in Tabs : \A i \in DOMAIN queue[t] : queue[t][i] \in Updates
  BY DEF Types, PageTypes
<1> QED
  BY <1>1 DEF Types, PageTypes, ServerTypes, RequestTypes, RequestStates, Updates, TypeOK

LEMMA TokensAreSessions == Tokens = {0} \cup Sessions /\ 0 \notin Sessions /\ 0 \in Tokens
  BY BrowserAssumption DEF Tokens, Sessions

LEMMA NewIsRequest == New \in RequestStates
<1>1. (CHOOSE t \in Tabs : TRUE) \in Tabs
  BY BrowserAssumption
<1>2. 0 \in Tokens /\ "plain" \in Kinds
  BY TokensAreSessions DEF Kinds
<1> QED
  BY <1>1, <1>2 DEF New, RequestStates

LEMMA TypesInit == Init => Types
<1> SUFFICES ASSUME Init PROVE Types
  OBVIOUS
<1>1. stored \in Tokens
  BY BrowserAssumption DEF Init, Tokens
<1>2. PageTypes
  BY <1>1 DEF Init, PageTypes, Disturbances
<1>3. ServerTypes
  BY DEF Init, ServerTypes, Live
<1>4. RequestTypes
  BY NewIsRequest DEF Init, RequestTypes
<1> QED
  BY <1>2, <1>3, <1>4, BrowserAssumption DEF Init, Types

-----------------------------------------------------------------------------
\* An update of the session of a tab, run at once or queued.
LEMMA SetSessionTypes ==
  ASSUME PageTypes, NEW t \in Tabs, NEW u \in Updates, SetSession(t, u)
  PROVE  PageTypes'
<1>1. Updated(u, state[t]) \in Tokens /\ CallWrites(u) \in Tokens
  BY TokensAreSessions DEF PageTypes, Updated, CallWrites, Updates
<1>2. CASE RunNow(t, u)
  <2>1. Written(u, state[t], CallWrites(u)) \in Tokens
    BY <1>1 DEF Written
  <2> QED
    BY <1>1, <1>2, <2>1 DEF RunNow, PageTypes
<1>3. CASE RunAtRender(t, u)
  <2>1. queue' = [queue EXCEPT ![t] = Append(queue[t], u)] /\ queue[t] \in Seq(Updates)
    BY <1>3 DEF RunAtRender, PageTypes
  <2>2. queue' \in [Tabs -> Seq(Updates)]
    BY <2>1 DEF PageTypes
  <2> QED
    BY <1>1, <1>3, <2>2 DEF RunAtRender, PageTypes, Disturbances
<1> QED
  BY <1>2, <1>3 DEF SetSession

LEMMA CallsAreUpdates ==
  /\ SetMe \in Updates /\ ClearSession \in Updates
  /\ \A s \in Tokens : SetTokens(s) \in Updates
  BY TokensAreSessions DEF SetMe, ClearSession, SetTokens, Updates

\* What a tab does by itself.
LEMMA PageStepTypes ==
  ASSUME Types, NEW t \in Tabs, Page(t)
  PROVE  Types'
<1>1. UNCHANGED <<serverVars, request, faults, used>>
  BY DEF Page, Render, Reload, ClearOnly
<1>2. PageTypes'
  <2>1. CASE Render(t)
    <3>1. Head(queue[t]) \in Updates /\ Tail(queue[t]) \in Seq(Updates)
      BY <2>1 DEF Render, Types, PageTypes
    <3>2. Updated(Head(queue[t]), state[t]) \in Tokens
      BY <3>1 DEF Types, PageTypes, Updated, Updates
    <3>3. Written(Head(queue[t]), state[t], stored) \in Tokens
      BY <3>2 DEF Types, PageTypes, Written
    <3> QED
      BY <2>1, <3>1, <3>2, <3>3 DEF Render, Types, PageTypes
  <2>2. CASE Reload(t)
    BY <2>2 DEF Reload, Types, PageTypes
  <2>3. CASE ClearOnly(t)
    BY <2>3, SetSessionTypes, CallsAreUpdates DEF ClearOnly, Types
  <2> QED
    BY <2>1, <2>2, <2>3 DEF Page
<1> QED
  BY <1>1, <1>2 DEF Types, ServerTypes, RequestTypes, serverVars

-----------------------------------------------------------------------------
\* The request r becomes the request new.
Becomes(r, new) == request' = [request EXCEPT ![r] = new] /\ new \in RequestStates

LEMMA BecomesTypes ==
  ASSUME RequestTypes, NEW r \in Requests, NEW new, Becomes(r, new)
  PROVE  RequestTypes'
  BY DEF Becomes, RequestTypes

LEMMA CallBecomes ==
  ASSUME Types, NEW t \in Tabs, NEW r \in Requests, NEW k \in Kinds, Call(t, r, k)
  PROVE  /\ request[r].stage = "new"
         /\ \E new : Becomes(r, new) /\ new.stage = "sent"
<1> DEFINE sent == IF k \in Forms THEN 0 ELSE stored
           body == IF k = "logout" THEN stored ELSE 0
           new == [New EXCEPT !.stage = "sent", !.kind = k, !.tab = t, !.sent = sent,
                              !.body = body]
<1>1. request' = [request EXCEPT ![r] = new] /\ request[r].stage = "new"
  BY DEF Call
<1>2. sent \in Tokens /\ body \in Tokens
  BY TokensAreSessions DEF Types, PageTypes
<1> HIDE DEF sent, body
<1>3. new \in RequestStates /\ new.stage = "sent"
  BY <1>2, NewIsRequest DEF RequestStates
<1> QED
  BY <1>1, <1>3 DEF Becomes

\* Where the client brings a request: to its end, to a refresh if it was refused,
\* or from a refresh to its second try.
ClientMoves(r, new) ==
  /\ Becomes(r, new)
  /\ new.kind = request[r].kind /\ new.got = request[r].got
  /\ \/ request[r].stage = "answered" /\ new.stage = "done"
     \/ request[r].stage = "answered" /\ Refused(r) /\ new.stage = "refreshing"
     \/ request[r].stage = "exchanged" /\ new.stage \in {"sent", "done"}

LEMMA ClientStep ==
  ASSUME Types, NEW r \in Requests, Client(r)
  PROVE  /\ PageTypes' /\ UNCHANGED <<serverVars, faults, used>>
         /\ \E new : ClientMoves(r, new)
<1>types. /\ PageTypes /\ request[r] \in RequestStates
          /\ request[r].tab \in Tabs /\ request[r].issued \in Tokens
          /\ request[r].kind \in Kinds
  BY DEF Types, RequestTypes, RequestStates
<1>1. UNCHANGED <<serverVars, faults, used>>
  BY DEF Client, AskRefresh, Finish, Resend, GiveUp
<1>2. CASE AskRefresh(r)
  <2> DEFINE new == [request[r] EXCEPT !.stage = "refreshing"]
  <2>1. new \in RequestStates /\ new.stage = "refreshing"
        /\ new.kind = request[r].kind /\ new.got = request[r].got
    BY <1>types DEF RequestStates
  <2>2. request' = [request EXCEPT ![r] = new] /\ request[r].stage = "answered" /\ Refused(r)
    BY <1>2 DEF AskRefresh, Refreshes
  <2>3. PageTypes'
    BY <1>2, <1>types DEF AskRefresh, KeepSession, PageTypes
  <2> QED
    BY <1>1, <2>1, <2>2, <2>3 DEF ClientMoves, Becomes
<1>3. CASE Finish(r)
  <2> DEFINE new == [request[r] EXCEPT !.stage = "done"]
  <2>1. new \in RequestStates /\ new.stage = "done"
        /\ new.kind = request[r].kind /\ new.got = request[r].got
    BY <1>types DEF RequestStates
  <2>2. request' = [request EXCEPT ![r] = new] /\ request[r].stage = "answered"
    BY <1>3 DEF Finish
  <2>3. PageTypes'
    <3>1. \/ KeepSession
          \/ \E u \in Updates : SetSession(request[r].tab, u)
      BY <1>3, <1>types, CallsAreUpdates
      DEF Finish, Outcome, HandleSubmit, LoadMe, SubmitProfile, Logout, Kinds, Forms
    <3> QED
      BY <1>types, <3>1, SetSessionTypes DEF KeepSession, PageTypes
  <2> QED
    BY <1>1, <2>1, <2>2, <2>3 DEF ClientMoves, Becomes
<1>4. CASE Resend(r)
  <2> DEFINE new == [request[r] EXCEPT !.stage = "sent", !.sent = stored', !.retried = TRUE]
  <2>1. PageTypes'
    BY <1>4, <1>types, CallsAreUpdates, SetSessionTypes DEF Resend
  <2>2. new \in RequestStates /\ new.stage = "sent"
        /\ new.kind = request[r].kind /\ new.got = request[r].got
    BY <1>types, <2>1 DEF RequestStates, PageTypes
  <2>3. request' = [request EXCEPT ![r] = new] /\ request[r].stage = "exchanged"
    BY <1>4 DEF Resend
  <2> QED
    BY <1>1, <2>1, <2>2, <2>3 DEF ClientMoves, Becomes
<1>5. CASE GiveUp(r)
  <2> DEFINE new == [request[r] EXCEPT !.stage = "done"]
  <2>1. PageTypes'
    BY <1>5, <1>types, CallsAreUpdates, SetSessionTypes DEF GiveUp
  <2>2. new \in RequestStates /\ new.stage = "done"
        /\ new.kind = request[r].kind /\ new.got = request[r].got
    BY <1>types DEF RequestStates
  <2>3. request' = [request EXCEPT ![r] = new] /\ request[r].stage = "exchanged"
    BY <1>5 DEF GiveUp
  <2> QED
    BY <1>1, <2>1, <2>2, <2>3 DEF ClientMoves, Becomes
<1> QED
  BY <1>2, <1>3, <1>4, <1>5 DEF Client

-----------------------------------------------------------------------------
\* An answer of the server.
LEMMA ReplyBecomes ==
  ASSUME Types, NEW r \in Requests, NEW tokens \in Tokens,
         NEW answer \in {"ok", "unauthorized", "failed"}, Reply(r, answer, tokens)
  PROVE  \E new : /\ Becomes(r, new) /\ new.kind = request[r].kind
                 /\ new.stage = "answered" /\ new.got = answer
<1> DEFINE new == [request[r] EXCEPT !.stage = "answered", !.got = answer, !.issued = tokens]
<1>1. request[r] \in RequestStates
  BY DEF Types, RequestTypes
<1>2. new \in RequestStates /\ new.kind = request[r].kind /\ new.stage = "answered"
      /\ new.got = answer
  BY <1>1 DEF RequestStates
<1>3. request' = [request EXCEPT ![r] = new]
  BY DEF Reply
<1> QED
  BY <1>2, <1>3 DEF Becomes

LEMMA IssueIsFresh == Fresh # {} => Issue \in Sessions /\ Issue \in Tokens
  BY TokensAreSessions DEF Fresh, Issue

\* What the server makes of a request: it may carry it out, and answers then.
ServerMoves(r, new) ==
  /\ Becomes(r, new) /\ new.kind = request[r].kind
  /\ request[r].stage \in {"sent", "creating", "refreshing"}
  /\ \/ UNCHANGED <<effects, account>>
     \/ /\ effects' = [effects EXCEPT ![r] = effects[r] + 1]
        /\ new.stage = "answered" /\ new.got = "ok"
        /\ \/ request[r].kind # "register" /\ UNCHANGED account
           \/ account = FALSE /\ account' = TRUE

\* What is issued is a session that is live.
LEMMA IssueTokensTypes ==
  ASSUME Types, NEW r \in Requests, IssueTokens(r)
  PROVE  /\ session' \in [Sessions -> {"none", "live", "revoked"}] /\ valid' \subseteq Sessions
         /\ \E new : /\ Becomes(r, new) /\ new.kind = request[r].kind
                    /\ new.stage = "answered" /\ new.got = "ok"
<1>1. Issue \in Sessions /\ Issue \in Tokens
  BY IssueIsFresh DEF IssueTokens
<1>2. session' \in [Sessions -> {"none", "live", "revoked"}] /\ valid' \subseteq Sessions
  BY <1>1 DEF IssueTokens, Types, ServerTypes
<1> QED
  BY <1>1, <1>2, ReplyBecomes DEF IssueTokens

\* The steps of user-service that change its sessions.
LEMMA SessionServerStep ==
  ASSUME Types, NEW r \in Requests,
         Login(r) \/ RegisterChecks(r) \/ RegisterCreates(r) \/ ServeLogout(r) \/ Exchange(r)
  PROVE  ServerTypes' /\ \E new : ServerMoves(r, new)
<1>types. /\ ServerTypes /\ request[r] \in RequestStates /\ 0 \in Tokens
          /\ request[r].body \in Tokens /\ request[r].sent \in Tokens
  BY TokensAreSessions DEF Types, RequestTypes, RequestStates
<1>1. CASE Login(r)
  <2>1. request[r].stage = "sent" /\ UNCHANGED <<account, effects>>
    BY <1>1 DEF Login
  <2>2. CASE IssueTokens(r)
    BY <1>types, <2>1, <2>2, IssueTokensTypes DEF ServerTypes, ServerMoves
  <2>3. CASE Reply(r, "unauthorized", 0) /\ UNCHANGED <<session, valid>>
    BY <1>types, <2>1, <2>3, ReplyBecomes DEF ServerTypes, ServerMoves
  <2> QED
    BY <1>1, <2>2, <2>3 DEF Login
<1>2. CASE RegisterChecks(r)
  <2> DEFINE new == [request[r] EXCEPT !.stage = "creating"]
  <2>1. request[r].stage = "sent" /\ UNCHANGED <<session, account, valid, effects>>
    BY <1>2 DEF RegisterChecks, serverVars
  <2>2. CASE Reply(r, "failed", 0)
    BY <1>types, <2>1, <2>2, ReplyBecomes DEF ServerTypes, ServerMoves
  <2>3. CASE request' = [request EXCEPT ![r] = new]
    <3>1. new \in RequestStates /\ new.kind = request[r].kind
      BY <1>types DEF RequestStates
    <3> QED
      BY <1>types, <2>1, <2>3, <3>1 DEF ServerTypes, ServerMoves, Becomes
  <2> QED
    BY <1>2, <2>2, <2>3 DEF RegisterChecks
<1>3. CASE RegisterCreates(r)
  <2>1. request[r].stage = "creating"
    BY <1>3 DEF RegisterCreates
  <2>2. CASE CreateUser /\ IssueTokens(r) /\ effects' = [effects EXCEPT ![r] = effects[r] + 1]
    <3>1. account = FALSE /\ account' = TRUE
      BY <1>types, <2>2 DEF CreateUser, ServerTypes
    <3>2. effects' \in [Requests -> Nat]
      BY <1>types, <2>2 DEF ServerTypes
    <3> QED
      BY <2>1, <2>2, <3>1, <3>2, IssueTokensTypes DEF ServerTypes, ServerMoves
  <2>3. CASE Reply(r, "failed", 0) /\ UNCHANGED serverVars
    BY <1>types, <2>1, <2>3, ReplyBecomes DEF ServerTypes, ServerMoves, serverVars
  <2> QED
    BY <1>3, <2>2, <2>3 DEF RegisterCreates
<1>4. CASE ServeLogout(r)
  <2>1. request[r].stage = "sent" /\ UNCHANGED <<account, valid, effects>>
    BY <1>4 DEF ServeLogout, Admit
  <2>2. session' \in [Sessions -> {"none", "live", "revoked"}]
    BY <1>4, <1>types DEF ServeLogout, ServerTypes
  <2>3. \E answer \in {"ok", "failed"} : Reply(r, answer, 0)
    BY <1>4 DEF ServeLogout
  <2>4. \E new : Becomes(r, new) /\ new.kind = request[r].kind
    BY <1>types, <2>3, ReplyBecomes
  <2> QED
    BY <1>types, <2>1, <2>2, <2>4 DEF ServerTypes, ServerMoves
<1>5. CASE Exchange(r)
  <2>1. request[r].stage = "refreshing" /\ UNCHANGED <<account, effects>>
    BY <1>5 DEF Exchange
  <2>2. CASE session[request[r].sent] = "live"
    <3> DEFINE new == [request[r] EXCEPT !.stage = "exchanged", !.issued = Issue]
    <3>1. Issue \in Sessions /\ Issue \in Tokens
      BY <1>5, <2>2, IssueIsFresh DEF Exchange
    <3>2. /\ session' = [session EXCEPT ![request[r].sent] = "revoked", ![Issue] = "live"]
          /\ valid' = valid \union {Issue}
          /\ request' = [request EXCEPT ![r] = new]
      BY <1>5, <2>2 DEF Exchange
    <3>3. new \in RequestStates /\ new.kind = request[r].kind
      BY <1>types, <3>1 DEF RequestStates
    <3>4. session' \in [Sessions -> {"none", "live", "revoked"}] /\ valid' \subseteq Sessions
      BY <1>types, <3>1, <3>2 DEF ServerTypes
    <3> QED
      BY <1>types, <2>1, <3>2, <3>3, <3>4 DEF ServerTypes, ServerMoves, Becomes
  <2>3. CASE session[request[r].sent] # "live"
    <3> DEFINE new == [request[r] EXCEPT !.stage = "exchanged"]
    <3>1. request' = [request EXCEPT ![r] = new] /\ UNCHANGED <<session, valid>>
      BY <1>5, <2>3 DEF Exchange
    <3>2. new \in RequestStates /\ new.kind = request[r].kind
      BY <1>types DEF RequestStates
    <3> QED
      BY <1>types, <2>1, <3>1, <3>2 DEF ServerTypes, ServerMoves, Becomes
  <2> QED
    BY <2>2, <2>3
<1> QED
  BY <1>1, <1>2, <1>3, <1>4, <1>5

\* The requests that need an access token.
LEMMA TokenServerStep ==
  ASSUME Types, NEW r \in Requests,
         Refuse(r) \/ GetMyUser(r) \/ ServePlain(r) \/ UpdateUser(r)
  PROVE  ServerTypes' /\ \E new : ServerMoves(r, new)
<1>types. ServerTypes /\ 0 \in Tokens
  BY TokensAreSessions DEF Types
<1>1. request[r].stage = "sent" /\ UNCHANGED <<session, account, valid>>
  BY DEF Refuse, GetMyUser, ServePlain, UpdateUser, Admit, serverVars
<1>2. CASE UNCHANGED effects /\ \E answer \in {"unauthorized", "failed"} : Reply(r, answer, 0)
  BY <1>types, <1>1, <1>2, ReplyBecomes DEF ServerTypes, ServerMoves
<1>3. CASE CarryOut(r) /\ request[r].kind # "register"
  <2>1. effects' = [effects EXCEPT ![r] = effects[r] + 1] /\ Reply(r, "ok", 0)
    BY <1>3 DEF CarryOut
  <2>2. effects' \in [Requests -> Nat]
    BY <1>types, <2>1 DEF ServerTypes
  <2> QED
    BY <1>types, <1>1, <1>3, <2>1, <2>2, ReplyBecomes DEF ServerTypes, ServerMoves
<1> QED
  BY <1>2, <1>3 DEF Refuse, GetMyUser, ServePlain, UpdateUser, Update, Admit, serverVars

LEMMA ServerStep ==
  ASSUME Types, NEW r \in Requests, Server(r)
  PROVE  /\ PageTypes' /\ ServerTypes' /\ UNCHANGED <<faults, used>>
         /\ \E new : ServerMoves(r, new)
<1>1. UNCHANGED <<faults, used>> /\ KeepSession
  BY DEF Server, Login, RegisterChecks, RegisterCreates, Refuse, GetMyUser, ServePlain,
         UpdateUser, ServeLogout, Exchange
<1>2. PageTypes'
  BY <1>1 DEF Types, PageTypes, KeepSession
<1> QED
  BY <1>1, <1>2, SessionServerStep, TokenServerStep DEF Server

\* What the network loses: fetch throws, the refresh fails.
LoseMoves(r, new) ==
  /\ Becomes(r, new) /\ new.kind = request[r].kind
  /\ \/ new.stage = "answered" /\ new.got = "failed" /\ request[r].stage # "new"
     \/ request[r].stage \in {"refreshing", "exchanged"}

LEMMA LoseStep ==
  ASSUME Types, NEW r \in Requests, Lose(r)
  PROVE  /\ UNCHANGED <<serverVars, stored, state, queue, used>>
         /\ disturbed' \subseteq Disturbances /\ faults' \in 0 .. MaxFaults
         /\ \E new : LoseMoves(r, new)
<1>types. request[r] \in RequestStates /\ 0 \in Tokens
  BY TokensAreSessions DEF Types, RequestTypes
<1>1. UNCHANGED <<serverVars, stored, state, queue, used>>
  BY DEF Lose
<1>2. disturbed' \subseteq Disturbances /\ faults' \in 0 .. MaxFaults
  <2>1. disturbed' = disturbed \union {"fault"} /\ faults < MaxFaults /\ faults' = faults + 1
    BY DEF Lose
  <2>2. disturbed \subseteq Disturbances /\ faults \in 0 .. MaxFaults
    BY DEF Types, PageTypes
  <2>3. faults' \in 0 .. MaxFaults
    BY <2>1, <2>2, BrowserAssumption
  <2>4. disturbed' \subseteq Disturbances
    BY <2>1, <2>2 DEF Disturbances
  <2> QED
    BY <2>3, <2>4
<1>3. CASE request[r].stage \in {"sent", "creating", "answered"} /\ Reply(r, "failed", 0)
  BY <1>types, <1>1, <1>2, <1>3, ReplyBecomes DEF LoseMoves
<1>4. CASE request[r].stage \in {"refreshing", "exchanged"}
  <2> DEFINE new == [request[r] EXCEPT !.stage = "exchanged", !.issued = 0]
  <2>1. request' = [request EXCEPT ![r] = new]
    BY <1>4 DEF Lose
  <2>2. new \in RequestStates /\ new.kind = request[r].kind
    BY <1>types DEF RequestStates
  <2> QED
    BY <1>1, <1>2, <1>4, <2>1, <2>2 DEF LoseMoves, Becomes
<1> QED
  BY <1>3, <1>4 DEF Lose

-----------------------------------------------------------------------------
LEMMA TypesStep == Types /\ [Next]_vars => Types'
<1> SUFFICES ASSUME Types, [Next]_vars PROVE Types'
  OBVIOUS
<1>1. CASE UNCHANGED vars
  BY <1>1 DEF vars, Types, PageTypes, ServerTypes, RequestTypes
<1>2. ASSUME NEW t \in Tabs, Page(t) PROVE Types'
  BY <1>2, PageStepTypes
<1>3. ASSUME NEW t \in Tabs, NEW r \in Requests, NEW k \in Kinds, Call(t, r, k) PROVE Types'
  <2>1. RequestTypes'
    BY <1>3, CallBecomes, BecomesTypes DEF Types
  <2>2. /\ UNCHANGED <<serverVars, stored, state, queue, faults>>
        /\ used' = used \union {t} /\ disturbed' = disturbed \union Happened(t, k)
    BY <1>3 DEF Call
  <2>3. disturbed' \subseteq Disturbances /\ used' \subseteq Tabs
    BY <2>2 DEF Types, PageTypes, Happened, Disturbances
  <2> QED
    BY <2>1, <2>2, <2>3 DEF Types, PageTypes, ServerTypes, serverVars
<1>4. ASSUME NEW r \in Requests, Client(r) PROVE Types'
  <2>1. RequestTypes'
    BY <1>4, ClientStep, BecomesTypes DEF Types, ClientMoves
  <2>2. PageTypes' /\ UNCHANGED <<serverVars, faults, used>>
    BY <1>4, ClientStep
  <2> QED
    BY <2>1, <2>2 DEF Types, ServerTypes, serverVars
<1>5. ASSUME NEW r \in Requests, Server(r) PROVE Types'
  <2>1. RequestTypes'
    BY <1>5, ServerStep, BecomesTypes DEF Types, ServerMoves
  <2>2. PageTypes' /\ ServerTypes' /\ UNCHANGED <<faults, used>>
    BY <1>5, ServerStep
  <2> QED
    BY <2>1, <2>2 DEF Types
<1>6. ASSUME NEW r \in Requests, Lose(r) PROVE Types'
  <2>1. RequestTypes'
    BY <1>6, LoseStep, BecomesTypes DEF Types, LoseMoves
  <2>2. /\ UNCHANGED <<serverVars, stored, state, queue, used>>
        /\ disturbed' \subseteq Disturbances /\ faults' \in 0 .. MaxFaults
    BY <1>6, LoseStep
  <2> QED
    BY <2>1, <2>2 DEF Types, PageTypes, ServerTypes, serverVars
<1>7. ASSUME NEW s \in Sessions, Expire(s) PROVE Types'
  <2>1. /\ UNCHANGED <<session, account, stored, state, queue, request, effects, faults, used>>
        /\ valid' = valid \ {s}
        /\ disturbed' \subseteq disturbed \union {"expiredAgain"}
    BY <1>7 DEF Expire
  <2> QED
    BY <2>1 DEF Types, PageTypes, ServerTypes, RequestTypes, Disturbances
<1> QED
  BY <1>1, <1>2, <1>3, <1>4, <1>5, <1>6, <1>7 DEF Next

-----------------------------------------------------------------------------
\* A request that has taken effect is answered, and not refused.
Taken(r) ==
  effects[r] # 0 =>
    /\ effects[r] = 1
    /\ request[r].stage \in {"answered", "done"} /\ request[r].got # "unauthorized"
    /\ request[r].kind = "register" => account

OneRegisters ==
  \A q, r \in Requests :
    /\ effects[q] # 0 /\ request[q].kind = "register"
    /\ effects[r] # 0 /\ request[r].kind = "register"
    => q = r

BrowserInv == Types /\ (\A r \in Requests : Taken(r)) /\ OneRegisters

LEMMA BrowserInvInit == Init => BrowserInv
  BY TypesInit DEF Init, BrowserInv, Taken, OneRegisters

\* A step that carries nothing out: what has taken effect stays as it was.
LEMMA NoEffectKeepsTaken ==
  ASSUME BrowserInv, NEW r \in Requests, NEW new, Becomes(r, new), UNCHANGED <<effects, account>>,
         effects[r] # 0 => /\ new.stage \in {"answered", "done"} /\ new.got # "unauthorized"
                           /\ new.kind = request[r].kind
  PROVE  (\A q \in Requests : Taken(q)') /\ OneRegisters'
<1>1. \A q \in Requests : request'[q] = IF q = r THEN new ELSE request[q]
  BY DEF BrowserInv, Types, RequestTypes, Becomes
<1>2. \A q \in Requests : effects[q] # 0 => request'[q].kind = request[q].kind
  BY <1>1
<1>3. ASSUME NEW q \in Requests PROVE Taken(q)'
  <2>1. CASE q = r
    BY <1>1, <2>1 DEF BrowserInv, Taken
  <2>2. CASE q # r
    BY <1>1, <2>2 DEF BrowserInv, Taken
  <2> QED
    BY <2>1, <2>2
<1>4. OneRegisters'
  BY <1>2 DEF BrowserInv, OneRegisters
<1> QED
  BY <1>3, <1>4

\* The server carries a request out: the first time, and as the first to register.
LEMMA EffectKeepsTaken ==
  ASSUME BrowserInv, NEW r \in Requests, NEW new, Becomes(r, new), effects[r] = 0,
         effects' = [effects EXCEPT ![r] = effects[r] + 1],
         new.stage = "answered", new.got = "ok", new.kind = request[r].kind,
         \/ request[r].kind # "register" /\ UNCHANGED account
         \/ account = FALSE /\ account' = TRUE
  PROVE  (\A q \in Requests : Taken(q)') /\ OneRegisters'
<1>1. \A q \in Requests : request'[q] = IF q = r THEN new ELSE request[q]
  BY DEF BrowserInv, Types, RequestTypes, Becomes
<1>2. \A q \in Requests : effects'[q] = IF q = r THEN 1 ELSE effects[q]
  BY DEF BrowserInv, Types, ServerTypes
<1>3. \A q \in Requests : request'[q].kind = request[q].kind
  BY <1>1
<1>4. ASSUME NEW q \in Requests PROVE Taken(q)'
  <2>1. CASE q = r
    BY <1>1, <1>2, <2>1 DEF Taken
  <2>2. CASE q # r
    BY <1>1, <1>2, <2>2 DEF BrowserInv, Taken
  <2> QED
    BY <2>1, <2>2
<1>5. OneRegisters'
  <2>1. CASE request[r].kind # "register"
    BY <1>2, <1>3, <2>1 DEF BrowserInv, OneRegisters
  <2>2. CASE account = FALSE
    <3>1. \A q \in Requests : request[q].kind = "register" => effects[q] = 0
      BY <2>2 DEF BrowserInv, Taken
    <3> QED
      BY <1>2, <1>3, <3>1 DEF OneRegisters
  <2> QED
    BY <2>1, <2>2
<1> QED
  BY <1>4, <1>5

LEMMA BrowserInvStep == BrowserInv /\ [Next]_vars => BrowserInv'
<1> SUFFICES ASSUME BrowserInv, [Next]_vars PROVE BrowserInv'
  OBVIOUS
<1> Types /\ Types'
  BY TypesStep DEF BrowserInv
<1> SUFFICES (\A q \in Requests : Taken(q)') /\ OneRegisters'
  BY DEF BrowserInv
<1>0. CASE UNCHANGED <<effects, account, request>>
  BY <1>0 DEF BrowserInv, Taken, OneRegisters
<1>1. CASE UNCHANGED vars
  BY <1>0, <1>1 DEF vars
<1>2. ASSUME NEW t \in Tabs, Page(t) PROVE UNCHANGED <<effects, account, request>>
  BY <1>2 DEF Page, Render, Reload, ClearOnly, serverVars
<1>3. ASSUME NEW t \in Tabs, NEW r \in Requests, NEW k \in Kinds, Call(t, r, k)
      PROVE  (\A q \in Requests : Taken(q)') /\ OneRegisters'
  <2>1. PICK new : Becomes(r, new) /\ request[r].stage = "new"
    BY <1>3, CallBecomes
  <2>2. effects[r] = 0
    BY <2>1 DEF BrowserInv, Taken
  <2>3. UNCHANGED <<effects, account>>
    BY <1>3 DEF Call, serverVars
  <2> QED
    BY <2>1, <2>2, <2>3, NoEffectKeepsTaken
<1>4. ASSUME NEW r \in Requests, Client(r)
      PROVE  (\A q \in Requests : Taken(q)') /\ OneRegisters'
  <2>1. PICK new : ClientMoves(r, new)
    BY <1>4, ClientStep
  <2>2. UNCHANGED <<effects, account>>
    BY <1>4, ClientStep DEF serverVars
  <2>3. effects[r] # 0 => new.stage = "done" /\ new.got # "unauthorized"
    BY <2>1 DEF ClientMoves, Refused, BrowserInv, Taken
  <2> QED
    BY <2>1, <2>2, <2>3, NoEffectKeepsTaken DEF ClientMoves
<1>5. ASSUME NEW r \in Requests, Server(r)
      PROVE  (\A q \in Requests : Taken(q)') /\ OneRegisters'
  <2>1. PICK new : ServerMoves(r, new)
    BY <1>5, ServerStep
  <2>2. effects[r] = 0
    BY <2>1 DEF ServerMoves, BrowserInv, Taken
  <2> QED
    BY <2>1, <2>2, NoEffectKeepsTaken, EffectKeepsTaken DEF ServerMoves
<1>6. ASSUME NEW r \in Requests, Lose(r)
      PROVE  (\A q \in Requests : Taken(q)') /\ OneRegisters'
  <2>1. PICK new : LoseMoves(r, new)
    BY <1>6, LoseStep
  <2>2. UNCHANGED <<effects, account>>
    BY <1>6, LoseStep DEF serverVars
  <2>3. effects[r] # 0 => new.stage = "answered" /\ new.got = "failed"
    BY <2>1 DEF LoseMoves, BrowserInv, Taken
  <2> QED
    BY <2>1, <2>2, <2>3, NoEffectKeepsTaken DEF LoseMoves
<1>7. ASSUME NEW s \in Sessions, Expire(s) PROVE UNCHANGED <<effects, account, request>>
  BY <1>7 DEF Expire
<1> QED
  BY <1>0, <1>1, <1>2, <1>3, <1>4, <1>5, <1>6, <1>7 DEF Next

-----------------------------------------------------------------------------
\* The inductive invariant of client.ts, AuthContext.tsx and the user service.
THEOREM BrowserInvCorrect == Spec => []BrowserInv
  BY BrowserInvInit, BrowserInvStep, PTL DEF Spec

\* Every variable keeps its type, for any number of tabs, requests and sessions.
THEOREM BrowserTypeCorrect == Spec => []TypeOK
<1>1. BrowserInv => TypeOK
  BY TypesImplyTypeOK DEF BrowserInv
<1> QED
  BY <1>1, BrowserInvCorrect, PTL

\* However tokens expire, refreshes race and messages get lost, the retry of
\* client.ts never makes the server carry a request out twice, and the checks of
\* Register before its transaction never let two of them register.
THEOREM EffectOnceOfRequest == Spec => []RequestTakesEffectOnce
<1>1. BrowserInv => RequestTakesEffectOnce
  BY DEF BrowserInv, Types, ServerTypes, Taken, OneRegisters, RequestTakesEffectOnce, Refused
<1> QED
  BY <1>1, BrowserInvCorrect, PTL

-----------------------------------------------------------------------------
(* The calm browser.  It has at most one request, which began with the     *)
(* tokens of localStorage and of its tab.                                  *)

\* The session the browser holds is no more: it was exchanged or logged out.
Spent(q) ==
  \/ q.stage = "exchanged"
  \/ q.stage = "answered" /\ q.kind = "logout" /\ q.got # "unauthorized"

\* What is new was issued for the request q, and not stored yet.
Calm(q) ==
  /\ state[q.tab] = stored /\ q.sent = stored
  /\ q.kind \in Forms => stored = 0
  /\ q.kind \in {"me", "logout"} => stored # 0
  /\ q.kind = "logout" /\ ~ q.retried => q.body = stored
  /\ q.stage \in {"sent", "creating"} => q.issued \in {0, stored}
  /\ q.stage = "creating" => q.kind = "register"
  /\ q.stage = "sent" /\ q.retried => stored \in valid /\ q.issued = stored
  /\ q.stage = "answered" =>
       /\ q.kind \in Forms /\ q.got = "ok" => q.issued \in Live
       /\ ~ (q.kind \in Forms /\ q.got = "ok") => q.issued = 0
       /\ q.kind = "me" => q.got \in {"ok", "unauthorized"}
       /\ q.retried => q.got # "unauthorized"
       /\ q.kind = "logout" /\ ~ q.retried /\ q.got # "unauthorized" => stored \notin Live
  /\ q.stage = "refreshing" => q.issued = 0 /\ stored # 0
  /\ q.stage = "exchanged" =>
       q.issued \in Live \intersect valid /\ stored # 0 /\ stored \notin Live

\* The sessions that were issued for a request that is under way.
Issued == {request[r].issued : r \in Busy}

CalmState ==
  /\ \A t \in Tabs : queue[t] = <<>>
  /\ \A q, r \in Busy : q = r
  /\ Live \subseteq {stored} \union LeftByLogout \union Issued
  /\ stored # 0 => stored \in Live \/ \E r \in Busy : Spent(request[r])
  /\ \A r \in Busy : Calm(request[r])

CalmInv == disturbed = {} => CalmState

LEMMA CalmInit == Init => CalmInv
<1> SUFFICES ASSUME Init PROVE CalmState
  BY DEF CalmInv
<1>1. Busy = {} /\ Live \subseteq {stored}
  BY DEF Init, Busy, New, Live
<1>2. stored # 0 => stored \in Live
  BY BrowserAssumption DEF Init, Live, Sessions
<1> QED
  BY <1>1, <1>2 DEF Init, CalmState

LEMMA LiveIsSession == 0 \notin Live
  BY TokensAreSessions DEF Live

\* The one request of a calm browser becomes new.
LEMMA OnlyRequest ==
  ASSUME Types, CalmState, NEW r \in Busy, NEW new, Becomes(r, new)
  PROVE  /\ r \in Requests /\ request[r] \in RequestStates /\ Calm(request[r])
         /\ Live \subseteq {stored} \union LeftByLogout \union {request[r].issued}
         /\ stored # 0 => stored \in Live \/ Spent(request[r])
         /\ new.stage \notin {"new", "done"} =>
              Busy' = {r} /\ Issued' = {new.issued} /\ request'[r] = new
         /\ new.stage = "done" => Busy' = {} /\ Issued' = {}
         /\ LeftByLogout \subseteq LeftByLogout'
         /\ new.stage = "done" /\ new.kind = "logout" /\ new.retried => new.sent \in LeftByLogout'
<1>1. r \in Requests /\ request \in [Requests -> RequestStates] /\ Busy = {r}
  BY DEF Types, RequestTypes, CalmState, Busy
<1>2. /\ request' = [request EXCEPT ![r] = new] /\ request'[r] = new
      /\ \A q \in Requests : q # r => request'[q] = request[q] /\ q \notin Busy
  BY <1>1 DEF Becomes
<1>3. /\ new.stage \notin {"new", "done"} => Busy' = {r}
      /\ new.stage = "done" => Busy' = {}
  BY <1>1, <1>2 DEF Busy
<1>4. LeftByLogout \subseteq LeftByLogout'
  BY <1>1, <1>2 DEF LeftByLogout, Busy
<1>5. new.stage = "done" /\ new.kind = "logout" /\ new.retried => new.sent \in LeftByLogout'
  BY <1>1, <1>2 DEF LeftByLogout
<1>6. Issued = {request[r].issued}
  BY <1>1 DEF Issued
<1>7. /\ new.stage \notin {"new", "done"} => Issued' = {new.issued}
      /\ new.stage = "done" => Issued' = {}
  BY <1>2, <1>3 DEF Issued
<1> QED
  BY <1>1, <1>2, <1>3, <1>4, <1>5, <1>6, <1>7 DEF CalmState

\* It goes on.
LEMMA CalmGoesOn ==
  ASSUME Types, CalmState, NEW r \in Busy, NEW new, Becomes(r, new),
         new.stage \notin {"new", "done"},
         \A t \in Tabs : queue'[t] = <<>>,
         Calm(new)',
         Live' \subseteq {stored'} \union LeftByLogout \union {new.issued},
         stored' # 0 => stored' \in Live' \/ Spent(new)
  PROVE  CalmState'
<1>1. Busy' = {r} /\ Issued' = {new.issued} /\ request'[r] = new /\ LeftByLogout \subseteq LeftByLogout'
  BY OnlyRequest
<1>2. \A q \in Busy' : Calm(request[q])'
  BY <1>1
<1>3. Spent(new) => \E q \in Busy' : Spent(request'[q])
  BY <1>1
<1>4. (\E q \in Busy' : Spent(request'[q])) => (\E q \in Busy : Spent(request[q]))'
  BY DEF Spent
<1> QED
  BY <1>1, <1>2, <1>3, <1>4 DEF CalmState

\* It ends.
LEMMA CalmEnds ==
  ASSUME Types, CalmState, NEW r \in Busy, NEW new, Becomes(r, new), new.stage = "done",
         \A t \in Tabs : queue'[t] = <<>>,
         Live' \subseteq {stored'} \union LeftByLogout',
         stored' # 0 => stored' \in Live'
  PROVE  CalmState'
<1>1. Busy' = {}
  BY OnlyRequest
<1> QED
  BY <1>1 DEF CalmState

-----------------------------------------------------------------------------
\* What the server answers does not touch the page.
ServerKeeps == UNCHANGED <<stored, state, queue, disturbed>>

\* It answers and changes no session, or revokes the one of a logout.
LEMMA CalmAnswer ==
  ASSUME Types, CalmState, NEW r \in Busy, ServerKeeps,
         request[r].stage \in {"sent", "creating"},
         NEW answer \in {"ok", "unauthorized", "failed"}, Reply(r, answer, 0),
         UNCHANGED valid,
         request[r].kind \in Forms => answer # "ok",
         request[r].kind = "me" => answer # "failed",
         request[r].retried => answer # "unauthorized",
         \/ UNCHANGED session /\ (request[r].kind = "logout" => answer = "unauthorized")
         \/ /\ request[r].kind = "logout" /\ answer # "unauthorized"
            /\ Live' \subseteq Live /\ request[r].body \notin Live'
  PROVE  CalmState'
<1>1. PICK new : new = [request[r] EXCEPT !.stage = "answered", !.got = answer, !.issued = 0]
  OBVIOUS
<1>2. /\ r \in Requests /\ request[r] \in RequestStates /\ Calm(request[r])
      /\ \A t \in Tabs : queue[t] = <<>>
  BY DEF Types, RequestTypes, CalmState, Busy
<1>3. Becomes(r, new)
  BY <1>1, <1>2, TokensAreSessions DEF Reply, Becomes, RequestStates
<1>4. /\ new.tab = request[r].tab /\ new.kind = request[r].kind /\ new.sent = request[r].sent
      /\ new.body = request[r].body /\ new.retried = request[r].retried
      /\ new.stage = "answered" /\ new.got = answer /\ new.issued = 0
  BY <1>1, <1>2 DEF RequestStates
<1>5. Live' \subseteq Live /\ UNCHANGED <<stored, state, queue, valid>>
  BY DEF ServerKeeps, Live
<1>6. Calm(new)'
  BY <1>2, <1>4, <1>5 DEF Calm
<1>7. /\ Live \subseteq {stored} \union LeftByLogout \union {request[r].issued}
      /\ stored # 0 => stored \in Live
  BY <1>3, OnlyRequest DEF Spent
<1>8. request[r].issued \in {0, stored}
  BY <1>2 DEF Calm
<1>9. stored' # 0 => stored' \in Live' \/ Spent(new)
  BY <1>4, <1>5, <1>7 DEF Live, Spent
<1> QED
  BY <1>2, <1>3, <1>4, <1>5, <1>6, <1>7, <1>8, <1>9, LiveIsSession, CalmGoesOn

\* It issues the first tokens.
LEMMA CalmIssue ==
  ASSUME Types, CalmState, NEW r \in Busy, ServerKeeps,
         request[r].stage \in {"sent", "creating"}, request[r].kind \in Forms, IssueTokens(r)
  PROVE  CalmState'
<1>1. PICK new : new = [request[r] EXCEPT !.stage = "answered", !.got = "ok", !.issued = Issue]
  OBVIOUS
<1>2. /\ r \in Requests /\ request[r] \in RequestStates /\ Calm(request[r])
      /\ \A t \in Tabs : queue[t] = <<>>
      /\ Issue \in Sessions /\ Issue \in Tokens
  BY IssueIsFresh DEF Types, RequestTypes, CalmState, Busy, IssueTokens
<1>3. Becomes(r, new)
  BY <1>1, <1>2 DEF IssueTokens, Reply, Becomes, RequestStates
<1>4. /\ new.tab = request[r].tab /\ new.kind = request[r].kind /\ new.sent = request[r].sent
      /\ new.body = request[r].body /\ new.retried = request[r].retried
      /\ new.stage = "answered" /\ new.got = "ok" /\ new.issued = Issue
  BY <1>1, <1>2 DEF RequestStates
<1>5. Live' = Live \union {Issue}
  BY <1>2 DEF IssueTokens, Live, Types, ServerTypes
<1>6. Calm(new)'
  BY <1>2, <1>4, <1>5 DEF Calm, ServerKeeps, Forms
<1>7. Live \subseteq {stored} \union LeftByLogout \union {request[r].issued}
  BY <1>3, OnlyRequest
<1>8. request[r].issued \in {0, stored} /\ stored = 0
  BY <1>2 DEF Calm
<1> QED
  BY <1>2, <1>3, <1>4, <1>5, <1>6, <1>7, <1>8, LiveIsSession, CalmGoesOn DEF ServerKeeps

\* It exchanges the session the browser holds.
LEMMA CalmExchange ==
  ASSUME Types, CalmState, NEW r \in Busy, ServerKeeps, Exchange(r)
  PROVE  CalmState'
<1>1. PICK new : new = [request[r] EXCEPT !.stage = "exchanged", !.issued = Issue]
  OBVIOUS
<1>2. /\ r \in Requests /\ request[r] \in RequestStates /\ Calm(request[r])
      /\ \A t \in Tabs : queue[t] = <<>>
      /\ request[r].stage = "refreshing" /\ stored \in Tokens
  BY DEF Types, RequestTypes, PageTypes, CalmState, Busy, Exchange
<1>3. stored # 0 /\ request[r].sent = stored /\ stored \in Sessions
  BY <1>2, TokensAreSessions DEF Calm
<1>4. stored \in Live
  <2>1. \A q \in Busy : q = r
    BY DEF CalmState
  <2>2. ~ Spent(request[r])
    BY <1>2 DEF Spent
  <2> QED
    BY <1>3, <2>1, <2>2 DEF CalmState
<1>5. /\ Fresh # {}
      /\ session' = [session EXCEPT ![stored] = "revoked", ![Issue] = "live"]
      /\ valid' = valid \union {Issue}
      /\ request' = [request EXCEPT ![r] = new]
  BY <1>1, <1>3, <1>4 DEF Exchange, Live
<1>6. Issue \in Sessions /\ Issue \in Tokens /\ Issue # stored /\ Issue # 0
  <2>1. Issue \in Fresh
    BY <1>5 DEF Issue
  <2> QED
    BY <1>4, <2>1, TokensAreSessions DEF Fresh, Live
<1>7. Becomes(r, new)
  BY <1>1, <1>2, <1>5, <1>6 DEF Becomes, RequestStates
<1>8. /\ new.tab = request[r].tab /\ new.kind = request[r].kind /\ new.sent = request[r].sent
      /\ new.body = request[r].body /\ new.retried = request[r].retried
      /\ new.stage = "exchanged" /\ new.issued = Issue
  BY <1>1, <1>2 DEF RequestStates
<1>9. Live' = (Live \ {stored}) \union {Issue}
  BY <1>3, <1>5, <1>6 DEF Live, Types, ServerTypes
<1>10. Calm(new)'
  BY <1>2, <1>3, <1>5, <1>6, <1>8, <1>9 DEF Calm, ServerKeeps
<1>11. Live \subseteq {stored} \union LeftByLogout \union {request[r].issued}
  BY <1>7, OnlyRequest
<1>12. request[r].issued = 0
  BY <1>2 DEF Calm
<1> QED
  BY <1>2, <1>7, <1>8, <1>9, <1>10, <1>11, <1>12, LiveIsSession, CalmGoesOn
  DEF ServerKeeps, Spent

LEMMA CalmServer ==
  ASSUME Types, CalmState, NEW r \in Requests, Server(r)
  PROVE  UNCHANGED disturbed /\ CalmState'
<1>1. ServerKeeps
  BY DEF Server, Login, RegisterChecks, RegisterCreates, Refuse, GetMyUser, ServePlain,
         UpdateUser, ServeLogout, Exchange, KeepSession, ServerKeeps
<1> SUFFICES CalmState'
  BY <1>1 DEF ServerKeeps
<1>2. request[r].stage \in {"sent", "creating", "refreshing"}
  BY DEF Server, Login, RegisterChecks, RegisterCreates, Refuse, GetMyUser, ServePlain,
         UpdateUser, ServeLogout, Exchange, Admit
<1>3. r \in Busy /\ Calm(request[r]) /\ request[r] \in RequestStates
  BY <1>2 DEF Busy, CalmState, Types, RequestTypes
<1>4. request[r].kind \in Forms /\ request[r].stage = "sent" => ~ request[r].retried
  BY <1>3, TokensAreSessions DEF Calm, Types, ServerTypes
<1>5. CASE Login(r)
  BY <1>1, <1>3, <1>4, <1>5, CalmIssue, CalmAnswer DEF Login, Forms
<1>6. CASE RegisterChecks(r) /\ ExistsByEmail
  BY <1>1, <1>3, <1>4, <1>6, CalmAnswer DEF RegisterChecks, Forms, serverVars
<1>7. CASE RegisterChecks(r) /\ ~ ExistsByEmail
  <2>1. PICK new : new = [request[r] EXCEPT !.stage = "creating"]
    OBVIOUS
  <2>2. /\ request' = [request EXCEPT ![r] = new] /\ UNCHANGED <<session, valid>>
        /\ request[r].stage = "sent" /\ request[r].kind = "register"
    BY <1>7, <2>1 DEF RegisterChecks, serverVars
  <2>3. /\ new \in RequestStates
        /\ new.tab = request[r].tab /\ new.kind = request[r].kind /\ new.sent = request[r].sent
        /\ new.body = request[r].body /\ new.retried = request[r].retried
        /\ new.stage = "creating" /\ new.issued = request[r].issued
    BY <1>3, <2>1 DEF RequestStates
  <2>4. Becomes(r, new) /\ Live' = Live
    BY <2>2, <2>3 DEF Becomes, Live
  <2>5. Calm(new)'
    BY <1>1, <1>3, <2>2, <2>3, <2>4 DEF Calm, ServerKeeps
  <2>6. /\ Live \subseteq {stored} \union LeftByLogout \union {request[r].issued}
        /\ stored = 0
    BY <1>3, <2>2, <2>4, OnlyRequest DEF Calm, Forms
  <2> QED
    BY <1>1, <1>3, <2>3, <2>4, <2>5, <2>6, CalmGoesOn DEF ServerKeeps, CalmState
<1>8. CASE RegisterCreates(r) /\ IssueTokens(r)
  BY <1>1, <1>3, <1>8, CalmIssue DEF RegisterCreates, Calm, Forms
<1>9. CASE RegisterCreates(r) /\ ~ IssueTokens(r)
  BY <1>1, <1>3, <1>9, CalmAnswer DEF RegisterCreates, Calm, Forms, serverVars
<1>10. CASE Refuse(r)
  <2>1. ~ request[r].retried
    BY <1>3, <1>10 DEF Refuse, Authorised, Calm
  <2> QED
    BY <1>1, <1>3, <1>10, <2>1, CalmAnswer DEF Refuse, serverVars
<1>11. CASE GetMyUser(r) \/ ServePlain(r) \/ UpdateUser(r)
  BY <1>1, <1>3, <1>11, CalmAnswer
  DEF GetMyUser, ServePlain, UpdateUser, Update, CarryOut, Admit, Forms
<1>12. CASE ServeLogout(r)
  <2>1. /\ request[r].kind = "logout" /\ request[r].stage = "sent" /\ UNCHANGED valid
        /\ \E answer \in {"ok", "failed"} : Reply(r, answer, 0)
    BY <1>12 DEF ServeLogout, Admit
  <2>2. Live' \subseteq Live /\ request[r].body \notin Live'
    BY <1>12 DEF ServeLogout, Live, Types, ServerTypes
  <2> QED
    BY <1>1, <1>3, <2>1, <2>2, CalmAnswer DEF Forms
<1>13. CASE Exchange(r)
  BY <1>1, <1>3, <1>13, CalmExchange
<1> QED
  BY <1>1, <1>5, <1>6, <1>7, <1>8, <1>9, <1>10, <1>11, <1>12, <1>13 DEF Server, ServerKeeps

-----------------------------------------------------------------------------
\* What becomes of a request besides the fields an action names.
Keeps(q, new) ==
  /\ new \in RequestStates
  /\ new.tab = q.tab /\ new.kind = q.kind /\ new.body = q.body
  /\ new.got = q.got /\ new.issued = q.issued

LEMMA CalmClient ==
  ASSUME Types, CalmState, NEW r \in Requests, Client(r), disturbed' = {}
  PROVE  CalmState'
<1> DEFINE q == request[r]
<1>1. r \in Busy /\ Calm(q) /\ q \in RequestStates
  <2>1. q.stage \in {"answered", "exchanged"}
    BY DEF Client, AskRefresh, Finish, Resend, GiveUp
  <2> QED
    BY <2>1 DEF Busy, CalmState, Types, RequestTypes
<1>2. UNCHANGED <<session, valid>> /\ Live' = Live
  BY DEF Client, AskRefresh, Finish, Resend, GiveUp, serverVars, Live
<1>3. \A t \in Tabs : queue[t] = <<>>
  BY DEF CalmState
<1>4. /\ stored \in Tokens /\ state \in [Tabs -> Tokens]
      /\ q.tab \in Tabs /\ q.issued \in Tokens
  BY <1>1 DEF Types, PageTypes, RequestStates
\* Updates run at once.
<1>5. \A u : SetSession(q.tab, u) =>
        /\ UNCHANGED queue
        /\ state' = [state EXCEPT ![q.tab] = Updated(u, state[q.tab])]
        /\ stored' = Written(u, state[q.tab], CallWrites(u))
  BY DEF SetSession, RunNow, RunAtRender
<1>6. SetSession(q.tab, SetMe) => UNCHANGED <<stored, queue, state>>
  BY <1>1, <1>4, <1>5 DEF SetMe, Updated, Written, CallWrites, Calm
<1>7. SetSession(q.tab, ClearSession) => stored' = 0 /\ UNCHANGED queue
  BY <1>5 DEF ClearSession, Updated, Written, CallWrites
<1>8. ASSUME NEW s, SetSession(q.tab, SetTokens(s))
      PROVE  stored' = s /\ state'[q.tab] = s /\ UNCHANGED queue
  BY <1>4, <1>5, <1>8 DEF SetTokens, Updated, Written, CallWrites
<1>9. CASE AskRefresh(r)
  <2>1. PICK new : new = [q EXCEPT !.stage = "refreshing"]
    OBVIOUS
  <2>2. /\ request' = [request EXCEPT ![r] = new] /\ UNCHANGED <<stored, state, queue>>
        /\ q.stage = "answered" /\ q.got = "unauthorized" /\ q.sent # 0 /\ ~ q.retried
    BY <1>9, <2>1 DEF AskRefresh, KeepSession, Refreshes, Refused
  <2>3. /\ Keeps(q, new) /\ new.sent = q.sent /\ new.retried = q.retried
        /\ new.stage = "refreshing"
    BY <1>1, <2>1 DEF RequestStates, Keeps
  <2>4. Becomes(r, new) /\ Calm(new)'
    BY <1>1, <1>2, <2>2, <2>3 DEF Becomes, Calm, Keeps
  <2>5. /\ Live \subseteq {stored} \union LeftByLogout \union {new.issued}
        /\ stored # 0 => stored \in Live
    BY <1>1, <2>2, <2>3, <2>4, OnlyRequest DEF Spent, Keeps
  <2> QED
    BY <1>1, <1>2, <1>3, <2>2, <2>3, <2>4, <2>5, CalmGoesOn
<1>10. CASE Resend(r)
  <2>1. PICK new : new = [q EXCEPT !.stage = "sent", !.sent = stored', !.retried = TRUE]
    OBVIOUS
  <2>2. /\ request' = [request EXCEPT ![r] = new]
        /\ q.stage = "exchanged" /\ stored' = q.issued /\ state'[q.tab] = q.issued
        /\ UNCHANGED queue
    BY <1>8, <1>10, <2>1 DEF Resend
  <2>3. /\ Keeps(q, new) /\ new.sent = stored' /\ new.retried /\ new.stage = "sent"
    BY <1>1, <1>4, <2>1, <2>2 DEF RequestStates, Keeps
  <2>4. /\ q.issued \in Live \intersect valid /\ stored # 0 /\ stored \notin Live
        /\ q.kind \notin Forms
    BY <1>1, <2>2 DEF Calm
  <2>5. Becomes(r, new) /\ Calm(new)'
    BY <1>2, <2>2, <2>3, <2>4, LiveIsSession DEF Becomes, Calm, Keeps
  <2>6. Live \subseteq {stored} \union LeftByLogout \union {q.issued}
    BY <1>1, <2>5, OnlyRequest
  <2> QED
    BY <1>1, <1>2, <1>3, <2>2, <2>3, <2>4, <2>5, <2>6, CalmGoesOn
<1>11. CASE GiveUp(r)
  BY <1>1, <1>11, LiveIsSession DEF GiveUp, Calm
<1>12. CASE Finish(r)
  <2>1. PICK new : new = [q EXCEPT !.stage = "done"]
    OBVIOUS
  <2>2. /\ request' = [request EXCEPT ![r] = new]
        /\ q.stage = "answered" /\ Outcome(q)
        /\ q.got = "unauthorized" /\ q.sent # 0 => q.retried
    BY <1>12, <2>1 DEF Finish, Refreshes, Refused
  <2>3. /\ Keeps(q, new) /\ new.sent = q.sent /\ new.retried = q.retried /\ new.stage = "done"
    BY <1>1, <2>1 DEF RequestStates, Keeps
  <2>4. Becomes(r, new)
    BY <2>2, <2>3 DEF Becomes, Keeps
  <2>5. /\ Live \subseteq {stored} \union LeftByLogout \union {q.issued}
        /\ stored # 0 => stored \in Live \/ Spent(q)
        /\ LeftByLogout \subseteq LeftByLogout'
        /\ q.kind = "logout" /\ q.retried => stored \in LeftByLogout'
    BY <1>1, <2>3, <2>4, OnlyRequest DEF Keeps, Calm
  <2>6. SUFFICES /\ UNCHANGED queue
                 /\ Live \subseteq {stored'} \union LeftByLogout'
                 /\ stored' # 0 => stored' \in Live
    BY <1>1, <1>2, <1>3, <2>3, <2>4, CalmEnds
  \* The tokens stay as they are, unless the request was a form or a logout.
  <2>7. ASSUME UNCHANGED <<stored, queue>>, q.issued = 0, ~ Spent(q)
        PROVE  /\ UNCHANGED queue
               /\ Live \subseteq {stored'} \union LeftByLogout'
               /\ stored' # 0 => stored' \in Live
    BY <2>5, <2>7, LiveIsSession
  <2>8. KeepSession => UNCHANGED <<stored, queue>>
    BY DEF KeepSession
  <2>9. q.kind # "logout" => ~ Spent(q)
    BY <2>2 DEF Spent
  <2>10. CASE q.kind \in Forms
    <3>1. CASE q.got = "ok"
      <4>1. SetSession(q.tab, SetTokens(q.issued))
        BY <2>2, <2>10, <3>1 DEF Outcome, HandleSubmit, Forms
      <4>2. stored = 0 /\ q.issued \in Live
        BY <1>1, <2>2, <2>10, <3>1 DEF Calm
      <4> QED
        BY <1>8, <2>5, <4>1, <4>2, LiveIsSession
    <3>2. CASE q.got # "ok"
      <4>1. KeepSession
        BY <2>2, <2>10, <3>2 DEF Outcome, HandleSubmit, Forms
      <4>2. q.issued = 0
        BY <1>1, <2>2, <3>2 DEF Calm
      <4> QED
        BY <2>7, <2>8, <2>9, <2>10, <4>1, <4>2 DEF Forms
    <3> QED
      BY <3>1, <3>2
  <2>11. CASE q.kind = "me"
    <3>1. q.got = "ok" /\ q.issued = 0
      BY <1>1, <2>2, <2>11 DEF Calm, Forms
    <3>2. SetSession(q.tab, SetMe)
      BY <2>2, <2>11, <3>1 DEF Outcome, LoadMe, Forms
    <3> QED
      BY <1>6, <2>7, <2>9, <2>11, <3>1, <3>2
  <2>12. CASE q.kind = "edit"
    <3>1. q.issued = 0
      BY <1>1, <2>2, <2>12 DEF Calm, Forms
    <3>2. SetSession(q.tab, SetMe) \/ KeepSession
      BY <2>2, <2>12 DEF Outcome, SubmitProfile, Forms
    <3> QED
      BY <1>6, <2>7, <2>8, <2>9, <2>12, <3>1, <3>2
  <2>13. CASE q.kind = "plain"
    <3>1. q.issued = 0
      BY <1>1, <2>2, <2>13 DEF Calm, Forms
    <3>2. KeepSession
      BY <2>2, <2>13 DEF Outcome, Forms
    <3> QED
      BY <2>7, <2>8, <2>9, <2>13, <3>1, <3>2
  <2>14. CASE q.kind = "logout"
    <3>1. q.issued = 0 /\ (~ q.retried => stored \notin Live)
      BY <1>1, <2>2, <2>14 DEF Calm, Forms
    <3>2. SetSession(q.tab, ClearSession)
      BY <2>2, <2>14 DEF Outcome, Logout, Forms
    <3> QED
      BY <1>7, <2>5, <2>14, <3>1, <3>2, LiveIsSession
  <2> QED
    BY <1>1, <2>10, <2>11, <2>12, <2>13, <2>14 DEF RequestStates, Kinds
<1> QED
  BY <1>9, <1>10, <1>11, <1>12 DEF Client

\* A page calls while no other request is under way, with what is stored.
LEMMA CalmCall ==
  ASSUME Types, CalmState, NEW t \in Tabs, NEW r \in Requests, NEW k \in Kinds,
         Call(t, r, k), disturbed' = {}
  PROVE  CalmState'
<1>1. /\ Busy = {} /\ state[t] = stored /\ (k \in Forms => stored = 0)
      /\ k \in {"me", "logout"} => stored # 0
      /\ UNCHANGED <<session, valid, stored, state, queue>>
  BY DEF Call, Happened, serverVars
<1> DEFINE tokens == IF k \in Forms THEN 0 ELSE stored
           body == IF k = "logout" THEN stored ELSE 0
<1>2. PICK new : new = [New EXCEPT !.stage = "sent", !.kind = k, !.tab = t, !.sent = tokens,
                                   !.body = body]
  OBVIOUS
<1>3. request' = [request EXCEPT ![r] = new] /\ request[r].stage = "new"
  BY <1>2 DEF Call
<1>4. tokens = stored /\ (k = "logout" => body = stored)
  BY <1>1
<1>5. /\ new.stage = "sent" /\ new.kind = k /\ new.tab = t /\ new.sent = stored
      /\ k = "logout" => new.body = stored
      /\ new.issued = 0 /\ ~ new.retried
  <2> HIDE DEF tokens, body
  <2> QED
    BY <1>2, <1>4 DEF New
<1>6. request \in [Requests -> RequestStates] /\ request'[r] = new
      /\ \A q \in Requests : q # r => request'[q] = request[q]
  BY <1>3 DEF Types, RequestTypes
<1>7. Busy' = {r}
  BY <1>1, <1>5, <1>6 DEF Busy
<1>8. LeftByLogout \subseteq LeftByLogout' /\ Live' = Live
  BY <1>1, <1>3, <1>6 DEF LeftByLogout, Live
<1>9. Calm(new)'
  BY <1>1, <1>5 DEF Calm
<1>10. Live \subseteq {stored} \union LeftByLogout /\ (stored # 0 => stored \in Live)
  BY <1>1 DEF CalmState, Issued
<1>11. \A q \in Busy' : Calm(request[q])'
  BY <1>6, <1>7, <1>9
<1> QED
  BY <1>1, <1>7, <1>8, <1>10, <1>11 DEF CalmState

\* A tab reloads, or clears its state.
LEMMA CalmPage ==
  ASSUME Types, CalmState, NEW t \in Tabs, Page(t), disturbed' = {}
  PROVE  CalmState'
<1>1. ~ Render(t)
  BY DEF Render, CalmState
<1>2. /\ UNCHANGED <<session, valid, request, stored, queue>>
      /\ \A w \in Tabs : w # t => state'[w] = state[w]
      /\ state'[t] = stored
  <2>1. CASE Reload(t)
    BY <2>1 DEF Reload, serverVars, Types, PageTypes
  <2>2. CASE ClearOnly(t)
    BY <2>2 DEF ClearOnly, SetSession, RunNow, RunAtRender, ClearSession, Updated, Written,
                CallWrites, serverVars, Types, PageTypes
  <2> QED
    BY <1>1, <2>1, <2>2 DEF Page
<1>3. /\ Busy' = Busy /\ Live' = Live /\ LeftByLogout' = LeftByLogout /\ Issued' = Issued
  BY <1>2 DEF Busy, Live, LeftByLogout, Issued
<1>4. \A r \in Busy : Calm(request[r])'
  <2> SUFFICES ASSUME NEW r \in Busy PROVE Calm(request[r])'
    OBVIOUS
  <2>1. Calm(request[r]) /\ request[r].tab \in Tabs
    BY DEF CalmState, Busy, Types, RequestTypes, RequestStates
  <2>2. state'[request[r].tab] = stored
    BY <1>2, <2>1 DEF Calm
  <2> QED
    BY <1>2, <1>3, <2>1, <2>2 DEF Calm
<1>5. (\E r \in Busy : Spent(request[r])) => (\E r \in Busy : Spent(request[r]))'
  BY <1>2, <1>3
<1> QED
  BY <1>2, <1>3, <1>4, <1>5 DEF CalmState

\* An access token expires that was not just issued.
LEMMA CalmExpire ==
  ASSUME Types, CalmState, NEW s \in Sessions, Expire(s), disturbed' = {}
  PROVE  CalmState'
<1>1. /\ valid' = valid \ {s} /\ UNCHANGED <<session, stored, state, queue, request>>
      /\ \A r \in Busy : request[r].issued # s
  BY DEF Expire
<1>2. /\ Busy' = Busy /\ Live' = Live /\ LeftByLogout' = LeftByLogout /\ Issued' = Issued
  BY <1>1 DEF Busy, Live, LeftByLogout, Issued
<1>3. \A r \in Busy : Calm(request[r])'
  BY <1>1, <1>2 DEF CalmState, Calm
<1>4. (\E r \in Busy : Spent(request[r])) => (\E r \in Busy : Spent(request[r]))'
  BY <1>1, <1>2
<1> QED
  BY <1>1, <1>2, <1>3, <1>4 DEF CalmState

LEMMA CalmStep == BrowserInv /\ CalmInv /\ [Next]_vars => CalmInv'
<1> SUFFICES ASSUME BrowserInv, CalmInv, [Next]_vars, disturbed' = {} PROVE CalmState'
  BY DEF CalmInv
<1>1. Types
  BY DEF BrowserInv
<1>2. CASE UNCHANGED vars
  BY <1>2 DEF vars, CalmInv, CalmState, Busy, Live, LeftByLogout, Issued, Calm, Spent
<1>3. CASE Next
  <2>1. ASSUME NEW t \in Tabs, Page(t) PROVE CalmState'
    <3>1. disturbed = {}
      BY <2>1 DEF Page, Render, Reload, ClearOnly, SetSession, RunNow, RunAtRender
    <3> QED
      BY <1>1, <2>1, <3>1, CalmPage DEF CalmInv
  <2>2. ASSUME NEW t \in Tabs, NEW r \in Requests, NEW k \in Kinds, Call(t, r, k)
        PROVE  CalmState'
    <3>1. disturbed = {}
      BY <2>2 DEF Call
    <3> QED
      BY <1>1, <2>2, <3>1, CalmCall DEF CalmInv
  <2>3. ASSUME NEW r \in Requests, Client(r) PROVE CalmState'
    <3>1. \A u : SetSession(request[r].tab, u) => disturbed = {}
      BY DEF SetSession, RunNow, RunAtRender
    <3>2. request[r].kind \in Kinds
      BY <1>1 DEF Types, RequestTypes, RequestStates
    <3>3. disturbed = {}
      <4>1. Outcome(request[r]) => disturbed = {}
        BY <3>1, <3>2 DEF Outcome, Kinds, Forms, HandleSubmit, LoadMe, SubmitProfile, Logout,
                          KeepSession
      <4> QED
        BY <2>3, <3>1, <4>1 DEF Client, AskRefresh, Finish, Resend, GiveUp, KeepSession
    <3> QED
      BY <1>1, <2>3, <3>3, CalmClient DEF CalmInv
  <2>4. ASSUME NEW r \in Requests, Server(r) PROVE CalmState'
    <3>1. disturbed = {}
      BY <2>4 DEF Server, Login, RegisterChecks, RegisterCreates, Refuse, GetMyUser, ServePlain,
                  UpdateUser, ServeLogout, Exchange, KeepSession
    <3> QED
      BY <1>1, <2>4, <3>1, CalmServer DEF CalmInv
  <2>5. ASSUME NEW r \in Requests, Lose(r) PROVE CalmState'
    BY <2>5 DEF Lose
  <2>6. ASSUME NEW s \in Sessions, Expire(s) PROVE CalmState'
    <3>1. disturbed = {}
      BY <2>6 DEF Expire
    <3> QED
      BY <1>1, <2>6, <3>1, CalmExpire DEF CalmInv
  <2> QED
    BY <1>3, <2>1, <2>2, <2>3, <2>4, <2>5, <2>6 DEF Next
<1> QED
  BY <1>2, <1>3

\* A browser that makes its requests one after another, over a network that loses
\* nothing, holds the one session that is live, whatever expires and is exchanged
\* (client.ts, AuthContext.tsx, auth_service.go), except after the logout that had
\* to refresh first.
THEOREM CalmBrowserCorrect == Spec => []CalmBrowserHoldsItsSession
<1>1. CalmInv => CalmBrowserHoldsItsSession
  BY DEF CalmInv, CalmState, CalmBrowserHoldsItsSession, Settled, Issued
<1> QED
  BY <1>1, CalmInit, CalmStep, BrowserInvCorrect, PTL DEF Spec

-----------------------------------------------------------------------------
(* One tab that makes requests, and updates that run at once.  The state of *)
(* that tab is what localStorage holds, and nobody but its request knows a  *)
(* session that was issued and is not stored yet.                           *)

\* The tokens of the answer wait for the page to store them.
Secret(q) == q.stage \in {"answered", "exchanged"} /\ q.issued # 0

SecretOk(r) ==
  LET s == request[r].issued IN
  Secret(request[r]) =>
    /\ s \in Live /\ s # stored
    /\ \A p \in Requests :
         /\ request[p].sent # s /\ request[p].body # s
         /\ p # r /\ Secret(request[p]) => request[p].issued # s

\* Tokens that are known are of sessions there were.
KnownOk == stored \notin Fresh /\ \A r \in Requests : request[r].sent \notin Fresh /\ request[r].body \notin Fresh

\* Only an answer that succeeds brings tokens, and an exchange begins without.
BringsOk(q) ==
  /\ q.stage = "answered" /\ q.got # "ok" => q.issued = 0
  /\ q.stage = "refreshing" => q.issued = 0

SoloState ==
  /\ \A t \in Tabs : queue[t] = <<>>
  /\ \A t \in Tabs : used \subseteq {t} => state[t] = stored
  /\ \A r \in Requests : request[r].stage # "new" => request[r].tab \in used
  /\ \A r \in Requests : SecretOk(r) /\ BringsOk(request[r])
  /\ KnownOk

Solo == "deferred" \notin disturbed /\ \A a, b \in used : a = b

SoloInv == IsFiniteSet(used) /\ (Solo => SoloState)

LEMMA SoloInit == Init => SoloInv
<1> SUFFICES ASSUME Init PROVE IsFiniteSet(used) /\ SoloState
  BY DEF SoloInv
<1>1. IsFiniteSet(used)
  BY FS_EmptySet DEF Init
<1>2. \A r \in Requests : request[r] = New
  BY DEF Init
<1>3. stored \notin Fresh
  BY DEF Init, Fresh
<1>4. 0 \notin Fresh
  BY TokensAreSessions DEF Fresh
<1>5. \A t \in Tabs : queue[t] = <<>> /\ state[t] = stored
  BY DEF Init
<1>6. New.stage = "new" /\ New.sent = 0 /\ New.body = 0
  BY DEF New
<1>7. \A r \in Requests : SecretOk(r) /\ BringsOk(request[r])
  BY <1>2, <1>6 DEF SecretOk, Secret, BringsOk
<1>8. KnownOk
  BY <1>2, <1>3, <1>4, <1>6 DEF KnownOk
<1> QED
  BY <1>1, <1>2, <1>5, <1>6, <1>7, <1>8 DEF SoloState

\* A request goes on: its page may store what was issued for it, and it may be
\* issued a session that nobody had.
LEMMA SoloMoves ==
  ASSUME Types, SoloState, NEW r \in Requests, NEW new, Becomes(r, new),
         request[r].stage # "new", new.tab = request[r].tab, UNCHANGED <<queue, used>>,
         \A t \in Tabs : used \subseteq {t} => state'[t] = stored',
         Fresh' \subseteq Fresh,
         Live \subseteq Live' \cup {request[r].sent, request[r].body},
         new.body = request[r].body, new.sent \in {request[r].sent, stored'},
         stored' \in {stored, 0} \/ (Secret(request[r]) /\ stored' = request[r].issued),
         ~ Secret(new) \/ (new.issued \in Fresh \cap Live' /\ stored' = stored),
         BringsOk(new)
  PROVE  SoloState'
<1>1. /\ request'[r] = new
      /\ \A q \in Requests : q # r => request'[q] = request[q]
  BY DEF Types, RequestTypes, Becomes
<1>2. 0 \notin Fresh /\ Live \cap Fresh = {} /\ 0 \notin Live
  BY TokensAreSessions DEF Fresh, Live
<1>3. KnownOk /\ \A q \in Requests : SecretOk(q) /\ BringsOk(request[q])
  BY DEF SoloState
<1>4. \A q \in Requests : Secret(request[q]) => request[q].issued \in Live /\ request[q].issued # 0
  BY <1>3 DEF SecretOk, Secret
<1>5. stored' \notin Fresh
  BY <1>2, <1>3, <1>4 DEF KnownOk
<1>6. KnownOk'
  BY <1>1, <1>3, <1>5 DEF KnownOk
<1>7. ASSUME NEW q \in Requests, q # r, Secret(request[q])
      PROVE  /\ request[q].issued \in Live' /\ request[q].issued # stored'
             /\ new.sent # request[q].issued /\ new.body # request[q].issued
             /\ Secret(new) => new.issued # request[q].issued
             /\ \A p \in Requests : request[p].sent # request[q].issued /\ request[p].body # request[q].issued
             /\ \A p \in Requests \ {q} : Secret(request[p]) => request[p].issued # request[q].issued
  BY <1>2, <1>3, <1>4, <1>7 DEF SecretOk
<1>8. ASSUME NEW q \in Requests, q # r, Secret(request'[q]) PROVE SecretOk(q)'
  BY <1>1, <1>7, <1>8 DEF SecretOk, Secret
<1>9. ASSUME Secret(new) PROVE SecretOk(r)'
  <2>1. new.issued \in Fresh /\ new.issued \in Live' /\ stored' = stored
    BY <1>9
  <2>2. \A p \in Requests : request'[p].sent \notin Fresh /\ request'[p].body \notin Fresh
    BY <1>1, <1>3, <2>1 DEF KnownOk
  <2>3. \A p \in Requests : p # r /\ Secret(request'[p]) => request'[p].issued \notin Fresh
    BY <1>1, <1>2, <1>4
  <2> QED
    BY <1>1, <1>5, <2>1, <2>2, <2>3 DEF SecretOk, Secret
<1>10. \A q \in Requests : SecretOk(q)' /\ BringsOk(request[q])'
  <2>1. ASSUME NEW q \in Requests PROVE SecretOk(q)'
    BY <1>1, <1>8, <1>9 DEF SecretOk, Secret
  <2>2. ASSUME NEW q \in Requests PROVE BringsOk(request'[q])
    BY <1>1, <1>3
  <2> QED
    BY <2>1, <2>2 DEF BringsOk
<1>11. \A q \in Requests : request'[q].stage # "new" => request'[q].tab \in used
  BY <1>1 DEF SoloState
<1> QED
  BY <1>6, <1>10, <1>11 DEF SoloState

\* What the page of the only tab makes of the outcome.
LEMMA SoloClient ==
  ASSUME Types, SoloState, Solo', NEW r \in Requests, Client(r)
  PROVE  SoloState' /\ stored' \in {stored, 0} \cup Live'
<1> DEFINE q == request[r]
<1>1. /\ q \in RequestStates /\ q.stage \in {"answered", "exchanged"} /\ q.tab \in Tabs /\ q.kind \in Kinds
      /\ stored \in Tokens /\ q.issued \in Tokens /\ used' = used
      /\ state \in [Tabs -> Tokens] /\ Live' = Live /\ Fresh' = Fresh
  BY DEF Client, AskRefresh, Finish, Resend, GiveUp, serverVars, Live, Fresh,
         Types, RequestTypes, RequestStates, PageTypes
<1>2. /\ \A t \in Tabs : queue[t] = <<>>
      /\ \A t \in Tabs : used \subseteq {t} => state[t] = stored
      /\ used \subseteq {q.tab}
  BY <1>1 DEF SoloState, Solo
<1>3. q.issued # 0 => q.issued \in Live /\ Secret(q)
  BY <1>1 DEF SoloState, SecretOk, Secret
\* Updates run at once.
<1>4. \A u : SetSession(q.tab, u) =>
        /\ UNCHANGED queue
        /\ state' = [state EXCEPT ![q.tab] = Updated(u, state[q.tab])]
        /\ stored' = Written(u, state[q.tab], CallWrites(u))
  BY DEF SetSession, RunNow, RunAtRender, Solo
<1>5. SetSession(q.tab, SetMe) => UNCHANGED <<stored, queue>> /\ state'[q.tab] = stored
  BY <1>1, <1>2, <1>4 DEF SetMe, Updated, Written, CallWrites
<1>6. SetSession(q.tab, ClearSession) => stored' = 0 /\ UNCHANGED queue /\ state'[q.tab] = 0
  BY <1>1, <1>4 DEF ClearSession, Updated, Written, CallWrites
<1>7. ASSUME NEW s, SetSession(q.tab, SetTokens(s))
      PROVE  stored' = s /\ state'[q.tab] = s /\ UNCHANGED queue
  BY <1>1, <1>4, <1>7 DEF SetTokens, Updated, Written, CallWrites
<1>8. \A u : SetSession(q.tab, u) => \A t \in Tabs : t # q.tab => state'[t] = state[t]
  BY <1>1, <1>4
<1>9. KeepSession => UNCHANGED <<stored, queue, state>>
  BY DEF KeepSession
<1>10. ASSUME UNCHANGED queue, state'[q.tab] = stored',
              \A t \in Tabs : t # q.tab => state'[t] = state[t] \/ UNCHANGED <<stored, state>>,
              used # {} \/ UNCHANGED <<stored, state>>
       PROVE  \A t \in Tabs : used \subseteq {t} => state'[t] = stored'
  BY <1>1, <1>2, <1>10
<1>11. q.tab \in used
  BY <1>1 DEF SoloState
\* In every case the state of the tab is what is stored, and what is stored is
\* what it was, nothing, or what was issued.
<1>12. /\ UNCHANGED queue
       /\ \A t \in Tabs : used \subseteq {t} => state'[t] = stored'
       /\ stored' \in {stored, 0} \/ (Secret(q) /\ stored' = q.issued)
       /\ AskRefresh(r) => UNCHANGED stored
  <2>1. ASSUME SetSession(q.tab, SetMe) \/ SetSession(q.tab, ClearSession)
               \/ SetSession(q.tab, SetTokens(q.issued)) \/ KeepSession
        PROVE  /\ UNCHANGED queue
               /\ \A t \in Tabs : used \subseteq {t} => state'[t] = stored'
               /\ stored' \in {stored, 0} \/ (Secret(q) /\ stored' = q.issued)
    <3>1. \A t \in Tabs : used \subseteq {t} => t = q.tab
      BY <1>11
    <3> QED
      BY <1>2, <1>3, <1>5, <1>6, <1>7, <1>9, <2>1, <3>1
  <2>2. Outcome(q) => \/ SetSession(q.tab, SetMe) \/ SetSession(q.tab, ClearSession)
                      \/ SetSession(q.tab, SetTokens(q.issued)) \/ KeepSession
    BY <1>1 DEF Outcome, HandleSubmit, LoadMe, SubmitProfile, Logout, Kinds, Forms
  <2>3. \/ SetSession(q.tab, SetMe) \/ SetSession(q.tab, ClearSession)
        \/ SetSession(q.tab, SetTokens(q.issued)) \/ KeepSession
    BY <2>2 DEF Client, AskRefresh, Finish, Resend, GiveUp
  <2>4. AskRefresh(r) => UNCHANGED stored
    BY <1>9 DEF AskRefresh
  <2> QED
    BY <2>1, <2>3, <2>4
<1>13. stored' \in {stored, 0} \cup Live'
  BY <1>1, <1>3, <1>12 DEF Secret
<1>14. ASSUME NEW new, Becomes(r, new), new.tab = q.tab, new.body = q.body,
              new.sent \in {q.sent, stored'}, ~ Secret(new), BringsOk(new)
       PROVE  SoloState'
  BY <1>1, <1>12, <1>14, SoloMoves
<1>15. stored' \in Tokens
  BY <1>1, <1>12, TokensAreSessions
<1>16. CASE AskRefresh(r)
  <2> DEFINE new == [q EXCEPT !.stage = "refreshing"]
  <2>1. request' = [request EXCEPT ![r] = new] /\ q.stage = "answered" /\ q.got = "unauthorized"
    BY <1>16 DEF AskRefresh, Refreshes, Refused
  <2>2. /\ new \in RequestStates /\ new.tab = q.tab /\ new.body = q.body /\ new.sent = q.sent
        /\ new.stage = "refreshing" /\ new.issued = q.issued
    BY <1>1 DEF RequestStates
  <2>3. q.issued = 0
    BY <2>1 DEF SoloState, BringsOk
  <2> HIDE DEF new
  <2> QED
    BY <1>13, <1>14, <2>1, <2>2, <2>3 DEF Becomes, Secret, BringsOk
<1>17. CASE Finish(r) \/ GiveUp(r)
  <2> DEFINE new == [q EXCEPT !.stage = "done"]
  <2>1. request' = [request EXCEPT ![r] = new]
    BY <1>17 DEF Finish, GiveUp
  <2>2. /\ new \in RequestStates /\ new.tab = q.tab /\ new.body = q.body /\ new.sent = q.sent
        /\ new.stage = "done"
    BY <1>1 DEF RequestStates
  <2> HIDE DEF new
  <2> QED
    BY <1>13, <1>14, <2>1, <2>2 DEF Becomes, Secret, BringsOk
<1>18. CASE Resend(r)
  <2> DEFINE new == [q EXCEPT !.stage = "sent", !.sent = stored', !.retried = TRUE]
  <2>1. request' = [request EXCEPT ![r] = new]
    BY <1>18 DEF Resend
  <2>2. /\ new \in RequestStates /\ new.tab = q.tab /\ new.body = q.body /\ new.sent = stored'
        /\ new.stage = "sent"
    BY <1>1, <1>15 DEF RequestStates
  <2> HIDE DEF new
  <2> QED
    BY <1>13, <1>14, <2>1, <2>2 DEF Becomes, Secret, BringsOk
<1> QED
  BY <1>13, <1>16, <1>17, <1>18 DEF Client

\* A page calls, with what is stored.
LEMMA SoloCall ==
  ASSUME Types, Solo => SoloState, Solo', NEW t \in Tabs, NEW r \in Requests, NEW k \in Kinds, Call(t, r, k)
  PROVE  SoloState'
<1> DEFINE sent == IF k \in Forms THEN 0 ELSE stored
           body == IF k = "logout" THEN stored ELSE 0
           new == [New EXCEPT !.stage = "sent", !.kind = k, !.tab = t, !.sent = sent, !.body = body]
<1>1. /\ request' = [request EXCEPT ![r] = new] /\ request[r].stage = "new"
      /\ used' = used \cup {t} /\ disturbed \subseteq disturbed'
      /\ UNCHANGED <<session, stored, state, queue>>
  BY DEF Call, serverVars
<1>2. SoloState /\ used' = {t}
  BY <1>1 DEF Solo
<1>3. new.stage = "sent" /\ new.tab = t /\ new.sent \in {0, stored} /\ new.body \in {0, stored} /\ new.issued = 0
  <2>1. sent \in {0, stored} /\ body \in {0, stored}
    OBVIOUS
  <2> HIDE DEF sent, body
  <2> QED
    BY <2>1 DEF New
<1> HIDE DEF new
<1>4. request'[r] = new /\ \A q \in Requests : q # r => request'[q] = request[q]
  BY <1>1 DEF Types, RequestTypes
<1>5. Live' = Live /\ Fresh' = Fresh /\ 0 \notin Fresh /\ 0 \notin Live
  BY <1>1, TokensAreSessions DEF Live, Fresh
<1>6. KnownOk'
  BY <1>1, <1>2, <1>3, <1>4, <1>5 DEF SoloState, KnownOk
<1>7. ASSUME NEW q \in Requests, Secret(request'[q]) PROVE SecretOk(q)'
  <2>1. q # r /\ request'[q] = request[q] /\ SecretOk(q)
    BY <1>2, <1>3, <1>4, <1>7 DEF Secret, SoloState
  <2>2. /\ request[q].issued \in Live /\ request[q].issued # stored
        /\ \A p \in Requests : /\ request[p].sent # request[q].issued /\ request[p].body # request[q].issued
                               /\ p # q /\ Secret(request[p]) => request[p].issued # request[q].issued
    BY <1>7, <2>1 DEF SecretOk
  <2>3. \A p \in Requests : request'[p].sent # request[q].issued /\ request'[p].body # request[q].issued
    BY <1>3, <1>4, <1>5, <2>2
  <2>4. \A p \in Requests : p # q /\ Secret(request'[p]) => request'[p].issued # request[q].issued
    BY <1>3, <1>4, <2>2 DEF Secret
  <2> QED
    BY <1>1, <1>5, <2>1, <2>2, <2>3, <2>4 DEF SecretOk
<1>8. \A q \in Requests : SecretOk(q)' /\ BringsOk(request'[q])
  <2>1. ASSUME NEW q \in Requests PROVE SecretOk(q)'
    BY <1>7 DEF SecretOk
  <2>2. ASSUME NEW q \in Requests PROVE BringsOk(request'[q])
    BY <1>2, <1>3, <1>4 DEF SoloState, BringsOk
  <2> QED
    BY <2>1, <2>2
<1>9. \A q \in Requests : request'[q].stage # "new" => request'[q].tab \in used'
  BY <1>1, <1>2, <1>3, <1>4 DEF SoloState
<1>10. \A p \in Tabs : queue'[p] = <<>> /\ (used' \subseteq {p} => state'[p] = stored')
  <2>1. \A p \in Tabs : used' \subseteq {p} => used \subseteq {p}
    BY <1>1
  <2> QED
    BY <1>1, <1>2, <2>1 DEF SoloState
<1> QED
  BY <1>6, <1>8, <1>9, <1>10 DEF SoloState

\* A tab reloads, or clears its state where nothing is stored.
LEMMA SoloPage ==
  ASSUME Types, SoloState, Solo', NEW t \in Tabs, Page(t)
  PROVE  SoloState' /\ stored' = stored
<1>1. ~ Render(t)
  BY DEF Render, SoloState
<1>2. /\ UNCHANGED <<session, request, stored, queue, used>>
      /\ \A w \in Tabs : w # t => state'[w] = state[w]
      /\ state'[t] = stored
  <2>1. CASE Reload(t)
    BY <2>1 DEF Reload, serverVars, Types, PageTypes
  <2>2. CASE ClearOnly(t)
    BY <2>2 DEF ClearOnly, SetSession, RunNow, RunAtRender, ClearSession, Updated, Written,
                CallWrites, serverVars, Types, PageTypes, Solo
  <2> QED
    BY <1>1, <2>1, <2>2 DEF Page
<1>3. Live' = Live /\ Fresh' = Fresh
  BY <1>2 DEF Live, Fresh
<1>4. \A w \in Tabs : used \subseteq {w} => state'[w] = stored
  BY <1>2 DEF SoloState
<1> QED
  BY <1>2, <1>3, <1>4 DEF SoloState, SecretOk, KnownOk

\* An answer, with tokens or without.
LEMMA SoloReply ==
  ASSUME Types, SoloState, NEW r \in Requests, UNCHANGED <<stored, state, queue, used>>,
         request[r].stage # "new",
         NEW answer \in {"ok", "unauthorized", "failed"}, NEW s \in Tokens, Reply(r, answer, s),
         Fresh' \subseteq Fresh,
         Live \subseteq Live' \cup {request[r].sent, request[r].body},
         s = 0 \/ (s \in Fresh \cap Live' /\ answer = "ok")
  PROVE  SoloState'
<1> DEFINE new == [request[r] EXCEPT !.stage = "answered", !.got = answer, !.issued = s]
<1>1. request' = [request EXCEPT ![r] = new] /\ request[r] \in RequestStates
  BY DEF Reply, Types, RequestTypes
<1>2. /\ new \in RequestStates /\ new.tab = request[r].tab /\ new.body = request[r].body
      /\ new.sent = request[r].sent /\ new.stage = "answered" /\ new.got = answer /\ new.issued = s
  BY <1>1 DEF RequestStates
<1> HIDE DEF new
<1>3. Becomes(r, new) /\ BringsOk(new) /\ (Secret(new) => s \in Fresh \cap Live')
  BY <1>1, <1>2 DEF Becomes, BringsOk, Secret
<1>4. \A t \in Tabs : used \subseteq {t} => state'[t] = stored'
  BY DEF SoloState
<1> QED
  BY <1>2, <1>3, <1>4, SoloMoves

\* A session is issued that nobody had.
LEMMA SoloIssue ==
  ASSUME Types, SoloState, NEW r \in Requests, UNCHANGED <<stored, state, queue, used>>,
         request[r].stage # "new", IssueTokens(r)
  PROVE  SoloState'
<1>1. Issue \in Fresh /\ Issue \in Tokens /\ Issue \in Sessions
  BY IssueIsFresh DEF IssueTokens, Issue
<1>2. session' = [session EXCEPT ![Issue] = "live"] /\ Reply(r, "ok", Issue)
  BY DEF IssueTokens
<1>3. Fresh' \subseteq Fresh /\ Live \subseteq Live' /\ Issue \in Live'
  BY <1>1, <1>2 DEF Fresh, Live, Types, ServerTypes
<1> QED
  BY <1>1, <1>2, <1>3, SoloReply

LEMMA SoloExchange ==
  ASSUME Types, SoloState, NEW r \in Requests, UNCHANGED <<stored, state, queue, used>>, Exchange(r)
  PROVE  SoloState'
<1> DEFINE q == request[r]
<1>1. q \in RequestStates /\ q.stage = "refreshing" /\ q.issued = 0 /\ q.sent \in Tokens
  BY DEF Exchange, Types, RequestTypes, RequestStates, SoloState, BringsOk
<1>2. \A t \in Tabs : used \subseteq {t} => state'[t] = stored'
  BY DEF SoloState
<1>3. CASE session[q.sent] = "live"
  <2> DEFINE new == [q EXCEPT !.stage = "exchanged", !.issued = Issue]
  <2>1. /\ Fresh # {} /\ session' = [session EXCEPT ![q.sent] = "revoked", ![Issue] = "live"]
        /\ request' = [request EXCEPT ![r] = new]
    BY <1>3 DEF Exchange
  <2>2. Issue \in Fresh /\ Issue \in Tokens /\ Issue \in Sessions
    BY <2>1, IssueIsFresh DEF Issue
  <2>3. Fresh' \subseteq Fresh /\ Live \subseteq Live' \cup {q.sent} /\ Issue \in Live'
    BY <2>1, <2>2 DEF Fresh, Live, Types, ServerTypes
  <2>4. /\ new \in RequestStates /\ new.tab = q.tab /\ new.body = q.body /\ new.sent = q.sent
        /\ new.stage = "exchanged" /\ new.issued = Issue
    BY <1>1, <2>2 DEF RequestStates
  <2> HIDE DEF new
  <2>5. Becomes(r, new) /\ BringsOk(new)
    BY <2>1, <2>4 DEF Becomes, BringsOk
  <2> QED
    BY <1>1, <1>2, <2>2, <2>3, <2>4, <2>5, SoloMoves
<1>4. CASE session[q.sent] # "live"
  <2> DEFINE new == [q EXCEPT !.stage = "exchanged"]
  <2>1. request' = [request EXCEPT ![r] = new] /\ UNCHANGED session
    BY <1>4 DEF Exchange
  <2>2. /\ new \in RequestStates /\ new.tab = q.tab /\ new.body = q.body /\ new.sent = q.sent
        /\ new.stage = "exchanged" /\ new.issued = 0
    BY <1>1 DEF RequestStates
  <2> HIDE DEF new
  <2>3. Becomes(r, new) /\ BringsOk(new) /\ ~ Secret(new) /\ Fresh' = Fresh /\ Live' = Live
    BY <2>1, <2>2 DEF Becomes, BringsOk, Secret, Fresh, Live
  <2> QED
    BY <1>1, <1>2, <2>2, <2>3, SoloMoves
<1> QED
  BY <1>3, <1>4

LEMMA SoloServer ==
  ASSUME Types, SoloState, NEW r \in Requests, Server(r)
  PROVE  SoloState' /\ stored' = stored
<1>1. UNCHANGED <<stored, state, queue, used>>
  BY DEF Server, Login, RegisterChecks, RegisterCreates, Refuse, GetMyUser, ServePlain,
         UpdateUser, ServeLogout, Exchange, KeepSession
<1>2. request[r].stage \in {"sent", "creating", "refreshing"}
  BY DEF Server, Login, RegisterChecks, RegisterCreates, Refuse, GetMyUser, ServePlain,
         UpdateUser, ServeLogout, Exchange, Admit
<1>3. ASSUME UNCHANGED session, NEW answer \in {"ok", "unauthorized", "failed"}, Reply(r, answer, 0)
      PROVE  SoloState'
  <2>1. Fresh' = Fresh /\ Live' = Live
    BY <1>3 DEF Fresh, Live
  <2> QED
    BY <1>1, <1>2, <1>3, <2>1, TokensAreSessions, SoloReply
<1>4. CASE Login(r)
  BY <1>1, <1>2, <1>3, <1>4, SoloIssue DEF Login
<1>5. CASE RegisterChecks(r)
  <2> DEFINE new == [request[r] EXCEPT !.stage = "creating"]
  <2>1. CASE Reply(r, "failed", 0)
    <3>1. UNCHANGED session
      BY <1>5 DEF RegisterChecks, serverVars
    <3> QED
      BY <1>1, <1>3, <2>1, <3>1
  <2>2. CASE request' = [request EXCEPT ![r] = new]
    <3>1. /\ new \in RequestStates /\ new.tab = request[r].tab /\ new.body = request[r].body
          /\ new.sent = request[r].sent /\ new.stage = "creating"
      BY DEF Types, RequestTypes, RequestStates
    <3> HIDE DEF new
    <3>2. Becomes(r, new) /\ BringsOk(new) /\ ~ Secret(new)
      BY <2>2, <3>1 DEF Becomes, BringsOk, Secret
    <3>3. Fresh' = Fresh /\ Live' = Live /\ \A t \in Tabs : used \subseteq {t} => state'[t] = stored'
      BY <1>1, <1>5 DEF RegisterChecks, serverVars, Fresh, Live, SoloState
    <3> QED
      BY <1>1, <1>2, <3>1, <3>2, <3>3, SoloMoves
  <2> QED
    BY <1>5, <2>1, <2>2 DEF RegisterChecks
<1>6. CASE RegisterCreates(r)
  <2>1. IssueTokens(r) \/ (Reply(r, "failed", 0) /\ UNCHANGED session)
    BY <1>6 DEF RegisterCreates, serverVars
  <2>2. CASE IssueTokens(r)
    BY <1>1, <1>2, <2>2, SoloIssue
  <2>3. CASE Reply(r, "failed", 0) /\ UNCHANGED session
    BY <1>1, <1>3, <2>3
  <2> QED
    BY <2>1, <2>2, <2>3
<1>7. CASE Refuse(r) \/ GetMyUser(r) \/ ServePlain(r) \/ UpdateUser(r)
  <2>1. /\ UNCHANGED session
        /\ \E answer \in {"ok", "unauthorized", "failed"} : Reply(r, answer, 0)
    BY <1>7 DEF Refuse, GetMyUser, ServePlain, UpdateUser, Update, CarryOut, serverVars
  <2> QED
    BY <1>1, <1>3, <2>1
<1>8. CASE ServeLogout(r)
  <2>1. \E answer \in {"ok", "failed"} : Reply(r, answer, 0)
    BY <1>8 DEF ServeLogout
  <2>2. Fresh' \subseteq Fresh /\ Live \subseteq Live' \cup {request[r].body}
    BY <1>8 DEF ServeLogout, Fresh, Live, Types, ServerTypes
  <2> QED
    BY <1>1, <1>2, <2>1, <2>2, TokensAreSessions, SoloReply
<1>9. CASE Exchange(r)
  BY <1>1, <1>9, SoloExchange
<1> QED
  BY <1>1, <1>4, <1>5, <1>6, <1>7, <1>8, <1>9 DEF Server

\* What the network loses brings no tokens.
LEMMA SoloLose ==
  ASSUME Types, SoloState, NEW r \in Requests, Lose(r)
  PROVE  SoloState' /\ stored' = stored
<1>1. /\ UNCHANGED <<session, stored, state, queue, used>>
      /\ request[r].stage \in {"sent", "creating", "answered", "refreshing", "exchanged"}
  BY DEF Lose, serverVars
<1>2. Fresh' = Fresh /\ Live' = Live /\ \A t \in Tabs : used \subseteq {t} => state'[t] = stored'
  BY <1>1 DEF Fresh, Live, SoloState
<1>3. CASE Reply(r, "failed", 0)
  BY <1>1, <1>2, <1>3, TokensAreSessions, SoloReply
<1>4. CASE request' = [request EXCEPT ![r] = [request[r] EXCEPT !.stage = "exchanged", !.issued = 0]]
  <2> DEFINE new == [request[r] EXCEPT !.stage = "exchanged", !.issued = 0]
  <2>1. /\ new \in RequestStates /\ new.tab = request[r].tab /\ new.body = request[r].body
        /\ new.sent = request[r].sent /\ new.stage = "exchanged" /\ new.issued = 0
    BY TokensAreSessions DEF Types, RequestTypes, RequestStates
  <2>2. request' = [request EXCEPT ![r] = new]
    BY <1>4
  <2> HIDE DEF new
  <2>3. Becomes(r, new) /\ BringsOk(new) /\ ~ Secret(new)
    BY <2>1, <2>2 DEF Becomes, BringsOk, Secret
  <2> QED
    BY <1>1, <1>2, <2>1, <2>3, SoloMoves
<1> QED
  BY <1>1, <1>3, <1>4 DEF Lose

\* A step may add the tab of a call, which stores nothing.
LEMMA SoloGrows ==
  ASSUME Types, [Next]_vars
  PROVE  /\ used' = used \/ \E t \in Tabs : used' = used \cup {t}
         /\ disturbed \subseteq disturbed'
         /\ used' # used => UNCHANGED stored
<1>1. \A t, u : SetSession(t, u) => disturbed \subseteq disturbed'
  BY DEF SetSession, RunNow, RunAtRender
<1>2. KeepSession => disturbed \subseteq disturbed'
  BY DEF KeepSession
<1>3. \A r \in Requests : request[r].kind \in Kinds
  BY DEF Types, RequestTypes, RequestStates
<1>4. \A r \in Requests : Outcome(request[r]) => disturbed \subseteq disturbed'
  BY <1>1, <1>2, <1>3 DEF Outcome, Kinds, Forms, HandleSubmit, LoadMe, SubmitProfile, Logout
<1>5. ASSUME NEW t \in Tabs, Page(t) PROVE used' = used /\ disturbed \subseteq disturbed'
  BY <1>1, <1>5 DEF Page, Render, Reload, ClearOnly
<1>6. ASSUME NEW t \in Tabs, NEW r \in Requests, NEW k \in Kinds, Call(t, r, k)
      PROVE used' = used \cup {t} /\ disturbed \subseteq disturbed' /\ stored' = stored
  BY <1>6 DEF Call
<1>7. ASSUME NEW r \in Requests, Client(r) PROVE used' = used /\ disturbed \subseteq disturbed'
  BY <1>1, <1>2, <1>4, <1>7 DEF Client, AskRefresh, Finish, Resend, GiveUp
<1>8. ASSUME NEW r \in Requests, Server(r) PROVE used' = used /\ disturbed \subseteq disturbed'
  BY <1>2, <1>8 DEF Server, Login, RegisterChecks, RegisterCreates, Refuse, GetMyUser, ServePlain,
               UpdateUser, ServeLogout, Exchange
<1>9. ASSUME NEW r \in Requests, Lose(r) PROVE used' = used /\ disturbed \subseteq disturbed'
  BY <1>9 DEF Lose
<1>10. ASSUME NEW s \in Sessions, Expire(s) PROVE used' = used /\ disturbed \subseteq disturbed'
  BY <1>10 DEF Expire
<1>11. CASE UNCHANGED vars
  BY <1>11 DEF vars
<1> QED
  BY <1>5, <1>6, <1>7, <1>8, <1>9, <1>10, <1>11 DEF Next

\* Every step keeps the invariant, and stores what is live or nothing.
LEMMA SoloStep ==
  ASSUME Types, SoloInv, [Next]_vars
  PROVE  SoloInv' /\ (Solo /\ "deferred" \notin disturbed' => stored' \in {stored, 0} \cup Live')
<1>1. /\ used' = used \/ \E t \in Tabs : used' = used \cup {t}
      /\ disturbed \subseteq disturbed'
      /\ used' # used => UNCHANGED stored
  BY SoloGrows
<1>2. IsFiniteSet(used')
  BY <1>1, FS_AddElement DEF SoloInv
<1>3. Solo' => Solo
  BY <1>1 DEF Solo
<1>4. SUFFICES ASSUME Solo' PROVE SoloState' /\ stored' \in {stored, 0} \cup Live'
  <2>1. Solo /\ "deferred" \notin disturbed' => Solo' \/ stored' = stored
    BY <1>1 DEF Solo
  <2> QED
    BY <1>2, <1>4, <2>1 DEF SoloInv
<1>5. SoloState
  BY <1>3, <1>4 DEF SoloInv
<1>6. CASE UNCHANGED vars
  <2>1. Live' = Live /\ Fresh' = Fresh /\ UNCHANGED <<queue, used, state, stored, request>>
    BY <1>6 DEF vars, Live, Fresh
  <2> QED
    BY <1>5, <2>1 DEF SoloState, SecretOk, KnownOk
<1>7. ASSUME NEW s \in Sessions, Expire(s) PROVE SoloState' /\ stored' = stored
  <2>1. Live' = Live /\ Fresh' = Fresh /\ UNCHANGED <<queue, used, state, stored, request>>
    BY <1>7 DEF Expire, Live, Fresh
  <2> QED
    BY <1>5, <2>1 DEF SoloState, SecretOk, KnownOk
<1>8. ASSUME NEW t \in Tabs, NEW r \in Requests, NEW k \in Kinds, Call(t, r, k)
      PROVE  SoloState' /\ stored' = stored
  BY <1>4, <1>5, <1>8, SoloCall DEF Call
<1>9. CASE Next
  BY <1>4, <1>5, <1>7, <1>8, <1>9, SoloPage, SoloClient, SoloServer, SoloLose DEF Next
<1> QED
  BY <1>6, <1>9 DEF vars

\* While only one tab makes requests, and updates of the state run at once, no late
\* answer and no update of the user puts tokens back into localStorage that were
\* exchanged or logged out (client.ts, AuthContext.tsx setMe), whatever its requests
\* overlap, and whatever expires or is lost.
THEOREM OneTabCorrect == Spec => OneTabStoresLive
<1>1. Types /\ SoloInv /\ [Next]_vars => [StoresLive]_vars
  <2> SUFFICES ASSUME Types, SoloInv, [Next]_vars, Cardinality(used) <= 1, "deferred" \notin disturbed'
               PROVE  stored' \in {stored, 0} \union Live'
    BY DEF StoresLive
  <2>1. \A a, b \in used : a = b
    <3> SUFFICES ASSUME NEW a \in used, NEW b \in used, a # b PROVE FALSE
      OBVIOUS
    <3>1. IsFiniteSet(used) /\ Cardinality(used) \in Nat
      BY FS_CardinalityType DEF SoloInv
    <3>2. IsFiniteSet(used \ {a}) /\ Cardinality(used \ {a}) = Cardinality(used) - 1
      BY <3>1, FS_RemoveElement
    <3>3. Cardinality(used \ {a}) = 0 \/ Cardinality(used \ {a}) < 0
      BY <3>1, <3>2
    <3>4. Cardinality(used \ {a}) \in Nat
      BY <3>2, FS_CardinalityType
    <3>5. used \ {a} = {}
      BY <3>2, <3>3, <3>4, FS_EmptySet
    <3> QED
      BY <3>5
  <2>2. stored' \in {stored, 0} \union Live'
    <3>1. CASE "deferred" \in disturbed
      <4>1. disturbed \subseteq disturbed'
        BY SoloGrows
      <4> QED
        BY <3>1, <4>1
    <3>2. CASE "deferred" \notin disturbed
      BY <2>1, <3>2, SoloStep DEF Solo
    <3> QED
      BY <3>1, <3>2
  <2> QED
    BY <2>2
<1>2. SoloInv /\ Types /\ [Next]_vars => SoloInv'
  BY SoloStep
<1>3. BrowserInv => Types
  BY DEF BrowserInv
<1> QED
  BY <1>1, <1>2, <1>3, SoloInit, BrowserInvCorrect, PTL DEF Spec, OneTabStoresLive

-----------------------------------------------------------------------------
(* How a live session is lost, whatever overlaps.  Over a network that     *)
(* loses nothing, a refresh fails only for a token that was exchanged or   *)
(* logged out before, the request that is sent again is not refused again, *)
(* and the user is loaded or refused for its token.                        *)

\* Where the request q is in that order, with the sessions, those that were never
\* issued, and the access tokens that have not expired.
InOrder(q, fresh, sessions, good) ==
  /\ q.sent \notin fresh /\ q.issued \notin fresh
  /\ q.stage = "sent" /\ q.retried => q.sent = q.issued /\ q.issued \in good
  /\ q.stage = "sent" /\ q.kind = "me" => q.sent # 0
  /\ q.stage = "creating" => q.kind = "register"
  /\ q.stage = "refreshing" => q.sent # 0 /\ q.issued = 0
  /\ q.stage = "exchanged" =>
       \/ q.issued # 0 /\ q.issued \in good
       \/ q.issued = 0 /\ q.sent # 0 /\ sessions[q.sent] = "revoked"
  /\ q.stage = "answered" =>
       /\ q.got # "ok" => q.issued = 0
       /\ q.kind \in Forms /\ q.got = "ok" => q.issued # 0
       /\ q.kind = "me" => q.got = "ok" \/ (q.got = "unauthorized" /\ q.sent # 0 /\ ~ q.retried)

QuietState ==
  /\ stored \notin Fresh
  /\ \A t \in Tabs : queue[t] = <<>> /\ state[t] \notin Fresh
  /\ \A r \in Requests : InOrder(request[r], Fresh, session, valid)

Quiet == "fault" \notin disturbed /\ "expiredAgain" \notin disturbed /\ "deferred" \notin disturbed

QuietInv == Quiet => QuietState

LEMMA NothingIsNotFresh == 0 \notin Fresh
  BY TokensAreSessions DEF Fresh

LEMMA QuietInit == Init => QuietState
<1> SUFFICES ASSUME Init PROVE QuietState
  OBVIOUS
<1>1. stored \notin Fresh
  BY DEF Init, Fresh
<1>2. \A t \in Tabs : queue[t] = <<>> /\ state[t] \notin Fresh
  BY <1>1 DEF Init
<1>3. New.stage = "new" /\ New.sent = 0 /\ New.issued = 0
  BY DEF New
<1>4. InOrder(New, Fresh, session, valid)
  BY <1>3, NothingIsNotFresh DEF InOrder
<1>5. \A r \in Requests : request[r] = New
  BY DEF Init
<1> QED
  BY <1>1, <1>2, <1>4, <1>5 DEF QuietState

\* A request goes on and no session becomes what it was not; the others are where
\* they were.
LEMMA QuietMoves ==
  ASSUME Types, QuietState, NEW r \in Requests, NEW new, Becomes(r, new), UNCHANGED queue,
         Fresh' \subseteq Fresh, valid \subseteq valid',
         \A s \in Sessions : session[s] = "revoked" => session'[s] = "revoked",
         stored' \notin Fresh', \A t \in Tabs : state'[t] \notin Fresh',
         InOrder(new, Fresh', session', valid')
  PROVE  QuietState'
<1>1. request'[r] = new /\ \A q \in Requests : q # r => request'[q] = request[q]
  BY DEF Types, RequestTypes, Becomes
<1>2. ASSUME NEW q \in Requests PROVE InOrder(request[q], Fresh', session', valid')
  <2>1. request[q].sent \in Tokens
    BY DEF Types, RequestTypes, RequestStates
  <2>2. request[q].sent # 0 /\ session[request[q].sent] = "revoked" => session'[request[q].sent] = "revoked"
    BY <2>1, TokensAreSessions
  <2> QED
    BY <2>2 DEF QuietState, InOrder
<1>3. \A q \in Requests : InOrder(request'[q], Fresh', session', valid')
  BY <1>1, <1>2
<1> QED
  BY <1>3 DEF QuietState

\* A page calls with what is stored.
LEMMA QuietCall ==
  ASSUME Types, QuietState, NEW t \in Tabs, NEW r \in Requests, NEW k \in Kinds, Call(t, r, k)
  PROVE  QuietState'
<1> DEFINE sent == IF k \in Forms THEN 0 ELSE stored
           body == IF k = "logout" THEN stored ELSE 0
           new == [New EXCEPT !.stage = "sent", !.kind = k, !.tab = t, !.sent = sent, !.body = body]
<1>1. /\ request' = [request EXCEPT ![r] = new] /\ (k = "me" => stored # 0)
      /\ UNCHANGED <<session, valid, stored, state, queue>>
  BY DEF Call, serverVars
<1>2. /\ new \in RequestStates /\ new.stage = "sent" /\ new.kind = k /\ new.sent \in {0, stored}
      /\ (k = "me" => new.sent = stored) /\ new.issued = 0 /\ ~ new.retried
  <2>1. sent \in {0, stored} /\ body \in {0, stored} /\ (k = "me" => sent = stored)
    BY DEF Forms
  <2>2. sent \in Tokens /\ body \in Tokens
    BY <2>1, TokensAreSessions DEF Types, PageTypes
  <2> HIDE DEF sent, body
  <2> QED
    BY <2>1, <2>2, NewIsRequest DEF New, RequestStates
<1> HIDE DEF new
<1>3. Fresh' = Fresh
  BY <1>1 DEF Fresh
<1>4. InOrder(new, Fresh', session', valid')
  BY <1>1, <1>2, <1>3, NothingIsNotFresh DEF InOrder, QuietState
<1> QED
  BY <1>1, <1>2, <1>3, <1>4, QuietMoves DEF Becomes, QuietState

\* A tab reloads, or clears its state where nothing is stored.
LEMMA QuietPage ==
  ASSUME Types, QuietState, Quiet', NEW t \in Tabs, Page(t)
  PROVE  QuietState' /\ stored' = stored
<1>1. ~ Render(t)
  BY DEF Render, QuietState
<1>2. /\ UNCHANGED <<session, valid, request, stored, queue>>
      /\ \A w \in Tabs : state'[w] \in {state[w], stored}
  <2>1. CASE Reload(t)
    BY <2>1 DEF Reload, serverVars, Types, PageTypes
  <2>2. CASE ClearOnly(t)
    <3>1. "deferred" \notin disturbed'
      BY DEF Quiet
    <3> QED
      BY <2>2, <3>1 DEF ClearOnly, SetSession, RunNow, RunAtRender, ClearSession, Updated, Written,
                        CallWrites, serverVars, Types, PageTypes
  <2> QED
    BY <1>1, <2>1, <2>2 DEF Page
<1>3. Fresh' = Fresh
  BY <1>2 DEF Fresh
<1>4. \A w \in Tabs : state'[w] \notin Fresh
  BY <1>2 DEF QuietState
<1> QED
  BY <1>2, <1>3, <1>4 DEF QuietState

\* What the page makes of the outcome.  A live session is gone only in the three ways.
LEMMA QuietClient ==
  ASSUME Types, QuietState, Quiet', NEW r \in Requests, Client(r)
  PROVE  /\ QuietState'
         /\ stored \in Live /\ stored' = 0 =>
              request'[r].stage = "done" /\ (LogsOut(r) \/ CameSecond(r) \/ ShowsNone(r))
<1> DEFINE q == request[r]
<1>1. /\ q \in RequestStates /\ q.stage \in {"answered", "exchanged"} /\ q.tab \in Tabs /\ q.kind \in Kinds
      /\ stored \in Tokens /\ q.issued \in Tokens /\ Fresh' = Fresh
      /\ state \in [Tabs -> Tokens] /\ UNCHANGED <<session, valid>>
  BY DEF Client, AskRefresh, Finish, Resend, GiveUp, serverVars, Fresh,
         Types, RequestTypes, RequestStates, PageTypes
<1>2. InOrder(q, Fresh, session, valid) /\ stored \notin Fresh /\ \A t \in Tabs : state[t] \notin Fresh
  BY DEF QuietState
<1>3. Live \cap Fresh = {} /\ 0 \notin Live /\ 0 \notin Fresh
  BY TokensAreSessions DEF Live, Fresh
\* Updates run at once.
<1>4. \A u : SetSession(q.tab, u) =>
        /\ UNCHANGED queue
        /\ state' = [state EXCEPT ![q.tab] = Updated(u, state[q.tab])]
        /\ stored' = Written(u, state[q.tab], CallWrites(u))
  <2>1. "deferred" \notin disturbed'
    BY DEF Quiet
  <2> QED
    BY <2>1 DEF SetSession, RunNow, RunAtRender
<1>5. SetSession(q.tab, SetMe) => /\ UNCHANGED queue /\ stored' = state[q.tab]
                                  /\ \A t \in Tabs : state'[t] = state[t]
  BY <1>1, <1>4 DEF SetMe, Updated, Written, CallWrites
<1>6. SetSession(q.tab, ClearSession) => /\ UNCHANGED queue /\ stored' = 0
                                         /\ \A t \in Tabs : state'[t] \in {state[t], 0}
  BY <1>1, <1>4 DEF ClearSession, Updated, Written, CallWrites
<1>7. SetSession(q.tab, SetTokens(q.issued)) => /\ UNCHANGED queue /\ stored' = q.issued
                                                /\ \A t \in Tabs : state'[t] \in {state[t], q.issued}
  BY <1>1, <1>4 DEF SetTokens, Updated, Written, CallWrites
<1>8. KeepSession => UNCHANGED <<stored, queue, state>>
  BY DEF KeepSession
<1>9. Outcome(q) => \/ SetSession(q.tab, SetMe) \/ SetSession(q.tab, ClearSession)
                    \/ SetSession(q.tab, SetTokens(q.issued)) \/ KeepSession
  BY <1>1 DEF Outcome, HandleSubmit, LoadMe, SubmitProfile, Logout, Kinds, Forms
<1>10. \/ SetSession(q.tab, SetMe) \/ SetSession(q.tab, ClearSession)
       \/ SetSession(q.tab, SetTokens(q.issued)) \/ KeepSession
  BY <1>9 DEF Client, AskRefresh, Finish, Resend, GiveUp
<1>11. /\ UNCHANGED queue /\ stored' \in Tokens /\ stored' \notin Fresh'
       /\ \A t \in Tabs : state'[t] \notin Fresh'
  <2>1. CASE SetSession(q.tab, SetMe)
    BY <1>1, <1>2, <1>5, <2>1
  <2>2. CASE SetSession(q.tab, ClearSession)
    BY <1>1, <1>2, <1>3, <1>6, <2>2, TokensAreSessions
  <2>3. CASE SetSession(q.tab, SetTokens(q.issued))
    BY <1>1, <1>2, <1>7, <2>3 DEF InOrder
  <2>4. CASE KeepSession
    BY <1>1, <1>2, <1>8, <2>4
  <2> QED
    BY <1>10, <2>1, <2>2, <2>3, <2>4
<1>12. ASSUME NEW new, Becomes(r, new), InOrder(new, Fresh, session, valid)
       PROVE  QuietState'
  BY <1>1, <1>11, <1>12, QuietMoves
<1>13. CASE AskRefresh(r)
  <2> DEFINE new == [q EXCEPT !.stage = "refreshing"]
  <2>1. /\ request' = [request EXCEPT ![r] = new] /\ q.stage = "answered" /\ q.got = "unauthorized"
        /\ q.sent # 0 /\ stored' = stored
    BY <1>13 DEF AskRefresh, Refreshes, Refused, KeepSession
  <2>2. /\ new \in RequestStates /\ new.sent = q.sent /\ new.stage = "refreshing" /\ new.issued = q.issued
    BY <1>1 DEF RequestStates
  <2> HIDE DEF new
  <2>3. InOrder(new, Fresh, session, valid)
    BY <1>2, <2>1, <2>2 DEF InOrder
  <2> QED
    BY <1>3, <1>12, <2>1, <2>2, <2>3 DEF Becomes
<1>14. ASSUME Finish(r) \/ GiveUp(r) PROVE QuietState' /\ request'[r].stage = "done"
  <2> DEFINE new == [q EXCEPT !.stage = "done"]
  <2>1. request' = [request EXCEPT ![r] = new]
    BY <1>14 DEF Finish, GiveUp
  <2>2. new \in RequestStates /\ new.sent = q.sent /\ new.issued = q.issued /\ new.stage = "done"
    BY <1>1 DEF RequestStates
  <2> HIDE DEF new
  <2>3. InOrder(new, Fresh, session, valid)
    BY <1>2, <2>2 DEF InOrder
  <2>4. request'[r] = new
    BY <2>1 DEF Types, RequestTypes
  <2> QED
    BY <1>12, <2>1, <2>2, <2>3, <2>4 DEF Becomes
<1>15. CASE Finish(r)
  <2> SUFFICES ASSUME stored \in Live, stored' = 0 PROVE LogsOut(r) \/ ShowsNone(r)
    BY <1>14, <1>15
  <2>1. Outcome(q) /\ q.stage = "answered" /\ ~ Refreshes(r)
    BY <1>15 DEF Finish
  <2>2. ~ KeepSession
    BY <1>3, <1>8
  <2>3. CASE q.kind \in Forms
    <3>1. q.got = "ok" /\ SetSession(q.tab, SetTokens(q.issued))
      BY <2>1, <2>2, <2>3 DEF Outcome, HandleSubmit, Forms
    <3> QED
      BY <1>2, <1>7, <2>1, <2>3, <3>1 DEF InOrder
  <2>4. CASE q.kind = "me"
    <3>1. q.got = "ok"
      BY <1>2, <2>1, <2>4 DEF InOrder, Refreshes, Refused
    <3>2. SetSession(q.tab, SetMe)
      BY <2>1, <2>4, <3>1 DEF Outcome, LoadMe, Forms
    <3> QED
      BY <1>5, <2>4, <3>1, <3>2 DEF ShowsNone
  <2>5. CASE q.kind = "edit"
    <3>1. q.got = "ok" /\ SetSession(q.tab, SetMe)
      BY <2>1, <2>2, <2>5 DEF Outcome, SubmitProfile, Forms
    <3> QED
      BY <1>5, <2>5, <3>1 DEF ShowsNone
  <2>6. CASE q.kind = "logout"
    BY <2>6 DEF LogsOut
  <2>7. q.kind # "plain"
    BY <2>1, <2>2 DEF Outcome, Forms
  <2> QED
    BY <1>1, <2>3, <2>4, <2>5, <2>6, <2>7 DEF Kinds
<1>16. CASE GiveUp(r)
  <2> SUFFICES ASSUME stored \in Live PROVE CameSecond(r)
    BY <1>14, <1>16
  <2>1. q.stage = "exchanged" /\ q.issued = 0
    BY <1>16 DEF GiveUp
  <2>2. session[q.sent] = "revoked"
    BY <1>2, <2>1 DEF InOrder
  <2>3. session[stored] = "live"
    BY DEF Live
  <2> QED
    BY <2>1, <2>2, <2>3 DEF CameSecond
<1>17. CASE Resend(r)
  <2> DEFINE new == [q EXCEPT !.stage = "sent", !.sent = stored', !.retried = TRUE]
  <2>1. /\ request' = [request EXCEPT ![r] = new] /\ q.issued # 0 /\ q.stage = "exchanged"
        /\ stored' = q.issued
    BY <1>7, <1>17 DEF Resend
  <2>2. new \in RequestStates /\ new.sent = q.issued /\ new.issued = q.issued /\ new.stage = "sent"
    BY <1>1, <1>11, <2>1 DEF RequestStates
  <2> HIDE DEF new
  <2>3. InOrder(new, Fresh, session, valid)
    BY <1>2, <2>1, <2>2 DEF InOrder
  <2> QED
    BY <1>12, <2>1, <2>2, <2>3 DEF Becomes
<1> QED
  BY <1>13, <1>14, <1>15, <1>16, <1>17 DEF Client

\* An answer without tokens.
LEMMA QuietReply ==
  ASSUME Types, QuietState, NEW r \in Requests, UNCHANGED <<valid, stored, state, queue>>,
         Fresh' \subseteq Fresh,
         \A s \in Sessions : session[s] = "revoked" => session'[s] = "revoked",
         NEW answer \in {"ok", "unauthorized", "failed"}, Reply(r, answer, 0),
         request[r].kind \in Forms => answer # "ok",
         request[r].kind = "me" =>
           answer = "ok" \/ (answer = "unauthorized" /\ request[r].sent # 0 /\ ~ request[r].retried)
  PROVE  QuietState'
<1> DEFINE new == [request[r] EXCEPT !.stage = "answered", !.got = answer, !.issued = 0]
<1>1. request' = [request EXCEPT ![r] = new] /\ request[r] \in RequestStates
  BY DEF Reply, Types, RequestTypes
<1>2. /\ new \in RequestStates /\ new.sent = request[r].sent /\ new.kind = request[r].kind
      /\ new.retried = request[r].retried
      /\ new.stage = "answered" /\ new.got = answer /\ new.issued = 0
  BY <1>1, TokensAreSessions DEF RequestStates
<1> HIDE DEF new
<1>3. request[r].sent \notin Fresh' /\ 0 \notin Fresh'
  BY NothingIsNotFresh DEF QuietState, InOrder
<1>4. InOrder(new, Fresh', session', valid')
  BY <1>2, <1>3 DEF InOrder
<1>5. stored' \notin Fresh' /\ \A t \in Tabs : state'[t] \notin Fresh'
  BY DEF QuietState
<1> QED
  BY <1>1, <1>2, <1>4, <1>5, QuietMoves DEF Becomes

\* A session is issued to the one that logs in or registers.
LEMMA QuietIssue ==
  ASSUME Types, QuietState, NEW r \in Requests, UNCHANGED <<stored, state, queue>>,
         request[r].kind \in Forms, IssueTokens(r)
  PROVE  QuietState'
<1> DEFINE new == [request[r] EXCEPT !.stage = "answered", !.got = "ok", !.issued = Issue]
<1>1. Issue \in Fresh /\ Issue \in Tokens /\ Issue \in Sessions
  BY IssueIsFresh DEF IssueTokens, Issue
<1>2. /\ session' = [session EXCEPT ![Issue] = "live"] /\ valid \subseteq valid'
      /\ request' = [request EXCEPT ![r] = new] /\ request[r] \in RequestStates
  BY DEF IssueTokens, Reply, Types, RequestTypes
<1>3. /\ Fresh' \subseteq Fresh /\ Issue \notin Fresh'
      /\ \A s \in Sessions : session[s] = "revoked" => session'[s] = "revoked"
  BY <1>1, <1>2 DEF Fresh, Types, ServerTypes
<1>4. /\ new \in RequestStates /\ new.sent = request[r].sent /\ new.kind = request[r].kind
      /\ new.stage = "answered" /\ new.got = "ok" /\ new.issued = Issue
  BY <1>1, <1>2 DEF RequestStates
<1> HIDE DEF new
<1>5. Issue # 0 /\ request[r].sent \notin Fresh'
  BY <1>1, <1>3, TokensAreSessions DEF QuietState, InOrder
<1>6. InOrder(new, Fresh', session', valid')
  BY <1>3, <1>4, <1>5 DEF InOrder, Forms
<1>7. stored' \notin Fresh' /\ \A t \in Tabs : state'[t] \notin Fresh'
  BY <1>3 DEF QuietState
<1> QED
  BY <1>2, <1>3, <1>4, <1>6, <1>7, QuietMoves DEF Becomes

\* The first of two exchanges of a token revokes its session, the second finds that.
LEMMA QuietExchange ==
  ASSUME Types, QuietState, NEW r \in Requests, UNCHANGED <<stored, state, queue>>, Exchange(r)
  PROVE  QuietState'
<1> DEFINE q == request[r]
<1>1. /\ q \in RequestStates /\ q.stage = "refreshing" /\ q.issued = 0 /\ q.sent \in Sessions
      /\ q.sent \notin Fresh
  BY TokensAreSessions DEF Exchange, Types, RequestTypes, RequestStates, QuietState, InOrder
<1>2. stored \notin Fresh /\ \A t \in Tabs : state'[t] \notin Fresh
  BY DEF QuietState
<1>3. CASE session[q.sent] = "live"
  <2> DEFINE new == [q EXCEPT !.stage = "exchanged", !.issued = Issue]
  <2>1. /\ Fresh # {} /\ session' = [session EXCEPT ![q.sent] = "revoked", ![Issue] = "live"]
        /\ request' = [request EXCEPT ![r] = new] /\ valid' = valid \cup {Issue}
    BY <1>3 DEF Exchange
  <2>2. Issue \in Fresh /\ Issue \in Tokens /\ Issue \in Sessions /\ Issue # 0
    BY <2>1, IssueIsFresh, TokensAreSessions DEF Issue
  <2>3. /\ Fresh' \subseteq Fresh /\ Issue \notin Fresh'
        /\ \A s \in Sessions : session[s] = "revoked" => session'[s] = "revoked"
    BY <2>1, <2>2 DEF Fresh, Types, ServerTypes
  <2>4. new \in RequestStates /\ new.sent = q.sent /\ new.stage = "exchanged" /\ new.issued = Issue
    BY <1>1, <2>2 DEF RequestStates
  <2> HIDE DEF new
  <2>5. InOrder(new, Fresh', session', valid')
    BY <1>1, <2>1, <2>2, <2>3, <2>4 DEF InOrder
  <2> QED
    BY <1>2, <2>1, <2>3, <2>4, <2>5, QuietMoves DEF Becomes
<1>4. CASE session[q.sent] # "live"
  <2> DEFINE new == [q EXCEPT !.stage = "exchanged"]
  <2>1. request' = [request EXCEPT ![r] = new] /\ UNCHANGED <<session, valid>>
    BY <1>4 DEF Exchange
  <2>2. new \in RequestStates /\ new.sent = q.sent /\ new.stage = "exchanged" /\ new.issued = 0
    BY <1>1 DEF RequestStates
  <2> HIDE DEF new
  <2>3. session[q.sent] = "revoked" /\ q.sent # 0
    BY <1>1, <1>4, TokensAreSessions DEF Fresh, Types, ServerTypes
  <2>4. Fresh' = Fresh
    BY <2>1 DEF Fresh
  <2>5. InOrder(new, Fresh', session', valid')
    BY <1>1, <2>1, <2>2, <2>3, <2>4, NothingIsNotFresh DEF InOrder
  <2> QED
    BY <1>2, <2>1, <2>2, <2>4, <2>5, QuietMoves DEF Becomes
<1> QED
  BY <1>3, <1>4

LEMMA QuietServer ==
  ASSUME Types, QuietState, NEW r \in Requests, Server(r)
  PROVE  QuietState' /\ stored' = stored
<1> DEFINE Suits(answer) ==
      /\ request[r].kind \in Forms => answer # "ok"
      /\ request[r].kind = "me" =>
           answer = "ok" \/ (answer = "unauthorized" /\ request[r].sent # 0 /\ ~ request[r].retried)
<1>1. UNCHANGED <<stored, state, queue>>
  BY DEF Server, Login, RegisterChecks, RegisterCreates, Refuse, GetMyUser, ServePlain,
         UpdateUser, ServeLogout, Exchange, KeepSession
<1>2. InOrder(request[r], Fresh, session, valid) /\ request[r] \in RequestStates
  BY DEF QuietState, Types, RequestTypes
<1>3. ASSUME session' = session, valid' = valid, NEW answer \in {"ok", "unauthorized", "failed"},
             Reply(r, answer, 0), Suits(answer)
      PROVE  QuietState'
  <2>1. Fresh' = Fresh
    BY <1>3 DEF Fresh
  <2> QED
    BY <1>1, <1>3, <2>1, QuietReply
<1> HIDE DEF Suits
<1>4. CASE Login(r)
  <2>1. request[r].kind = "login" /\ request[r].kind \in Forms /\ Suits("unauthorized")
    BY <1>4 DEF Login, Forms, Suits
  <2>2. IssueTokens(r) \/ (Reply(r, "unauthorized", 0) /\ session' = session /\ valid' = valid)
    BY <1>4 DEF Login
  <2>3. CASE IssueTokens(r)
    BY <1>1, <2>1, <2>3, QuietIssue
  <2>4. CASE Reply(r, "unauthorized", 0) /\ session' = session /\ valid' = valid
    BY <1>1, <1>3, <2>1, <2>4
  <2> QED
    BY <2>2, <2>3, <2>4
<1>5. CASE RegisterChecks(r)
  <2> DEFINE new == [request[r] EXCEPT !.stage = "creating"]
  <2>1. /\ request[r].kind = "register" /\ session' = session /\ valid' = valid
        /\ Suits("failed") /\ (Reply(r, "failed", 0) \/ request' = [request EXCEPT ![r] = new])
    BY <1>5 DEF RegisterChecks, serverVars, Suits
  <2>2. CASE Reply(r, "failed", 0)
    BY <1>1, <1>3, <2>1, <2>2
  <2>3. CASE request' = [request EXCEPT ![r] = new]
    <3>1. /\ new \in RequestStates /\ new.sent = request[r].sent /\ new.issued = request[r].issued
          /\ new.stage = "creating" /\ new.kind = "register"
      BY <1>2, <2>1 DEF RequestStates
    <3> HIDE DEF new
    <3>2. Fresh' = Fresh
      BY <2>1 DEF Fresh
    <3>3. InOrder(new, Fresh', session', valid')
      BY <1>2, <3>1, <3>2 DEF InOrder
    <3> QED
      BY <1>1, <2>1, <2>3, <3>1, <3>2, <3>3, QuietMoves DEF Becomes, QuietState
  <2> QED
    BY <2>1, <2>2, <2>3
<1>6. CASE RegisterCreates(r)
  <2>1. request[r].kind = "register" /\ request[r].kind \in Forms /\ Suits("failed")
    BY <1>2, <1>6 DEF RegisterCreates, InOrder, Forms, Suits
  <2>2. IssueTokens(r) \/ (Reply(r, "failed", 0) /\ session' = session /\ valid' = valid)
    BY <1>6 DEF RegisterCreates, serverVars
  <2>3. CASE IssueTokens(r)
    BY <1>1, <2>1, <2>3, QuietIssue
  <2>4. CASE Reply(r, "failed", 0) /\ session' = session /\ valid' = valid
    BY <1>1, <1>3, <2>1, <2>4
  <2> QED
    BY <2>2, <2>3, <2>4
<1>7. CASE Refuse(r)
  <2>1. /\ request[r].stage = "sent" /\ request[r].kind \notin Forms /\ request[r].sent \notin valid
        /\ session' = session /\ valid' = valid /\ Reply(r, "unauthorized", 0)
    BY <1>7 DEF Refuse, Authorised, serverVars
  <2>2. Suits("unauthorized")
    BY <1>2, <2>1 DEF InOrder, Suits
  <2> QED
    BY <1>1, <1>3, <2>1, <2>2
<1>8. CASE GetMyUser(r) \/ ServePlain(r)
  <2>1. Suits("ok") /\ session' = session /\ valid' = valid /\ Reply(r, "ok", 0)
    BY <1>8 DEF GetMyUser, ServePlain, Admit, CarryOut, Forms, Suits
  <2> QED
    BY <1>1, <1>3, <2>1
<1>9. CASE UpdateUser(r)
  <2>1. /\ Suits("ok") /\ Suits("failed") /\ session' = session /\ valid' = valid
        /\ Reply(r, "ok", 0) \/ Reply(r, "failed", 0)
    BY <1>9 DEF UpdateUser, Update, Admit, CarryOut, Forms, Suits
  <2> QED
    BY <1>1, <1>3, <2>1
<1>10. CASE ServeLogout(r)
  <2>1. /\ request[r].kind = "logout" /\ UNCHANGED valid
        /\ \E answer \in {"ok", "failed"} : Reply(r, answer, 0)
    BY <1>10 DEF ServeLogout, Admit
  <2>2. /\ Fresh' \subseteq Fresh
        /\ \A s \in Sessions : session[s] = "revoked" => session'[s] = "revoked"
    BY <1>10 DEF ServeLogout, Fresh, Types, ServerTypes
  <2> QED
    BY <1>1, <2>1, <2>2, QuietReply DEF Forms
<1>11. CASE Exchange(r)
  BY <1>1, <1>11, QuietExchange
<1> QED
  BY <1>1, <1>4, <1>5, <1>6, <1>7, <1>8, <1>9, <1>10, <1>11 DEF Server

\* The token of a request that waits for it does not expire.
LEMMA QuietExpire ==
  ASSUME Types, QuietState, Quiet', NEW s \in Sessions, Expire(s)
  PROVE  QuietState' /\ stored' = stored
<1>1. /\ UNCHANGED <<session, stored, state, queue, request>> /\ valid' = valid \ {s}
      /\ \A r \in Busy : request[r].issued # s
  BY DEF Expire, Quiet
<1>2. Fresh' = Fresh
  BY <1>1 DEF Fresh
<1>3. ASSUME NEW r \in Requests PROVE InOrder(request[r], Fresh, session, valid')
  <2>1. request[r].stage \in {"sent", "exchanged"} => request[r].issued # s
    BY <1>1 DEF Busy
  <2> QED
    BY <1>1, <2>1 DEF QuietState, InOrder
<1> QED
  BY <1>1, <1>2, <1>3 DEF QuietState

\* Every step keeps the order, and drops a live session only in the three ways.
LEMMA QuietStep == Types /\ QuietInv /\ [Next]_vars => QuietInv' /\ [DropsLive]_vars
<1> SUFFICES ASSUME Types, QuietInv, [Next]_vars, Quiet'
             PROVE  /\ QuietState'
                    /\ stored \in Live /\ stored' = 0 =>
                         \E r \in Busy : /\ request'[r].stage = "done"
                                         /\ LogsOut(r) \/ CameSecond(r) \/ ShowsNone(r)
  <2>1. disturbed' \intersect {"fault", "expiredAgain", "deferred"} = {} => Quiet'
    BY Zenon DEF Quiet
  <2> QED
    BY <2>1 DEF QuietInv, DropsLive
<1>1. QuietState
  BY SoloGrows DEF Quiet, QuietInv
<1>2. 0 \notin Live
  BY TokensAreSessions DEF Live
<1>3. CASE UNCHANGED vars
  <2>1. Fresh' = Fresh /\ UNCHANGED <<session, valid, stored, state, queue, request>>
    BY <1>3 DEF vars, Fresh
  <2> QED
    BY <1>1, <1>2, <2>1 DEF QuietState
<1>4. ASSUME NEW r \in Requests, Client(r)
      PROVE  /\ QuietState'
             /\ stored \in Live /\ stored' = 0 =>
                  \E p \in Busy : /\ request'[p].stage = "done"
                                  /\ LogsOut(p) \/ CameSecond(p) \/ ShowsNone(p)
  <2>1. r \in Busy
    BY <1>4 DEF Client, AskRefresh, Finish, Resend, GiveUp, Busy
  <2> QED
    BY <1>1, <1>4, <2>1, QuietClient
<1>5. ASSUME NEW t \in Tabs, NEW r \in Requests, NEW k \in Kinds, Call(t, r, k)
      PROVE  QuietState' /\ stored' = stored
  <2>1. stored' = stored
    BY <1>5 DEF Call
  <2> QED
    BY <1>1, <1>5, <2>1, QuietCall
<1>6. \A r \in Requests : ~ Lose(r)
  BY DEF Lose, Quiet
<1>7. ASSUME Next, \A r \in Requests : ~ Client(r) PROVE QuietState' /\ stored' = stored
  BY <1>1, <1>5, <1>6, <1>7, QuietPage, QuietServer, QuietExpire DEF Next
<1> QED
  BY <1>2, <1>3, <1>4, <1>7

\* Over a network that loses nothing and outlives no fresh token, with updates of the
\* state that run at once, the browser forgets a session that is live only by a
\* logout, by a refresh that came second, and by a tab that shows no session
\* (client.ts refreshSession, AuthContext.tsx loadMe, setMe and logout), whatever its
\* tabs and requests overlap.
THEOREM LiveSessionDroppedCorrect == Spec => LiveSessionDropped
<1>1. Init => QuietInv
  BY QuietInit DEF QuietInv
<1>2. BrowserInv => Types
  BY DEF BrowserInv
<1> QED
  BY <1>1, <1>2, QuietStep, BrowserInvCorrect, PTL DEF Spec, LiveSessionDropped

-----------------------------------------------------------------------------
(* The page of a poll. *)

Pages == [stage : {"loading", "shown", "error"}, load : Nat,
          vote : {Unknown} \cup Poll!Vote, busy : BOOLEAN]

\* An answer that tells of success is one the server has given.
AnyRequest ==
  {q \in [vote : Poll!Vote, before : {Unknown} \cup Poll!Vote, click : Nat, served : BOOLEAN,
          answer : {Unknown, "saved", "error", "taken"}, here : BOOLEAN] :
     q.served \/ q.answer \in {Unknown, "error", "taken"}}

\* The types, without the bound on the clicks.
PollTypes ==
  /\ vote \in Poll!Vote
  /\ page \in Pages
  /\ loads \subseteq Poll!Load
  /\ votesSent \subseteq AnyRequest
  /\ clicks \in Nat

\* What the load l may bring to the page.
Recent(l) == /\ l.id <= page.load
             /\ Poll!Active(l) /\ l.stage = "loaded" => l.got \in {Unknown} \cup recent

\* The inductive invariant: a load has a number, no load has a larger one than
\* the page, and what a load with the page's number brings was stored since the
\* effect of PollPage.tsx began it.
PageInv ==
  /\ PollTypes
  /\ vote \in recent
  /\ \A l \in loads : Recent(l)
  /\ Poll!ShownVoteIsRecent

LEMMA PageInvInit == Poll!Init => PageInv
  BY DEF Poll!Init, PageInv, PollTypes, Pages, AnyRequest, Poll!Load, Poll!Asked, Recent,
         Poll!Active, Poll!ShownVoteIsRecent

-----------------------------------------------------------------------------
\* The page is loaded again: the loads there were are not for it any more.
LEMMA ReloadKeepsInv ==
  ASSUME PageInv, NEW p, p \in Pages, p.load = page.load,
         Poll!Reload(p), UNCHANGED vote
  PROVE  /\ page' \in Pages
         /\ loads' \subseteq Poll!Load
         /\ vote' \in recent'
         /\ \A l \in loads' : Recent(l)'
         /\ Poll!ShownVoteIsRecent'
<1> DEFINE id == page.load + 1
<1>1. /\ page' = [p EXCEPT !.stage = "loading", !.load = id]
      /\ page.load \in Nat /\ id \in Nat /\ id > page.load
  BY DEF Poll!Reload, Poll!Loading, PageInv, PollTypes, Pages
<1>2. page' \in Pages /\ page'.load = id /\ page'.stage = "loading"
  BY <1>1 DEF Pages
<1>3. loads' = loads \cup {Poll!Asked(id)} /\ Poll!Asked(id) \in Poll!Load
  BY <1>1 DEF Poll!Reload, Poll!Asked, Poll!Load
<1>4. vote' \in recent'
  BY DEF Poll!Reload
<1>5. ASSUME NEW l \in loads' PROVE Recent(l)'
  <2>1. CASE l \in loads
    <3>1. l.id \in Nat /\ l.id <= page.load
      BY <2>1 DEF PageInv, PollTypes, Poll!Load, Recent
    <3> QED
      BY <1>1, <1>2, <3>1 DEF Recent, Poll!Active
  <2>2. CASE l = Poll!Asked(id)
    BY <1>1, <1>2, <2>2 DEF Recent, Poll!Active, Poll!Asked
  <2> QED
    BY <1>3, <2>1, <2>2
<1> QED
  BY <1>2, <1>3, <1>4, <1>5 DEF PageInv, PollTypes, Poll!ShownVoteIsRecent

\* A click.
LEMMA SendKeepsInv ==
  ASSUME PageInv, NEW v \in Poll!Vote, Poll!Send(v)
  PROVE  PageInv'
<1> DEFINE p == [page EXCEPT !.vote = v, !.busy = TRUE]
           q == [vote |-> v, before |-> page.vote, click |-> clicks + 1,
                 served |-> FALSE, answer |-> Unknown, here |-> TRUE]
<1>types. page \in Pages /\ votesSent \subseteq AnyRequest /\ clicks \in Nat
  BY DEF PageInv, PollTypes
<1>1. p \in Pages /\ p.load = page.load
  BY <1>types DEF Pages
<1>q. page.vote \in {Unknown} \cup Poll!Vote
  BY <1>types DEF Pages
<1>r. q \in AnyRequest
  BY <1>types, <1>q DEF AnyRequest
<1>2. /\ Poll!Reload(p) /\ UNCHANGED vote
      /\ votesSent' = votesSent \cup {q} /\ clicks' = clicks + 1
  BY DEF Poll!Send, Poll!SetPollLive
<1>3. /\ page' \in Pages /\ loads' \subseteq Poll!Load
      /\ vote' \in recent' /\ Poll!ShownVoteIsRecent'
      /\ \A l \in loads' : Recent(l)'
  BY <1>1, <1>2, ReloadKeepsInv
<1>4. vote' \in Poll!Vote /\ clicks' \in Nat
  BY <1>types, <1>2 DEF PageInv, PollTypes
<1>5. votesSent' \subseteq AnyRequest
  BY <1>types, <1>r, <1>2
<1> QED
  BY <1>3, <1>4, <1>5 DEF PageInv, PollTypes

\* The reader leaves the page and comes back.
LEMMA OpenAgainKeepsInv == PageInv /\ Poll!OpenAgain => PageInv'
<1> SUFFICES ASSUME PageInv, Poll!OpenAgain PROVE PageInv'
  OBVIOUS
<1> DEFINE p == [page EXCEPT !.vote = Unknown, !.busy = FALSE]
<1>1. p \in Pages /\ p.load = page.load
  BY DEF PageInv, PollTypes, Pages
<1>2. /\ page' \in Pages /\ loads' \subseteq Poll!Load
      /\ vote' \in recent' /\ Poll!ShownVoteIsRecent'
      /\ \A l \in loads' : Recent(l)'
  BY <1>1, ReloadKeepsInv DEF Poll!OpenAgain
<1>3. vote' \in Poll!Vote /\ clicks' \in Nat
  BY DEF Poll!OpenAgain, PageInv, PollTypes
<1>4. votesSent' \subseteq AnyRequest
  BY DEF Poll!OpenAgain, PageInv, PollTypes, AnyRequest
<1> QED
  BY <1>2, <1>3, <1>4 DEF PageInv, PollTypes

-----------------------------------------------------------------------------
\* What becomes of a request is a request.
LEMMA RequestsStay ==
  ASSUME PageInv, NEW q \in votesSent
  PROVE  /\ ~ q.served => Poll!Ended(q, "saved") \subseteq AnyRequest
         /\ ~ q.served => Poll!Ended(q, "error") \subseteq AnyRequest
         /\ Poll!Becomes(votesSent, q, [q EXCEPT !.answer = "error"]) \subseteq AnyRequest
         /\ Poll!Answered(q) \subseteq AnyRequest
<1>1. q \in AnyRequest /\ votesSent \subseteq AnyRequest
  BY DEF PageInv, PollTypes
<1>2. /\ [q EXCEPT !.answer = "error"] \in AnyRequest
      /\ [q EXCEPT !.answer = "taken"] \in AnyRequest
      /\ [q EXCEPT !.served = TRUE] \in AnyRequest
      /\ [q EXCEPT !.served = TRUE, !.answer = "saved"] \in AnyRequest
      /\ [q EXCEPT !.served = TRUE, !.answer = "error"] \in AnyRequest
  BY <1>1 DEF AnyRequest
<1>3. \A new \in AnyRequest : Poll!Becomes(votesSent, q, new) \subseteq AnyRequest
  BY <1>1 DEF Poll!Becomes
<1>4. Poll!Answered(q) \subseteq AnyRequest
  BY <1>1, <1>2, <1>3 DEF Poll!Answered
<1>5. ~ q.served => q.answer \in {Unknown, "error", "taken"}
  BY <1>1 DEF AnyRequest
<1>6. ASSUME ~ q.served, NEW answer \in {"saved", "error"}
      PROVE  Poll!Ended(q, answer) \subseteq AnyRequest
  <2>1. CASE q.answer = Unknown
    <3>1. CASE Poll!Ended(q, answer) =
                 Poll!Becomes(votesSent, q, [q EXCEPT !.served = TRUE, !.answer = answer])
      BY <1>2, <1>3, <3>1
    <3>2. CASE Poll!Ended(q, answer) = Poll!Becomes(votesSent, q, [q EXCEPT !.served = TRUE])
      BY <1>2, <1>3, <3>2
    <3>3. CASE Poll!Ended(q, answer) = votesSent \ {q}
      BY <1>1, <3>3
    <3> QED
      BY <2>1, <3>1, <3>2, <3>3 DEF Poll!Ended
  <2>2. CASE q.answer # Unknown
    BY <1>1, <1>2, <1>3, <1>5, <1>6, <2>2 DEF Poll!Ended
  <2> QED
    BY <2>1, <2>2
<1> QED
  BY <1>2, <1>3, <1>4, <1>6

\* The vote service, the network and the answers of the requests.
LEMMA RequestStepKeepsInv ==
  ASSUME PageInv, NEW q \in votesSent,
         Poll!ServeVote(q) \/ Poll!Disconnect(q) \/ Poll!Saved(q) \/ Poll!RevertVote(q)
  PROVE  PageInv'
<1>types. /\ q \in AnyRequest /\ page \in Pages /\ vote \in Poll!Vote
          /\ q.vote \in Poll!Vote /\ q.before \in {Unknown} \cup Poll!Vote
          /\ page.load \in Nat
  BY DEF PageInv, PollTypes, AnyRequest, Pages
<1>1. CASE Poll!ServeVote(q)
  <2>1. vote' \in Poll!Vote /\ vote' \in recent' /\ recent \subseteq recent'
    BY <1>types, <1>1 DEF Poll!ServeVote, PageInv
  <2>2. votesSent' \subseteq AnyRequest
    BY <1>1, RequestsStay DEF Poll!ServeVote
  <2>3. UNCHANGED <<page, loads, clicks>>
    BY <1>1 DEF Poll!ServeVote
  <2> QED
    BY <2>1, <2>2, <2>3 DEF PageInv, PollTypes, Recent, Poll!Active, Poll!ShownVoteIsRecent
<1>2. CASE Poll!Disconnect(q)
  <2>1. UNCHANGED <<vote, page, loads, clicks, recent>>
    BY <1>2 DEF Poll!Disconnect
  <2>2. votesSent' \subseteq AnyRequest
    BY <1>2, RequestsStay DEF Poll!Disconnect
  <2> QED
    BY <2>1, <2>2 DEF PageInv, PollTypes, Recent, Poll!Active, Poll!ShownVoteIsRecent
<1>3. CASE Poll!Saved(q)
  <2>1. UNCHANGED <<vote, loads, clicks, recent>>
    BY <1>3 DEF Poll!Saved
  <2>2. votesSent' \subseteq AnyRequest
    BY <1>3, RequestsStay DEF Poll!Saved
  <2>3. /\ page' \in Pages /\ page'.load = page.load
        /\ page'.stage = page.stage /\ page'.vote = page.vote
    BY <1>types, <1>3 DEF Poll!Saved, Pages
  <2> QED
    BY <2>1, <2>2, <2>3 DEF PageInv, PollTypes, Recent, Poll!Active, Poll!ShownVoteIsRecent
<1>4. CASE Poll!RevertVote(q)
  <2> DEFINE p == IF q.here THEN [page EXCEPT !.vote = q.before, !.busy = FALSE] ELSE page
  <2>1. p \in Pages /\ p.load = page.load
    BY <1>types DEF Pages
  <2>2. Poll!Reload(p) /\ UNCHANGED <<vote, clicks>>
    BY <1>4 DEF Poll!RevertVote, Poll!SetPollLive
  <2>3. votesSent' \subseteq AnyRequest
    BY <1>4, RequestsStay DEF Poll!RevertVote
  <2>4. /\ page' \in Pages /\ loads' \subseteq Poll!Load
        /\ vote' \in recent' /\ Poll!ShownVoteIsRecent'
        /\ \A l \in loads' : Recent(l)'
    BY <2>1, <2>2, ReloadKeepsInv
  <2> QED
    BY <2>2, <2>3, <2>4 DEF PageInv, PollTypes
<1> QED
  BY <1>1, <1>2, <1>3, <1>4

-----------------------------------------------------------------------------
\* A load that goes on: what it comes back with is what is stored, or nothing.
LEMMA LoadStepKeepsInv ==
  ASSUME PageInv, NEW l \in loads, Poll!ServePoll(l) \/ Poll!ServeUserVote(l)
  PROVE  PageInv'
<1>1. PICK stage \in {"vote", "failed", "loaded"}, got \in {l.got, vote, Unknown} :
        /\ loads' = Poll!Becomes(loads, l, [l EXCEPT !.stage = stage, !.got = got])
        /\ stage = "loaded" => got \in {vote, Unknown}
  <2>1. CASE Poll!ServePoll(l)
    <3>1. PICK stage \in {"vote", "failed"} :
            loads' = Poll!Becomes(loads, l, [l EXCEPT !.stage = stage])
      BY <2>1 DEF Poll!ServePoll
    <3>2. [l EXCEPT !.stage = stage] = [l EXCEPT !.stage = stage, !.got = l.got]
      BY DEF PageInv, PollTypes, Poll!Load
    <3> QED
      BY <3>1, <3>2
  <2>2. CASE Poll!ServeUserVote(l)
    BY <2>2 DEF Poll!ServeUserVote
  <2> QED
    BY <2>1, <2>2
<1>2. UNCHANGED <<vote, page, votesSent, clicks, recent>>
  BY DEF Poll!ServePoll, Poll!ServeUserVote
<1> DEFINE new == [l EXCEPT !.stage = stage, !.got = got]
<1>3. /\ l \in Poll!Load /\ l.got \in {Unknown} \cup Poll!Vote
      /\ vote \in Poll!Vote /\ vote \in recent
      /\ Recent(l)
  BY DEF PageInv, PollTypes, Poll!Load
<1>4. /\ new \in Poll!Load /\ new.id = l.id /\ new.stage = stage /\ new.got = got
  BY <1>3 DEF Poll!Load
<1>5. loads' \subseteq Poll!Load
  BY <1>1, <1>4 DEF PageInv, PollTypes, Poll!Becomes
<1>6. Recent(new)
  BY <1>1, <1>3, <1>4 DEF Recent, Poll!Active
<1>7. \A k \in loads' : Recent(k)
  BY <1>1, <1>6 DEF PageInv, Poll!Becomes
<1> QED
  BY <1>2, <1>5, <1>7 DEF PageInv, PollTypes, Recent, Poll!Active, Poll!ShownVoteIsRecent

\* A load that ends: only that of the page reaches it.
LEMMA ShowKeepsInv ==
  ASSUME PageInv, NEW l \in loads, Poll!Show(l)
  PROVE  PageInv'
<1>1. /\ l \in Poll!Load /\ l.got \in {Unknown} \cup Poll!Vote /\ page \in Pages /\ Recent(l)
  BY DEF PageInv, PollTypes, Poll!Load
<1>2. loads' = loads \ {l} /\ UNCHANGED <<vote, votesSent, clicks, recent>>
  BY DEF Poll!Show
<1>3. page' \in Pages /\ page'.load = page.load
  BY <1>1 DEF Poll!Show, Pages
<1>4. Poll!ShownVoteIsRecent'
  <2>1. CASE Poll!Active(l) /\ l.stage = "loaded"
    BY <1>1, <1>2, <2>1 DEF Poll!Show, Recent, Poll!ShownVoteIsRecent, Pages
  <2>2. CASE Poll!Active(l) /\ l.stage # "loaded"
    BY <1>1, <2>2 DEF Poll!Show, Poll!ShownVoteIsRecent, Pages
  <2>3. CASE ~ Poll!Active(l)
    BY <1>2, <2>3 DEF Poll!Show, PageInv, Poll!ShownVoteIsRecent
  <2> QED
    BY <2>1, <2>2, <2>3
<1> QED
  BY <1>2, <1>3, <1>4 DEF PageInv, PollTypes, Recent, Poll!Active

LEMMA PageInvStep == PageInv /\ [Poll!Next]_(Poll!vars) => PageInv'
<1> SUFFICES ASSUME PageInv, [Poll!Next]_(Poll!vars) PROVE PageInv'
  OBVIOUS
<1>1. CASE UNCHANGED Poll!vars
  BY <1>1 DEF Poll!vars, PageInv, PollTypes, Recent, Poll!Active, Poll!ShownVoteIsRecent
<1>2. CASE Poll!SubmitVote
  BY <1>2, SendKeepsInv DEF Poll!SubmitVote
<1>3. CASE Poll!RemoveVote
  BY <1>3, SendKeepsInv DEF Poll!RemoveVote, Poll!Vote
<1>4. CASE Poll!OpenAgain
  BY <1>4, OpenAgainKeepsInv
<1>5. ASSUME NEW q \in votesSent, Poll!ServeVote(q) \/ Poll!Disconnect(q)
                                  \/ Poll!Saved(q) \/ Poll!RevertVote(q)
      PROVE  PageInv'
  BY <1>5, RequestStepKeepsInv
<1>6. ASSUME NEW l \in loads, Poll!ServePoll(l) \/ Poll!ServeUserVote(l) PROVE PageInv'
  BY <1>6, LoadStepKeepsInv
<1>7. ASSUME NEW l \in loads, Poll!Show(l) PROVE PageInv'
  BY <1>7, ShowKeepsInv
<1> QED
  BY <1>1, <1>2, <1>3, <1>4, <1>5, <1>6, <1>7 DEF Poll!Next

\* The vote a page shows is never from before its load, however many loads and
\* requests of PollPage.tsx are under way.
THEOREM ShownVoteCorrect == MCSpec => []ShownVoteIsRecent
<1>1. MCInit => PageInv
  BY PageInvInit DEF MCInit
<1>2. PageInv /\ [MCNext]_<<part, vars, pageVars>> => PageInv'
  <2>1. UNCHANGED pageVars => UNCHANGED Poll!vars
    BY DEF pageVars, Poll!vars
  <2> QED
    BY <2>1, PageInvStep DEF MCNext
<1>3. PageInv => ShownVoteIsRecent
  BY DEF PageInv, ShownVoteIsRecent
<1> QED
  BY <1>1, <1>2, <1>3, PTL DEF MCSpec
=============================================================================
