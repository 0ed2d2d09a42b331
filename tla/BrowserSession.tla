--------------------------- MODULE BrowserSession ---------------------------
(***************************************************************************)
(* The login session as the browser keeps it: front/src/api/client.ts      *)
(* sends requests with the stored access token, exchanges an expired one   *)
(* at /v1/auth/refresh and sends the request once more;                    *)
(* front/src/auth/AuthContext.tsx keeps the tokens in localStorage, which  *)
(* every tab of the browser shares, and in the React state of each tab.    *)
(* The gateway and user-service answer with what jwt/manager.go and        *)
(* auth_service.go decide.                                                 *)
(*                                                                         *)
(* A session stands for its pair of tokens; 0 is "no tokens".  An access   *)
(* token is good until it expires, whatever becomes of its session; a      *)
(* refresh token is good while its session is live.  React may run an      *)
(* update of the state at once or only when it renders: both are modelled. *)
(*                                                                         *)
(* The browser belongs to one person, who fills in one e-mail address: the *)
(* account that has it is there or not.                                    *)
(***************************************************************************)
EXTENDS Naturals, FiniteSets, Sequences

CONSTANTS Tabs,         \* the tabs of one browser
          Requests,     \* the requests its pages make
          MaxSessions,  \* bound: the sessions logins and refreshes create
          MaxFaults     \* bound: the requests or answers the network loses

ASSUME BrowserAssumption == Tabs # {} /\ MaxSessions \in Nat \ {0} /\ MaxFaults \in Nat

Sessions == 1 .. MaxSessions
Tokens == 0 .. MaxSessions
Disturbances == {"overlap", "staleTab", "loginAgain", "expiredAgain", "fault", "deferred"}

(* The methods of ApiClient: those of the session by name, "plain" for the *)
(* others that are sent with auth.  What is sent without it is never       *)
(* refused for its token and has no part in the session.                   *)
Forms == {"login", "register"}
Kinds == Forms \union {"me", "edit", "plain", "logout"}

VARIABLES
  session,    \* session[s]: "none", "live" or "revoked", in user-service
  account,    \* whether there is an account of the e-mail address
  valid,      \* the sessions whose access token has not expired
  stored,     \* localStorage: the tokens every tab reads
  state,      \* state[t]: the tokens in the React state of tab t
  queue,      \* queue[t]: the updates of that state waiting for a render
  request,    \* request[r]: where the request is and what it carries
  effects,    \* effects[r]: how often the server carried it out
  faults,     \* how many messages were lost so far
  used,       \* the tabs that made a request so far
  disturbed   \* what happened of the Disturbances

vars == <<session, account, valid, stored, state, queue, request, effects, faults, used,
          disturbed>>
serverVars == <<session, account, valid, effects>>

Live == {s \in Sessions : session[s] = "live"}
Fresh == {s \in Sessions : session[s] = "none"}
Busy == {r \in Requests : request[r].stage \notin {"new", "done"}}

New == [stage |-> "new", kind |-> "plain", tab |-> CHOOSE t \in Tabs : TRUE,
        sent |-> 0, body |-> 0, retried |-> FALSE, got |-> "none", issued |-> 0]

(* The pages open: localStorage holds nothing, or a live session of an     *)
(* earlier visit, whose access token may have expired since.               *)
Init ==
  /\ stored \in {0, 1}
  /\ session = [s \in Sessions |-> IF s = stored THEN "live" ELSE "none"]
  /\ account \in BOOLEAN /\ (stored # 0 => account)
  /\ valid \in SUBSET Live
  /\ state = [t \in Tabs |-> stored]
  /\ queue = [t \in Tabs |-> <<>>]
  /\ request = [r \in Requests |-> New]
  /\ effects = [r \in Requests |-> 0]
  /\ faults = 0
  /\ used = {}
  /\ disturbed = {}

-----------------------------------------------------------------------------
(* AuthContext: updates of the React state that also write localStorage.   *)

(* What an update makes of the tokens in the state: setTokens replaces     *)
(* them, setMe keeps them, clearSession empties them.                      *)
SetTokens(s) == [call |-> "setTokens", tokens |-> s]
SetMe == [call |-> "setMe", tokens |-> 0]
ClearSession == [call |-> "clearSession", tokens |-> 0]
Updated(u, current) == IF u.call = "setMe" THEN current ELSE u.tokens

(* What running the update leaves in localStorage: the updaters of         *)
(* setTokens and setMe write what they return; clearSession wrote when it  *)
(* was called, and setting the state writes nothing more.                  *)
Written(u, current, storage) ==
  IF u.call = "clearSession" THEN storage ELSE Updated(u, current)

(* The call itself: clearSession's persist writes at once.                 *)
\* Mutant of CallWrites: the session is cleared in the React state alone.
WritesNothing(u) == stored
CallWrites(u) == IF u.call = "clearSession" THEN 0 ELSE stored

RunNow(t, u) ==
  /\ queue[t] = <<>>
  /\ state' = [state EXCEPT ![t] = Updated(u, @)]
  /\ stored' = Written(u, state[t], CallWrites(u))
  /\ UNCHANGED <<queue, disturbed>>

RunAtRender(t, u) ==
  /\ queue' = [queue EXCEPT ![t] = Append(@, u)]
  /\ stored' = CallWrites(u)
  /\ disturbed' = disturbed \union {"deferred"}
  /\ UNCHANGED state

SetSession(t, u) == RunNow(t, u) \/ RunAtRender(t, u)

KeepSession == UNCHANGED <<stored, state, queue, disturbed>>

(* React renders the tab: the waiting updates run, in the order of calls.  *)
Render(t) ==
  /\ queue[t] # <<>>
  /\ state' = [state EXCEPT ![t] = Updated(Head(queue[t]), @)]
  /\ stored' = Written(Head(queue[t]), state[t], stored)
  /\ queue' = [queue EXCEPT ![t] = Tail(@)]
  /\ UNCHANGED <<serverVars, request, faults, used, disturbed>>

(* A reload builds the state from localStorage; what the page awaited is   *)
(* gone with it, so only a tab with nothing on the way reloads here.       *)
Reload(t) ==
  /\ \A r \in Busy : request[r].tab # t
  /\ queue[t] = <<>>
  /\ state[t] # stored
  /\ state' = [state EXCEPT ![t] = stored]
  /\ UNCHANGED <<serverVars, stored, queue, request, faults, used, disturbed>>
-----------------------------------------------------------------------------
(* ApiClient.request in a tab.  A message on the network is the stage of   *)
(* the request that waits for it.                                          *)

Happened(t, k) ==
  {h \in {"overlap", "staleTab", "loginAgain"} :
     \/ h = "overlap" /\ Busy # {}
     \/ h = "staleTab" /\ state[t] # stored
     \/ h = "loginAgain" /\ k \in Forms /\ stored # 0}

(* The form of the profile and the button to log out are shown by a tab    *)
(* with a session in its state.                                            *)
Shown(t, k) == k \in {"edit", "logout"} => state[t] # 0

(* A page of tab t calls the API: the request carries the stored access    *)
(* token, a logout the stored refresh token as well.  loadMe asks nothing  *)
(* without a token.  After a login AuthPage calls loadMe, like Layout with *)
(* every page: one of these calls.                                         *)
Call(t, r, k) ==
  /\ request[r].stage = "new"
  /\ k \in {"me", "logout"} => stored # 0
  /\ Shown(t, k)
  /\ request' = [request EXCEPT ![r] =
       [New EXCEPT !.stage = "sent", !.kind = k, !.tab = t,
                   !.sent = IF k \in Forms THEN 0 ELSE stored,
                   !.body = IF k = "logout" THEN stored ELSE 0]]
  /\ used' = used \union {t}
  /\ disturbed' = disturbed \union Happened(t, k)
  /\ UNCHANGED <<serverVars, stored, state, queue, faults>>

(* Logging out of a tab that finds no refresh token only clears the tab.   *)
(* Bound: it does so when no update waits, or the queue could grow.        *)
ClearOnly(t) ==
  /\ stored = 0
  /\ queue[t] = <<>>
  /\ state[t] # 0
  /\ SetSession(t, ClearSession)
  /\ UNCHANGED <<serverVars, request, faults, used>>

Refused(r) == request[r].got = "unauthorized"
\* Mutant of Refreshes: any failure is answered with a refresh and a retry.
RefreshesOnFailure(r) == request[r].got # "ok" /\ request[r].sent # 0 /\ ~request[r].retried

Refreshes(r) == Refused(r) /\ request[r].sent # 0 /\ ~request[r].retried

AskRefresh(r) ==
  /\ request[r].stage = "answered"
  /\ Refreshes(r)
  /\ request' = [request EXCEPT ![r].stage = "refreshing"]
  /\ UNCHANGED <<serverVars, faults, used>>
  /\ KeepSession

(* What the pages do to the session with the outcome of their requests.    *)
HandleSubmit(q) ==
  IF q.got = "ok" THEN SetSession(q.tab, SetTokens(q.issued)) ELSE KeepSession

\* Mutant of LoadMe: me is set beside the tokens its request was sent with.
LoadMeOverSent(q) ==
  SetSession(q.tab, IF q.got = "ok" THEN SetTokens(q.sent) ELSE ClearSession)

LoadMe(q) == SetSession(q.tab, IF q.got = "ok" THEN SetMe ELSE ClearSession)

\* Mutant of SubmitProfile: a refused profile clears the session, like loadMe.
SubmitProfileOrClear(q) ==
  SetSession(q.tab, IF q.got = "ok" THEN SetMe ELSE ClearSession)

SubmitProfile(q) == IF q.got = "ok" THEN SetSession(q.tab, SetMe) ELSE KeepSession
Logout(q) == SetSession(q.tab, ClearSession)

Outcome(q) ==
  CASE q.kind \in Forms -> HandleSubmit(q)
    [] q.kind = "me" -> LoadMe(q)
    [] q.kind = "edit" -> SubmitProfile(q)
    [] q.kind = "logout" -> Logout(q)
    [] q.kind = "plain" -> KeepSession

Finish(r) ==
  /\ request[r].stage = "answered"
  /\ ~Refreshes(r)
  /\ Outcome(request[r])
  /\ request' = [request EXCEPT ![r].stage = "done"]
  /\ UNCHANGED <<serverVars, faults, used>>

(* The refresh is answered: the tokens are stored and the request is sent  *)
(* once more with what localStorage then holds.                            *)
Resend(r) ==
  /\ request[r].stage = "exchanged"
  /\ request[r].issued # 0
  /\ SetSession(request[r].tab, SetTokens(request[r].issued))
  /\ request' = [request EXCEPT ![r] = [@ EXCEPT !.stage = "sent", !.sent = stored',
                                                 !.retried = TRUE]]
  /\ UNCHANGED <<serverVars, faults, used>>

(* The refresh failed: the session is cleared and the refusal is thrown.   *)
(* A me or a logout that sees it clears the session again, to no effect.   *)
GiveUp(r) ==
  /\ request[r].stage = "exchanged"
  /\ request[r].issued = 0
  /\ SetSession(request[r].tab, ClearSession)
  /\ request' = [request EXCEPT ![r].stage = "done"]
  /\ UNCHANGED <<serverVars, faults, used>>

-----------------------------------------------------------------------------
(* The gateway and user-service.                                           *)

Issue == CHOOSE s \in Fresh : TRUE
Reply(r, answer, tokens) ==
  request' = [request EXCEPT ![r] = [@ EXCEPT !.stage = "answered", !.got = answer,
                                              !.issued = tokens]]

Authorised(r) == request[r].sent \in valid

IssueTokens(r) ==
  /\ Fresh # {}
  /\ session' = [session EXCEPT ![Issue] = "live"]
  /\ valid' = valid \union {Issue}
  /\ Reply(r, "ok", Issue)

(* What the table users answers.                                           *)
GetByEmail == account
ExistsByEmail == account

(* Without an account, or with a wrong password, the credentials are       *)
(* invalid.                                                                *)
Login(r) ==
  /\ request[r].stage = "sent" /\ request[r].kind = "login"
  /\ \/ GetByEmail /\ IssueTokens(r)
     \/ Reply(r, "unauthorized", 0) /\ UNCHANGED <<session, valid>>
  /\ UNCHANGED <<account, effects, faults, used>>
  /\ KeepSession

(* ExistsByEmail and ExistsByNickname, before the transaction.             *)
RegisterChecks(r) ==
  /\ request[r].stage = "sent" /\ request[r].kind = "register"
  /\ IF ExistsByEmail THEN Reply(r, "failed", 0)
     ELSE request' = [request EXCEPT ![r].stage = "creating"]
  /\ UNCHANGED <<serverVars, faults, used>>
  /\ KeepSession

(* INSERT, unless it violates users_email_key.                             *)
CreateUser == ~account /\ account' = TRUE

(* The transaction creates the account and its first session.  If somebody *)
(* created it meanwhile, nothing is committed.                             *)
RegisterCreates(r) ==
  /\ request[r].stage = "creating"
  /\ \/ /\ CreateUser
        /\ IssueTokens(r)
        /\ effects' = [effects EXCEPT ![r] = @ + 1]
     \/ /\ account
        /\ Reply(r, "failed", 0)
        /\ UNCHANGED serverVars
  /\ UNCHANGED <<faults, used>>
  /\ KeepSession

(* The interceptor refuses an expired or missing access token, and does    *)
(* not ask whether its session has been revoked.                           *)
Refuse(r) ==
  /\ request[r].stage = "sent" /\ request[r].kind \notin Forms
  /\ ~Authorised(r)
  /\ Reply(r, "unauthorized", 0)
  /\ UNCHANGED <<serverVars, faults, used>>
  /\ KeepSession

Admit(r, k) == request[r].stage = "sent" /\ request[r].kind = k /\ Authorised(r)

CarryOut(r) ==
  /\ effects' = [effects EXCEPT ![r] = @ + 1]
  /\ Reply(r, "ok", 0)

GetMyUser(r) ==
  /\ Admit(r, "me")
  /\ CarryOut(r)
  /\ UNCHANGED <<session, account, valid, faults, used>>
  /\ KeepSession

ServePlain(r) ==
  /\ Admit(r, "plain")
  /\ CarryOut(r)
  /\ UNCHANGED <<session, account, valid, faults, used>>
  /\ KeepSession

(* One UPDATE of the account; the new address or nickname may be taken.    *)
Update(r) == CarryOut(r) \/ (UNCHANGED effects /\ Reply(r, "failed", 0))

(* What the form left empty or impossible is refused before.  The account  *)
(* keeps the address of the forms: bound.                                  *)
UpdateUser(r) ==
  /\ Admit(r, "edit")
  /\ Update(r)
  /\ UNCHANGED <<session, account, valid, faults, used>>
  /\ KeepSession

(* RevokeByID fails with "not found" for a session revoked before.         *)
ServeLogout(r) ==
  /\ Admit(r, "logout")
  /\ IF session[request[r].body] = "live"
     THEN session' = [session EXCEPT ![request[r].body] = "revoked"] /\ Reply(r, "ok", 0)
     ELSE UNCHANGED session /\ Reply(r, "failed", 0)
  /\ UNCHANGED <<account, valid, effects, faults, used>>
  /\ KeepSession

Exchange(r) ==
  /\ request[r].stage = "refreshing"
  /\ IF session[request[r].sent] = "live"
     THEN /\ Fresh # {}
          /\ session' = [session EXCEPT ![request[r].sent] = "revoked", ![Issue] = "live"]
          /\ valid' = valid \union {Issue}
          /\ request' = [request EXCEPT ![r] = [@ EXCEPT !.stage = "exchanged", !.issued = Issue]]
     ELSE /\ request' = [request EXCEPT ![r].stage = "exchanged"]
          /\ UNCHANGED <<session, valid>>
  /\ UNCHANGED <<account, effects, faults, used>>
  /\ KeepSession

(* An access token lives for minutes; that a fresh one expires before the  *)
(* request that is sent again with it arrives is recorded.                 *)
Expire(s) ==
  /\ s \in valid
  /\ valid' = valid \ {s}
  /\ disturbed' = disturbed \union
       {h \in {"expiredAgain"} : \E r \in Busy : request[r].issued = s}
  /\ UNCHANGED <<session, account, stored, state, queue, request, effects, faults, used>>

(* The network loses a request or its answer, and fetch throws.            *)
Lose(r) ==
  /\ faults < MaxFaults
  /\ \/ /\ request[r].stage \in {"sent", "creating", "answered"}
        /\ Reply(r, "failed", 0)
     \/ /\ request[r].stage \in {"refreshing", "exchanged"}
        /\ request' = [request EXCEPT ![r] = [@ EXCEPT !.stage = "exchanged", !.issued = 0]]
  /\ faults' = faults + 1
  /\ disturbed' = disturbed \union {"fault"}
  /\ UNCHANGED <<serverVars, stored, state, queue, used>>

Page(t) == Render(t) \/ Reload(t) \/ ClearOnly(t)
Client(r) == AskRefresh(r) \/ Finish(r) \/ Resend(r) \/ GiveUp(r)
Server(r) ==
  \/ Login(r) \/ RegisterChecks(r) \/ RegisterCreates(r)
  \/ Refuse(r) \/ GetMyUser(r) \/ ServePlain(r) \/ UpdateUser(r) \/ ServeLogout(r)
  \/ Exchange(r)

Next ==
  \/ \E t \in Tabs : Page(t)
  \/ \E t \in Tabs, r \in Requests, k \in Kinds : Call(t, r, k)
  \/ \E r \in Requests : Client(r) \/ Server(r) \/ Lose(r)
  \/ \E s \in Sessions : Expire(s)

Spec == Init /\ [][Next]_vars

-----------------------------------------------------------------------------
(* Properties. *)

TypeOK ==
  /\ session \in [Sessions -> {"none", "live", "revoked"}]
  /\ account \in BOOLEAN /\ valid \subseteq Sessions
  /\ stored \in Tokens
  /\ state \in [Tabs -> Tokens]
  /\ \A t \in Tabs : \A i \in DOMAIN queue[t] :
       queue[t][i] \in [call : {"setTokens", "setMe", "clearSession"}, tokens : Tokens]
  /\ request \in [Requests ->
       [stage : {"new", "sent", "creating", "answered", "refreshing", "exchanged", "done"},
        kind : Kinds, tab : Tabs, sent : Tokens, body : Tokens, retried : BOOLEAN,
        got : {"none", "ok", "unauthorized", "failed"}, issued : Tokens]]
  /\ effects \in [Requests -> Nat]
  /\ faults \in 0 .. MaxFaults
  /\ used \subseteq Tabs
  /\ disturbed \subseteq Disturbances

(* However its token expires, is exchanged and the request is sent again,  *)
(* and whatever the network loses, the server carries out a page's request *)
(* at most once, and not at all when the page is told that it was refused  *)
(* (client.ts sends again only what was refused, and only once).  However  *)
(* often and from wherever the form is sent, one account is registered     *)
(* (auth_service.go Register checks before its transaction).               *)
RequestTakesEffectOnce ==
  /\ \A r \in Requests :
       /\ effects[r] <= 1
       /\ request[r].stage = "done" /\ Refused(r) => effects[r] = 0
  /\ \A q, r \in Requests :
       /\ effects[q] > 0 /\ request[q].kind = "register"
       /\ effects[r] > 0 /\ request[r].kind = "register"
       => q = r

LeftByLogout == {request[r].sent : r \in {r \in Requests : /\ request[r].stage = "done"
                                                           /\ request[r].kind = "logout"
                                                           /\ request[r].retried}}
Settled == Busy = {} /\ \A t \in Tabs : queue[t] = <<>>

(* A browser that makes its requests one after another, from tabs that     *)
(* show the stored session, without logging in twice, over a network that  *)
(* loses nothing and outlives no fresh token, and whose React runs the     *)
(* updates at once, holds the one session that is live: user-service keeps *)
(* no other session of it alive and the browser no session that is         *)
(* revoked.  The exception is a logout whose access token                  *)
(* had expired: it refreshes first and then revokes the session it knew    *)
(* when it began, so the one the refresh created stays live                *)
(* (AuthContext.tsx logout, client.ts request).                            *)
CalmBrowserHoldsItsSession ==
  Settled /\ disturbed = {} =>
    /\ Live \subseteq {stored} \union LeftByLogout
    /\ stored # 0 => stored \in Live

(* A step stores a live session, or none, or what it found stored.        *)
StoresLive ==
  Cardinality(used) <= 1 /\ "deferred" \notin disturbed' =>
    stored' \in {stored, 0} \union Live'

(* While only one tab makes requests and React runs the updates at once,   *)
(* localStorage changes only to a live session or to none, however the     *)
(* tab's requests overlap and whatever the network loses: no update of the *)
(* user or late answer brings back tokens that were exchanged or logged    *)
(* out (AuthContext.tsx setMe keeps the tokens of the current state).      *)
OneTabStoresLive == [][StoresLive]_vars

(* The three ways to lose a session that user-service keeps: a logout; a   *)
(* request whose refresh came second, for a token that was exchanged; and  *)
(* a tab that shows no session and sets its user beside none.              *)
LogsOut(r) == request[r].kind = "logout"
CameSecond(r) ==
  /\ request[r].stage = "exchanged"
  /\ request[r].sent # stored /\ session[request[r].sent] = "revoked"
ShowsNone(r) ==
  /\ request[r].kind \in {"me", "edit"} /\ request[r].got = "ok"
  /\ state[request[r].tab] = 0

DropsLive ==
  /\ stored \in Live /\ stored' = 0
  /\ disturbed' \intersect {"fault", "expiredAgain", "deferred"} = {}
  => \E r \in Busy : request'[r].stage = "done" /\ (LogsOut(r) \/ CameSecond(r) \/ ShowsNone(r))

(* While the network loses nothing and outlives no fresh token, and React  *)
(* runs the updates at once, the browser forgets a live session in those   *)
(* three ways alone, whatever else its tabs and requests do (client.ts     *)
(* refreshSession clears the session whoever holds it, AuthContext.tsx     *)
(* loadMe and setMe write what their tab shows).                           *)
LiveSessionDropped == [][DropsLive]_vars
=============================================================================
