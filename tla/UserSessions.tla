---------------------------- MODULE UserSessions -----------------------------
(***************************************************************************)
(* The sessions of the user service: Register and Login, RefreshToken,     *)
(* Logout and LogoutAll over the table refresh_sessions.                   *)
(*                                                                         *)
(* A session is issued by one request and named by it; its refresh token   *)
(* names it in turn.  RefreshToken reads the session before its            *)
(* transaction and revokes it inside; the UPDATE waits for the row if      *)
(* another transaction revoked it and has not committed, and then counts   *)
(* the rows it found not revoked.  LogoutAll sees the sessions that were   *)
(* live when its UPDATE began, not those that are issued meanwhile.        *)
(***************************************************************************)
CONSTANTS
  Users,
  Logins, Refreshes, Logouts, LogoutAlls,  \* the requests, by kind
  None                                     \* no session

Requests == Logins \cup Refreshes \cup Logouts \cup LogoutAlls
Sessions == Logins \cup Refreshes

\* A request is of one kind.
ASSUME SessionsAssumption ==
  /\ Logins \cap Refreshes = {}
  /\ Logouts \cap Sessions = {}
  /\ LogoutAlls \cap (Sessions \cup Logouts) = {}
  /\ None \notin Sessions

VARIABLES
  sessions,  \* [Sessions -> "none", "live" or "revoked"]: the committed rows
  pc,        \* [Requests -> stage of the request]
  user,      \* [Requests -> the user who calls]
  token,     \* [Requests -> the session its refresh token names, or None]
  snap       \* [Requests -> the sessions its UPDATE of many rows is to revoke]

vars == <<sessions, pc, user, token, snap>>

Stages == {"read", "revoke", "issue", "update"}

Live(s) == sessions[s] = "live"

LiveOf(u) == {s \in Sessions : Live(s) /\ user[s] = u}

\* A RefreshToken holds the row of the session it revoked until it commits.
Holds(q, s) == pc[q] = "issue" /\ token[q] = s
Free(s) == \A q \in Refreshes : ~ Holds(q, s)

Goto(r, stage) == pc' = [pc EXCEPT ![r] = stage]

-----------------------------------------------------------------------------
Init ==
  /\ sessions = [s \in Sessions |-> "none"]
  /\ pc = [r \in Requests |-> "idle"]
  /\ user \in [Requests -> Users]
  /\ token = [r \in Requests |-> None]
  /\ snap = [r \in Requests |-> {}]

\* Login and Register: one INSERT, or one in the transaction that creates the
\* account, issues a session.
Login(r) ==
  /\ r \in Logins /\ pc[r] = "idle"
  /\ sessions' = [sessions EXCEPT ![r] = "live"]
  /\ Goto(r, "done")
  /\ UNCHANGED <<user, token, snap>>

\* RefreshToken and Logout, with the token of some session of the user, of now
\* or of before.
CallWithToken(r, s) ==
  /\ r \in Refreshes \cup Logouts /\ pc[r] = "idle"
  /\ sessions[s] # "none" /\ user[s] = user[r]
  /\ token' = [token EXCEPT ![r] = s]
  /\ Goto(r, IF r \in Refreshes THEN "read" ELSE "update")
  /\ UNCHANGED <<sessions, user, snap>>

\* RefreshToken reads the session and refuses one that is revoked.
GetByTokenHash(r) ==
  /\ pc[r] = "read"
  /\ Goto(r, IF Live(token[r]) THEN "revoke" ELSE "failed")
  /\ UNCHANGED <<sessions, user, token, snap>>

\* Mutants of RevokeByID: the UPDATE has no revoked_at IS NULL; it does not
\* take the row's lock into account.
RevokeByIDAgain(r) ==
  /\ pc[r] = "revoke" /\ Free(token[r])
  /\ Goto(r, "issue")
  /\ UNCHANGED <<sessions, user, token, snap>>

RevokeByIDUnlocked(r) ==
  /\ pc[r] = "revoke"
  /\ Goto(r, IF Live(token[r]) THEN "issue" ELSE "failed")
  /\ UNCHANGED <<sessions, user, token, snap>>

\* Its transaction revokes the session, once nobody else holds the row; if the
\* session is revoked by then, no row is affected and it rolls back.
RevokeByID(r) ==
  /\ pc[r] = "revoke" /\ Free(token[r])
  /\ Goto(r, IF Live(token[r]) THEN "issue" ELSE "failed")
  /\ UNCHANGED <<sessions, user, token, snap>>

\* It issues the new session and commits.
IssueTokens(r) ==
  /\ pc[r] = "issue"
  /\ sessions' = [sessions EXCEPT ![token[r]] = "revoked", ![r] = "live"]
  /\ Goto(r, "done")
  /\ UNCHANGED <<user, token, snap>>

\* Logout: the same UPDATE, alone; it fails if the session is revoked.
Logout(r) ==
  /\ r \in Logouts /\ pc[r] = "update" /\ Free(token[r])
  /\ sessions' = [sessions EXCEPT ![token[r]] = "revoked"]
  /\ Goto(r, IF Live(token[r]) THEN "done" ELSE "failed")
  /\ UNCHANGED <<user, token, snap>>

\* LogoutAll, the snapshot of its UPDATE.
CallLogoutAll(r) ==
  /\ r \in LogoutAlls /\ pc[r] = "idle"
  /\ snap' = [snap EXCEPT ![r] = LiveOf(user[r])]
  /\ Goto(r, "update")
  /\ UNCHANGED <<sessions, user, token>>

\* Mutant of LogoutAll: rows that are locked are skipped.
LogoutAllSkipLocked(r) ==
  /\ r \in LogoutAlls /\ pc[r] = "update"
  /\ sessions' = [s \in Sessions |->
       IF s \in snap[r] /\ Free(s) THEN "revoked" ELSE sessions[s]]
  /\ Goto(r, "done")
  /\ UNCHANGED <<user, token, snap>>

\* LogoutAll, the rows, once nobody holds one of them.
LogoutAll(r) ==
  /\ r \in LogoutAlls /\ pc[r] = "update"
  /\ \A s \in snap[r] : Free(s)
  /\ sessions' = [s \in Sessions |-> IF s \in snap[r] THEN "revoked" ELSE sessions[s]]
  /\ Goto(r, "done")
  /\ UNCHANGED <<user, token, snap>>

\* Any call inside a request may fail, the session may have expired, or the
\* process may end; a transaction is rolled back.
Rollback(r) ==
  /\ pc[r] \in Stages
  /\ Goto(r, "failed")
  /\ UNCHANGED <<sessions, user, token, snap>>

Progress(r) ==
  GetByTokenHash(r) \/ RevokeByID(r) \/ IssueTokens(r) \/ Logout(r) \/ LogoutAll(r)

Next ==
  \/ \E r \in Logins : Login(r)
  \/ \E r \in Refreshes \cup Logouts, s \in Sessions : CallWithToken(r, s)
  \/ \E r \in LogoutAlls : CallLogoutAll(r)
  \/ \E r \in Requests : Progress(r) \/ Rollback(r)

Spec == Init /\ [][Next]_vars

-----------------------------------------------------------------------------
\* Each variable holds a value of its kind; a LogoutAll is about sessions of
\* its own user.
TypeOK ==
  /\ sessions \in [Sessions -> {"none", "live", "revoked"}]
  /\ pc \in [Requests -> Stages \cup {"idle", "done", "failed"}]
  /\ user \in [Requests -> Users]
  /\ token \in [Requests -> Sessions \cup {None}]
  /\ snap \in [Requests -> SUBSET Sessions]
  /\ \A r \in Requests : \A s \in snap[r] : user[s] = user[r]

\* RefreshToken r exchanged session s for a new one.
Exchanged(r, s) == r \in Refreshes /\ pc[r] = "done" /\ token[r] = s

\* However many RefreshToken calls race with one token, one at the most is
\* given a new session, and the old one is revoked (RevokeByID counts rows).
OneSuccessor ==
  \A q, r \in Refreshes, s \in Sessions :
    Exchanged(q, s) /\ Exchanged(r, s) => q = r

\* A Logout that was answered without an error has ended the session and not a
\* predecessor of a live one: no RefreshToken, before it or after, exchanged it.
LogoutEndsChain ==
  \A r \in Logouts : pc[r] = "done" =>
    /\ sessions[token[r]] = "revoked"
    /\ \A q \in Refreshes : ~ Exchanged(q, token[r])

\* A session ends once, in an exchange or in a logout, whoever races for its
\* row: a token is worth one new session or none.
EndsOnce == OneSuccessor /\ LogoutEndsChain

\* Once a LogoutAll is answered, no session that was live when it began is live
\* or about to be exchanged: what lives on was issued while it ran or later.
LogoutAllHolds ==
  \A r \in LogoutAlls : pc[r] = "done" =>
    \A s \in snap[r] : sessions[s] = "revoked" /\ Free(s)

\* The sessions of the abstract specification are the committed rows.
Ledger == INSTANCE SessionLedger WITH
            live <- {s \in Sessions : sessions[s] = "live"},
            ended <- {s \in Sessions : sessions[s] = "revoked"}

\* The service implements the ledger: a step issues a session, exchanges one
\* that is live for a new one, ends live ones, or does none of it.
ImplementsSessions == Ledger!Spec

\* The invariant behind the four above, strong enough to be inductive.

\* A stage is reached by the requests that have it, with a token if they take
\* one; a session is there once the request that issues it is done.
StagesOfKinds ==
  /\ \A r \in Logins : pc[r] \notin Stages
  /\ \A r \in Logouts \cup LogoutAlls : pc[r] \notin {"read", "revoke", "issue"}
  /\ \A r \in Refreshes : pc[r] # "update"
  /\ \A r \in Refreshes \cup Logouts : pc[r] \in Stages \cup {"done"} =>
       token[r] \in Sessions /\ sessions[token[r]] # "none"
  /\ \A s \in Sessions : sessions[s] # "none" <=> pc[s] = "done"
  /\ \A r \in Requests : \A s \in snap[r] : sessions[s] # "none"

\* The session a RefreshToken is about to exchange is live, and nobody else is
\* about to exchange it; one that was exchanged is revoked.
HeldIsLive ==
  /\ \A r \in Refreshes : pc[r] = "issue" => Live(token[r])
  /\ \A q, r \in Refreshes, s \in Sessions : Holds(q, s) /\ Holds(r, s) => q = r
  /\ \A r \in Refreshes : pc[r] = "done" => sessions[token[r]] = "revoked"

SessionsInv ==
  /\ TypeOK
  /\ StagesOfKinds
  /\ HeldIsLive
  /\ OneSuccessor
  /\ LogoutEndsChain
  /\ LogoutAllHolds
=============================================================================
