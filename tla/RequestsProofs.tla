--------------------------- MODULE RequestsProofs ----------------------------
(***************************************************************************)
(* Proofs about what users ask of the user service and of the poll service *)
(* (MCRequests), for any users, requests and forms.                        *)
(***************************************************************************)
EXTENDS MCRequests, SequenceTheorems, FiniteSetTheorems, WellFoundedInduction, TLAPS

-----------------------------------------------------------------------------
(* Sessions (UserSessions): the type invariant, the inductive invariant and  *)
(* what it implies, and that the service implements SessionLedger.           *)

LEMMA InvInit == Init => SessionsInv
  BY SessionsAssumption
  DEF Init, SessionsInv, TypeOK, StagesOfKinds, HeldIsLive, Holds, Free, Exchanged,
      OneSuccessor, LogoutEndsChain, LogoutAllHolds, Requests, Sessions, Stages

\* A step keeps the types, given those of the tokens.
LEMMA TypeStep ==
  ASSUME TypeOK, StagesOfKinds, [Next]_vars
  PROVE  TypeOK'
<1> USE SessionsAssumption DEF TypeOK, Requests, Sessions, Stages, Goto
<1>1. CASE UNCHANGED vars
  BY <1>1 DEF vars
<1>2. ASSUME NEW r \in Logins, Login(r) PROVE TypeOK'
  BY <1>2 DEF Login
<1>3. ASSUME NEW r \in Refreshes \cup Logouts, NEW s \in Sessions, CallWithToken(r, s)
      PROVE  TypeOK'
  BY <1>3 DEF CallWithToken
<1>4. ASSUME NEW r \in LogoutAlls, CallLogoutAll(r) PROVE TypeOK'
  BY <1>4 DEF CallLogoutAll, LiveOf
<1>5. ASSUME NEW r \in Requests, Progress(r) PROVE TypeOK'
  <2>1. CASE GetByTokenHash(r)
    BY <2>1 DEF GetByTokenHash
  <2>2. CASE RevokeByID(r)
    BY <2>2 DEF RevokeByID
  <2>3. CASE IssueTokens(r)
    BY <2>3 DEF IssueTokens
  <2>4. CASE Logout(r)
    BY <2>4 DEF Logout
  <2>5. CASE LogoutAll(r)
    BY <2>5 DEF LogoutAll
  <2> QED
    BY <1>5, <2>1, <2>2, <2>3, <2>4, <2>5 DEF Progress
<1>6. ASSUME NEW r \in Requests, Rollback(r) PROVE TypeOK'
  BY <1>6 DEF Rollback
<1> QED
  BY <1>1, <1>2, <1>3, <1>4, <1>5, <1>6 DEF Next

\* A step keeps the invariant.
LEMMA InvStep == SessionsInv /\ [Next]_vars => SessionsInv'
<1> SUFFICES ASSUME SessionsInv, [Next]_vars PROVE SessionsInv'
  OBVIOUS
<1> USE SessionsAssumption
    DEF Requests, Sessions, Stages, Goto, Live, Holds, Free, Exchanged
<1> TypeOK /\ StagesOfKinds /\ HeldIsLive /\ OneSuccessor /\ LogoutEndsChain /\ LogoutAllHolds
  BY DEF SessionsInv
<1>type. TypeOK'
  BY TypeStep
<1> SUFFICES /\ StagesOfKinds' /\ HeldIsLive' /\ OneSuccessor'
             /\ LogoutEndsChain' /\ LogoutAllHolds'
  BY <1>type DEF SessionsInv
<1>1. CASE UNCHANGED vars
  BY <1>1 DEF vars, StagesOfKinds, HeldIsLive, OneSuccessor, LogoutEndsChain, LogoutAllHolds
<1>2. ASSUME NEW r \in Logins, Login(r)
      PROVE  /\ StagesOfKinds' /\ HeldIsLive' /\ OneSuccessor'
             /\ LogoutEndsChain' /\ LogoutAllHolds'
  <2>1. StagesOfKinds'
    BY <1>2 DEF Login, TypeOK, StagesOfKinds
  <2>2. HeldIsLive'
    BY <1>2 DEF Login, TypeOK, StagesOfKinds, HeldIsLive
  <2>3. OneSuccessor'
    BY <1>2 DEF Login, TypeOK, OneSuccessor
  <2>4. LogoutEndsChain'
    BY <1>2 DEF Login, TypeOK, StagesOfKinds, LogoutEndsChain
  <2>5. LogoutAllHolds'
    BY <1>2 DEF Login, TypeOK, StagesOfKinds, LogoutAllHolds
  <2> QED
    BY <2>1, <2>2, <2>3, <2>4, <2>5
<1>3. ASSUME NEW r \in Refreshes \cup Logouts, NEW s \in Sessions, CallWithToken(r, s)
      PROVE  /\ StagesOfKinds' /\ HeldIsLive' /\ OneSuccessor'
             /\ LogoutEndsChain' /\ LogoutAllHolds'
  <2>1. StagesOfKinds'
    BY <1>3 DEF CallWithToken, TypeOK, StagesOfKinds
  <2>2. HeldIsLive'
    BY <1>3 DEF CallWithToken, TypeOK, HeldIsLive
  <2>3. OneSuccessor'
    BY <1>3 DEF CallWithToken, TypeOK, OneSuccessor
  <2>4. LogoutEndsChain'
    BY <1>3 DEF CallWithToken, TypeOK, LogoutEndsChain
  <2>5. LogoutAllHolds'
    BY <1>3 DEF CallWithToken, TypeOK, LogoutAllHolds
  <2> QED
    BY <2>1, <2>2, <2>3, <2>4, <2>5
<1>4. ASSUME NEW r \in LogoutAlls, CallLogoutAll(r)
      PROVE  /\ StagesOfKinds' /\ HeldIsLive' /\ OneSuccessor'
             /\ LogoutEndsChain' /\ LogoutAllHolds'
  <2>1. StagesOfKinds'
    BY <1>4 DEF CallLogoutAll, LiveOf, TypeOK, StagesOfKinds
  <2>2. HeldIsLive'
    BY <1>4 DEF CallLogoutAll, TypeOK, HeldIsLive
  <2>3. OneSuccessor'
    BY <1>4 DEF CallLogoutAll, TypeOK, OneSuccessor
  <2>4. LogoutEndsChain'
    BY <1>4 DEF CallLogoutAll, TypeOK, LogoutEndsChain
  <2>5. LogoutAllHolds'
    BY <1>4 DEF CallLogoutAll, TypeOK, LogoutAllHolds
  <2> QED
    BY <2>1, <2>2, <2>3, <2>4, <2>5
<1>5. ASSUME NEW r \in Requests, GetByTokenHash(r) \/ Rollback(r)
      PROVE  /\ StagesOfKinds' /\ HeldIsLive' /\ OneSuccessor'
             /\ LogoutEndsChain' /\ LogoutAllHolds'
  <2>0. /\ UNCHANGED <<sessions, user, token, snap>>
        /\ pc[r] \in Stages
        /\ pc' = [pc EXCEPT ![r] = pc'[r]]
        /\ \/ pc'[r] = "failed"
           \/ pc[r] = "read" /\ pc'[r] = "revoke"
    BY <1>5 DEF GetByTokenHash, Rollback, TypeOK
  <2>1. StagesOfKinds'
    BY <2>0 DEF TypeOK, StagesOfKinds
  <2>2. HeldIsLive'
    BY <2>0 DEF TypeOK, HeldIsLive
  <2>3. OneSuccessor'
    BY <2>0 DEF TypeOK, OneSuccessor
  <2>4. LogoutEndsChain'
    BY <2>0 DEF TypeOK, LogoutEndsChain
  <2>5. LogoutAllHolds'
    BY <2>0 DEF TypeOK, LogoutAllHolds
  <2> QED
    BY <2>1, <2>2, <2>3, <2>4, <2>5
<1>6. ASSUME NEW r \in Requests, RevokeByID(r)
      PROVE  /\ StagesOfKinds' /\ HeldIsLive' /\ OneSuccessor'
             /\ LogoutEndsChain' /\ LogoutAllHolds'
  <2>1. StagesOfKinds'
    BY <1>6 DEF RevokeByID, TypeOK, StagesOfKinds
  <2>2. HeldIsLive'
    BY <1>6 DEF RevokeByID, TypeOK, HeldIsLive
  <2>3. OneSuccessor'
    BY <1>6 DEF RevokeByID, TypeOK, OneSuccessor
  <2>4. LogoutEndsChain'
    BY <1>6 DEF RevokeByID, TypeOK, LogoutEndsChain
  <2>5. LogoutAllHolds'
    BY <1>6 DEF RevokeByID, TypeOK, LogoutAllHolds
  <2> QED
    BY <2>1, <2>2, <2>3, <2>4, <2>5
<1>7. ASSUME NEW r \in Requests, IssueTokens(r)
      PROVE  /\ StagesOfKinds' /\ HeldIsLive' /\ OneSuccessor'
             /\ LogoutEndsChain' /\ LogoutAllHolds'
  <2>0. r \in Refreshes /\ token[r] \in Sessions /\ Live(token[r])
        /\ sessions[r] = "none" /\ token[r] # r
    BY <1>7 DEF IssueTokens, TypeOK, StagesOfKinds, HeldIsLive
  <2>1. StagesOfKinds'
    BY <1>7, <2>0 DEF IssueTokens, TypeOK, StagesOfKinds
  <2>2. HeldIsLive'
    BY <1>7, <2>0 DEF IssueTokens, TypeOK, StagesOfKinds, HeldIsLive
  <2>3. OneSuccessor'
    BY <1>7, <2>0 DEF IssueTokens, TypeOK, HeldIsLive, OneSuccessor
  <2>4. LogoutEndsChain'
    BY <1>7, <2>0 DEF IssueTokens, TypeOK, StagesOfKinds, LogoutEndsChain
  <2>5. LogoutAllHolds'
    BY <1>7, <2>0 DEF IssueTokens, TypeOK, StagesOfKinds, LogoutAllHolds
  <2> QED
    BY <2>1, <2>2, <2>3, <2>4, <2>5
<1>8. ASSUME NEW r \in Requests, Logout(r)
      PROVE  /\ StagesOfKinds' /\ HeldIsLive' /\ OneSuccessor'
             /\ LogoutEndsChain' /\ LogoutAllHolds'
  <2>0. token[r] \in Sessions /\ sessions[token[r]] # "none"
    BY <1>8 DEF Logout, StagesOfKinds
  <2>1. StagesOfKinds'
    BY <1>8, <2>0 DEF Logout, TypeOK, StagesOfKinds
  <2>2. HeldIsLive'
    BY <1>8, <2>0 DEF Logout, TypeOK, HeldIsLive
  <2>3. OneSuccessor'
    BY <1>8, <2>0 DEF Logout, TypeOK, OneSuccessor
  <2>4. LogoutEndsChain'
    BY <1>8, <2>0 DEF Logout, TypeOK, HeldIsLive, LogoutEndsChain
  <2>5. LogoutAllHolds'
    BY <1>8, <2>0 DEF Logout, TypeOK, LogoutAllHolds
  <2> QED
    BY <2>1, <2>2, <2>3, <2>4, <2>5
<1>9. ASSUME NEW r \in Requests, LogoutAll(r)
      PROVE  /\ StagesOfKinds' /\ HeldIsLive' /\ OneSuccessor'
             /\ LogoutEndsChain' /\ LogoutAllHolds'
  <2>1. StagesOfKinds'
    BY <1>9 DEF LogoutAll, TypeOK, StagesOfKinds
  <2>2. HeldIsLive'
    BY <1>9 DEF LogoutAll, TypeOK, StagesOfKinds, HeldIsLive
  <2>3. OneSuccessor'
    BY <1>9 DEF LogoutAll, TypeOK, OneSuccessor
  <2>4. LogoutEndsChain'
    BY <1>9 DEF LogoutAll, TypeOK, StagesOfKinds, LogoutEndsChain
  <2>5. LogoutAllHolds'
    BY <1>9 DEF LogoutAll, TypeOK, LogoutAllHolds
  <2> QED
    BY <2>1, <2>2, <2>3, <2>4, <2>5
<1> QED
  BY <1>1, <1>2, <1>3, <1>4, <1>5, <1>6, <1>7, <1>8, <1>9 DEF Next, Progress

\* The inductive invariant of the sessions holds in every reachable state.
THEOREM SessionsInvCorrect == Spec => []SessionsInv
  BY InvInit, InvStep, PTL DEF Spec

\* Every variable keeps its type, for any users and requests.
THEOREM SessionsTypeCorrect == Spec => []TypeOK
<1>1. SessionsInv => TypeOK
  BY DEF SessionsInv
<1> QED
  BY <1>1, SessionsInvCorrect, PTL

\* A session ends once: however many RefreshToken calls race for it one at most
\* exchanges it (RevokeByID inside the transaction), and nobody exchanges the
\* one a successful Logout ended.
THEOREM EndsOnceCorrect == Spec => []EndsOnce
<1>1. SessionsInv => EndsOnce
  BY DEF SessionsInv, EndsOnce
<1> QED
  BY <1>1, SessionsInvCorrect, PTL

\* A LogoutAll ends every session that was live when it began.
THEOREM LogoutAllCorrect == Spec => []LogoutAllHolds
<1>1. SessionsInv => LogoutAllHolds
  BY DEF SessionsInv
<1> QED
  BY <1>1, SessionsInvCorrect, PTL

-----------------------------------------------------------------------------
\* Every step of the service is a step of the ledger, or changes no session.
LEMMA LedgerStep ==
  SessionsInv /\ [Next]_vars => [Ledger!Next]_(Ledger!sessionVars)
<1> SUFFICES ASSUME SessionsInv, [Next]_vars
             PROVE  Ledger!Next \/ UNCHANGED Ledger!sessionVars
  OBVIOUS
<1> USE SessionsAssumption DEF Requests, Sessions, Stages, Goto, Live, Ledger!Sessions
<1> TypeOK /\ StagesOfKinds /\ HeldIsLive
  BY DEF SessionsInv
<1> DEFINE alive == {s \in Sessions : sessions[s] = "live"}
           ended == {s \in Sessions : sessions[s] = "revoked"}
<1>1. CASE UNCHANGED sessions
  BY <1>1 DEF Ledger!sessionVars
<1>2. ASSUME NEW r \in Logins, Login(r) PROVE Ledger!Issue(r)
  <2>1. sessions[r] = "none"
    BY <1>2 DEF Login, TypeOK, StagesOfKinds
  <2> QED
    BY <1>2, <2>1 DEF Login, TypeOK, Ledger!Issue, Ledger!New
<1>3. ASSUME NEW r \in Requests, IssueTokens(r)
      PROVE  r \in Refreshes /\ token[r] \in Sessions /\ Ledger!Exchange(token[r], r)
  <2>1. r \in Refreshes /\ token[r] \in Sessions /\ Live(token[r])
        /\ sessions[r] = "none" /\ token[r] # r
    BY <1>3 DEF IssueTokens, TypeOK, StagesOfKinds, HeldIsLive
  <2> QED
    BY <1>3, <2>1 DEF IssueTokens, TypeOK, Ledger!Exchange, Ledger!New
<1>4. ASSUME NEW r \in Requests, Logout(r)
      PROVE  Ledger!Next \/ UNCHANGED Ledger!sessionVars
  <2>0. token[r] \in Sessions /\ sessions[token[r]] # "none"
    BY <1>4 DEF Logout, StagesOfKinds
  <2>1. CASE Live(token[r])
    <3>1. Ledger!End({token[r]})
      BY <1>4, <2>0, <2>1 DEF Logout, TypeOK, Ledger!End
    <3>2. {token[r]} \in SUBSET Sessions
      BY <2>0
    <3> QED
      BY <3>1, <3>2 DEF Ledger!Next, Ledger!End
  <2>2. CASE ~ Live(token[r])
    BY <1>4, <2>0, <2>2, <1>1 DEF Logout, TypeOK
  <2> QED
    BY <2>1, <2>2
<1>5. ASSUME NEW r \in Requests, LogoutAll(r) PROVE Ledger!Next
  <2>1. Ledger!End(snap[r] \cap alive)
    BY <1>5 DEF LogoutAll, TypeOK, StagesOfKinds, Ledger!End
  <2>2. snap[r] \cap alive \in SUBSET Sessions
    OBVIOUS
  <2> QED
    BY <2>1, <2>2 DEF Ledger!Next, Ledger!End
<1> QED
  <2>1. ASSUME NEW r \in Logins, Login(r) PROVE Ledger!Next
    BY <1>2, <2>1 DEF Ledger!Next
  <2>2. ASSUME NEW r \in Requests, IssueTokens(r) PROVE Ledger!Next
    BY <1>3, <2>2 DEF Ledger!Next
  <2>3. CASE UNCHANGED vars
    BY <1>1, <2>3 DEF vars
  <2>4. ASSUME NEW r \in Refreshes \cup Logouts, NEW s \in Sessions, CallWithToken(r, s)
        PROVE  UNCHANGED sessions
    BY <2>4 DEF CallWithToken
  <2>5. ASSUME NEW r \in LogoutAlls, CallLogoutAll(r) PROVE UNCHANGED sessions
    BY <2>5 DEF CallLogoutAll
  <2>6. ASSUME NEW r \in Requests, GetByTokenHash(r) \/ RevokeByID(r) \/ Rollback(r)
        PROVE  UNCHANGED sessions
    BY <2>6 DEF GetByTokenHash, RevokeByID, Rollback
  <2> QED
    BY <1>1, <1>4, <1>5, <2>1, <2>2, <2>3, <2>4, <2>5, <2>6 DEF Next, Progress

\* The sessions of the service behave as the ledger says, for any users and any
\* requests.
THEOREM SessionsRefinement == Spec => ImplementsSessions
<1>1. Init => Ledger!Init
  BY DEF Init, Ledger!Init
<1> QED
  BY <1>1, LedgerStep, SessionsInvCorrect, PTL DEF Spec, ImplementsSessions, Ledger!Spec

-----------------------------------------------------------------------------
(* Forms (PollForms): what a submit may still do decides what is true of it. *)
(* A number a form has not sent yet, and a call on its way, have touched     *)
(* nothing; at most one call bears a submit's name, and one answer a form's. *)

FormStages == {"loading", "filling", "presign", "upload", "save", "saved"}
Page == [stage : FormStages, n : 0 .. MaxSubmits, fields : Fields \cup {None},
         key : Forms!Submits \cup {None}, poll : Forms!PollIds \cup {None},
         deleting : BOOLEAN, left : BOOLEAN]
Calls == [what : {"save", "delete"}, of : Forms!Forms \X (0 .. MaxSubmits),
          poll : Forms!PollIds \cup {None}, fields : Fields \cup {None},
          key : Forms!Submits \cup {None}]
Answers == [what : {"save", "delete"}, of : Forms!Forms \X (0 .. MaxSubmits), ok : BOOLEAN]

FormTypes ==
  /\ polls \in [Forms!PollIds -> Forms!Poll \cup {None}]
  /\ forms \in [Forms!Forms -> Page]
  /\ calls \subseteq Calls
  /\ answers \subseteq Answers
  /\ faults \in Nat
  /\ log \in [Forms!PollIds -> Seq(Forms!Submits)]

Saves == {c \in calls : c.what = "save"}

\* No poll is, or has anything, of this submit.
Untouched(s) ==
  /\ polls[s] = None /\ log[s] = <<>>
  /\ \A p \in Forms!PollIds : \A i \in DOMAIN log[p] : log[p][i] # s

\* A page and its fields, and what it does not know of its poll yet.
PageOk(f, page) ==
  /\ page.stage \in {"presign", "upload", "save", "saved"} => page.n >= 1 /\ page.fields \in Fields
  /\ f \in CreateForms => page.stage # "loading" /\ ~ page.deleting
  /\ f \in CreateForms /\ page.stage # "saved" => page.poll = None
  /\ f \in EditForms /\ page.stage # "loading" => page.poll # None
  /\ f \in EditForms /\ page.deleting => page.poll # None
  /\ page.stage = "saved" => page.poll # None
  /\ page.stage = "presign" => page.key = None

PagesInv == \A f \in Forms!Forms : PageOk(f, forms[f])

\* The numbers a form has still to send.
Unsent(page, m) == m > page.n \/ (m = page.n /\ page.stage \in {"presign", "upload"})

UnsentInv ==
  \A f \in Forms!Forms, m \in 1 .. MaxSubmits :
    Unsent(forms[f], m) => Untouched(<<f, m>>) /\ \A c \in Saves : c.of # <<f, m>>

CallsInv ==
  /\ \A c \in Saves :
       /\ c.of \in Forms!Submits /\ c.of[2] <= forms[c.of[1]].n
       /\ c.fields \in Fields
       /\ c.of[1] \in EditForms => c.poll # None
       /\ c.of[1] \in CreateForms => c.poll = None
       /\ Untouched(c.of)
       /\ Forms!Waits(c) =>
            /\ c.fields = forms[c.of[1]].fields /\ c.key = forms[c.of[1]].key
            /\ c.poll = forms[c.of[1]].poll
  /\ \A c, d \in Saves : c.of = d.of => c = d
  /\ \A c \in calls \ Saves : c.of[1] \in EditForms /\ c.poll # None

AnswersInv ==
  /\ \A a \in answers : a.what = "save" =>
       /\ forms[a.of[1]].stage = "save" /\ forms[a.of[1]].n = a.of[2]
       /\ \A c \in Saves : c.of # a.of
  /\ \A a, b \in answers : a.what = "save" /\ b.what = "save" /\ a.of = b.of => a = b
  /\ \A f \in Forms!Forms : forms[f].stage = "saved" => \A c \in Saves : c.of # <<f, forms[f].n>>

FormsCore == FormTypes /\ PagesInv /\ UnsentInv /\ CallsInv /\ AnswersInv

\* A picture that a request names was stored before the request was sent.
ImagesInv == ImagesAreStored /\ \A c \in Saves : c.key # None => c.key \in stored

\* The poll that a form changes: the one it edits, or the one its submit makes.
Target(f) == IF f \in CreateForms THEN <<f, forms[f].n>> ELSE forms[f].poll

\* The submit of a form has taken effect, and the page will hear or has heard.
Done(f) ==
  \/ forms[f].stage = "saved"
  \/ \E a \in answers : a.what = "save" /\ a.ok /\ a.of[1] = f

\* What a poll shows of a page.
Shows(poll, page) ==
  /\ page.fields.question # Blank => poll.question = page.fields.question
  /\ page.fields.tags # {} => poll.tags = page.fields.tags
  /\ page.key # None => poll.image = page.key

ShownInv ==
  /\ \A f \in Forms!Forms : forms[f].stage = "saved" => forms[f].poll = Target(f)
  /\ \A f \in Forms!Forms : Done(f) =>
       LET past == log[Target(f)] IN
         /\ \E i \in DOMAIN past : past[i] = <<f, forms[f].n>>
         /\ past[Len(past)] = <<f, forms[f].n>> /\ polls[Target(f)] # None =>
              Shows(polls[Target(f)], forms[f])

\* The numbers of the polls a form has created, and those it may still create.
Made(f) == {n \in 1 .. MaxSubmits : log[<<f, n>>] # <<>>}
Coming(f) == {n \in 1 .. MaxSubmits : \E c \in Saves : c.of = <<f, n>>}

\* The one that the page knows of, or will hear of unless a fault keeps it.
Told(f) ==
  {n \in 1 .. MaxSubmits :
     /\ n = forms[f].n
     /\ \/ forms[f].stage = "saved"
        \/ /\ forms[f].stage = "save"
           /\ \A a \in answers : a.what = "save" /\ a.of[1] = f => a.ok}

\* Each poll that a form does not know of has cost a fault.
FaultsInv ==
  /\ \A p \in Forms!Submits : polls[p] # None => log[p] # <<>>
  /\ \A f \in CreateForms : Cardinality((Made(f) \cup Coming(f)) \ Told(f)) <= faults

\* The poll that a request writes.
Written(c) == IF c.of[1] \in CreateForms THEN c.of ELSE c.poll

\* What happens to the calls when one is answered.
Handled(c, ok) ==
  /\ c \in calls
  /\ calls' = calls \ {c}
  /\ IF Forms!Waits(c) THEN answers' = answers \cup {[what |-> c.what, of |-> c.of, ok |-> ok]}
     ELSE answers' = answers
  /\ forms' = forms /\ stored' = stored
  /\ \/ faults' = faults
     \/ faults' = faults + 1 /\ ~ ok

\* A save that takes effect.
Applied(c) ==
  /\ c \in Saves
  /\ Written(c) \in Forms!PollIds
  /\ Written(c) = c.of \/ polls[Written(c)] # None
  /\ \E poll \in Forms!Poll :
       /\ polls' = [polls EXCEPT ![Written(c)] = poll]
       /\ Shows(poll, c)
       /\ \/ poll.image \in {None, c.key}
          \/ polls[Written(c)] # None /\ poll.image = polls[Written(c)].image
  /\ log' = [log EXCEPT ![Written(c)] = Append(@, c.of)]

\* A call that changes no poll, except that it may be gone.
Gone(c) ==
  /\ log' = log
  /\ \/ polls' = polls
     \/ c.poll \in Forms!PollIds /\ polls' = [polls EXCEPT ![c.poll] = None]

LEMMA FormsConstants ==
  /\ CreateForms \cap EditForms = {}
  /\ Forms!Forms = CreateForms \cup EditForms
  /\ MaxSubmits \in Nat
  /\ First \notin Forms!Submits /\ None \notin Forms!PollIds
  /\ Forms!PollIds = {First} \cup Forms!Submits
  /\ \A F \in Fields : F.question \in Questions \cup {Blank} /\ F.tags \subseteq Tags /\ F.file \in BOOLEAN
  /\ Blank \notin Questions
  BY RequestsAssumption
  DEF Forms!FormsAssumption, Forms!Forms, Forms!Submits, Forms!PollIds, Forms!Field, Forms!TagSets

\* What a step of the poll service is.
LEMMA HandleEffects ==
  ASSUME FormsCore, NEW c \in calls, Forms!Handle(c)
  PROVE  \E ok \in BOOLEAN :
           /\ Handled(c, ok)
           /\ \/ Applied(c) /\ (ok \/ faults' = faults + 1)
              \/ Gone(c) /\ (~ ok \/ c.what = "delete")
<1> USE FormsConstants DEF FormsCore
<1> c \in Calls
  BY DEF FormTypes
<1>1. CASE Forms!CreatePoll(c)
  <2> DEFINE poll == [question |-> c.fields.question, tags |-> c.fields.tags, image |-> c.key]
  <2>1. /\ c \in Saves /\ c.of \in Forms!Submits /\ Untouched(c.of) /\ Written(c) = c.of
        /\ c.fields \in Fields /\ c.of \in Forms!PollIds /\ c.key \in Forms!Submits \cup {None}
    BY <1>1 DEF Forms!CreatePoll, Saves, CallsInv, Written, Calls
  <2>2. poll \in Forms!Poll /\ Shows(poll, c)
    BY <1>1, <2>1 DEF Forms!CreatePoll, Forms!Invalid, Forms!Poll, Shows
  <2>3. log' = [log EXCEPT ![Written(c)] = Append(@, c.of)]
    <3> DEFINE first == <<c.of>>
    <3>1. Append(<<>>, c.of) = first
      OBVIOUS
    <3> HIDE DEF first
    <3>2. log' = [log EXCEPT ![c.of] = first]
      BY <1>1 DEF Forms!CreatePoll, first
    <3> QED
      BY <2>1, <3>1, <3>2 DEF Untouched
  <2>4. Applied(c)
    BY <1>1, <2>1, <2>2, <2>3 DEF Forms!CreatePoll, Applied
  <2> QED
    BY <1>1, <2>4 DEF Forms!CreatePoll, Forms!Committed, Forms!Answer, Forms!Fault, Handled
<1>2. CASE Forms!UpdatePoll(c)
  <2> DEFINE poll == Forms!Updated(polls[c.poll], c)
  <2>1. /\ c \in Saves /\ Written(c) = c.poll /\ c.fields \in Fields
        /\ c.poll \in Forms!PollIds /\ c.key \in Forms!Submits \cup {None}
        /\ polls[c.poll] # None /\ polls[c.poll] \in Forms!Poll
    BY <1>2 DEF Forms!UpdatePoll, Saves, CallsInv, Written, Calls, FormTypes
  <2>2. poll \in Forms!Poll /\ Shows(poll, c) /\ poll.image \in {c.key, polls[c.poll].image}
    BY <1>2, <2>1 DEF Forms!UpdatePoll, Forms!Updated, Forms!Poll, Shows
  <2>3. polls' = [polls EXCEPT ![c.poll] = poll]
    BY <1>2 DEF Forms!UpdatePoll
  <2>4. Applied(c)
    <3> HIDE DEF poll
    <3> QED BY <1>2, <2>1, <2>2, <2>3 DEF Forms!UpdatePoll, Applied
  <2> QED
    BY <1>2, <2>4 DEF Forms!UpdatePoll, Forms!Committed, Forms!Answer, Forms!Fault, Handled
<1>3. CASE Forms!DeletePoll(c)
  <2>1. c.what = "delete" /\ Gone(c)
    BY <1>3 DEF Forms!DeletePoll, Gone, CallsInv, Saves, Calls
  <2> QED
    BY <1>3, <2>1 DEF Forms!DeletePoll, Forms!Committed, Forms!Answer, Forms!Fault, Handled
<1>4. CASE Forms!Refuse(c)
  <2>1. Gone(c) /\ Handled(c, FALSE)
    BY <1>4 DEF Forms!Refuse, Gone, Forms!Answer, Forms!Fault, Handled
  <2> QED
    BY <2>1
<1> QED
  BY <1>1, <1>2, <1>3, <1>4 DEF Forms!Handle

\* A step of the poll service keeps the types,
LEMMA HandleTypes ==
  ASSUME FormsCore, NEW c \in calls, NEW ok \in BOOLEAN, Handled(c, ok), Applied(c) \/ Gone(c)
  PROVE  FormTypes'
<1> USE FormsConstants DEF FormsCore, FormTypes
<1> c \in Calls
  OBVIOUS
<1>1. calls' \subseteq Calls /\ faults' \in Nat /\ forms' \in [Forms!Forms -> Page]
  BY DEF Handled
<1>2. answers' \subseteq Answers
  BY DEF Handled, Calls, Answers
<1>3. polls' \in [Forms!PollIds -> Forms!Poll \cup {None}]
  BY DEF Applied, Gone
<1>4. log' \in [Forms!PollIds -> Seq(Forms!Submits)]
  <2>1. CASE Applied(c)
    <3>1. c.of \in Forms!Submits /\ Written(c) \in Forms!PollIds
      BY <2>1 DEF Applied, CallsInv
    <3>2. Append(log[Written(c)], c.of) \in Seq(Forms!Submits)
      BY <3>1
    <3> QED
      BY <2>1, <3>1, <3>2 DEF Applied
  <2>2. CASE Gone(c)
    BY <2>2 DEF Gone
  <2> QED
    BY <2>1, <2>2
<1> QED
  BY <1>1, <1>2, <1>3, <1>4

\* touches nothing of the other submits,
LEMMA HandleTouches ==
  ASSUME FormsCore, NEW c \in calls, Applied(c) \/ Gone(c),
         NEW s \in Forms!Submits, Untouched(s), Applied(c) => s # c.of
  PROVE  Untouched(s)'
<1> USE FormsConstants DEF FormsCore, FormTypes
<1>1. CASE Applied(c)
  <2>1. Written(c) \in Forms!PollIds /\ Written(c) # s /\ c.of # s
    BY <1>1 DEF Applied, Untouched
  <2>2. polls'[s] = None /\ log'[s] = <<>>
    BY <1>1, <2>1 DEF Applied, Untouched
  <2>3. ASSUME NEW p \in Forms!PollIds, NEW i \in DOMAIN log'[p] PROVE log'[p][i] # s
    <3>1. CASE p = Written(c)
      <4>1. log'[p] = Append(log[p], c.of) /\ log[p] \in Seq(Forms!Submits)
        BY <1>1, <2>1, <3>1 DEF Applied
      <4>2. i \in DOMAIN log[p] \/ log'[p][i] = c.of
        BY <2>3, <4>1
      <4>3. i \in DOMAIN log[p] => log'[p][i] = log[p][i]
        BY <4>1
      <4> QED
        BY <2>1, <4>2, <4>3 DEF Untouched
    <3>2. CASE p # Written(c)
      BY <1>1, <2>1, <2>3, <3>2 DEF Applied, Untouched
    <3> QED
      BY <3>1, <3>2
  <2> QED
    BY <2>2, <2>3 DEF Untouched
<1>2. CASE Gone(c)
  BY <1>2 DEF Gone, Untouched
<1> QED
  BY <1>1, <1>2

\* and keeps the invariant.
LEMMA HandleStep ==
  ASSUME FormsCore, NEW c \in calls, NEW ok \in BOOLEAN, Handled(c, ok), Applied(c) \/ Gone(c)
  PROVE  FormsCore'
<1> USE FormsConstants
<1>1. FormTypes'
  BY HandleTypes
<1>2. PagesInv'
  BY DEF FormsCore, PagesInv, PageOk, Handled
<1>3. Saves' \subseteq Saves /\ c \notin Saves' /\ forms' = forms
  BY DEF Saves, Handled
<1>4. Applied(c) => c \in Saves
  BY DEF Applied
<1>5. UnsentInv'
  <2>1. ASSUME NEW f \in Forms!Forms, NEW m \in 1 .. MaxSubmits,
               Unsent(forms[f], m)'
        PROVE  Untouched(<<f, m>>)' /\ \A d \in Saves' : d.of # <<f, m>>
    <3>1. Untouched(<<f, m>>) /\ \A d \in Saves : d.of # <<f, m>>
      BY <1>3, <2>1 DEF FormsCore, UnsentInv, Unsent
    <3>2. <<f, m>> \in Forms!Submits
      BY DEF Forms!Submits
    <3>3. Untouched(<<f, m>>)'
      BY <1>4, <3>1, <3>2, HandleTouches
    <3> QED
      BY <1>3, <3>1, <3>3
  <2> QED
    BY <2>1 DEF UnsentInv
<1>6. CallsInv'
  <2>1. ASSUME NEW d \in Saves' PROVE Untouched(d.of)'
    <3>1. d \in Saves /\ d # c /\ Untouched(d.of) /\ d.of \in Forms!Submits
      BY <1>3, <2>1 DEF FormsCore, CallsInv
    <3>2. Applied(c) => d.of # c.of
      BY <1>4, <3>1 DEF FormsCore, CallsInv
    <3> QED
      BY <3>1, <3>2, HandleTouches
  <2>2. (calls \ Saves)' \subseteq calls \ Saves
    BY DEF Saves, Handled
  <2>3. \A d \in Saves : Forms!Waits(d)' <=> Forms!Waits(d)
    BY <1>3 DEF Forms!Waits
  <2> QED
    BY <1>3, <2>1, <2>2, <2>3 DEF FormsCore, CallsInv
<1>7. AnswersInv'
  <2>1. CASE Forms!Waits(c) /\ c.what = "save"
    <3>1. c \in Saves /\ \A d \in Saves' : d.of # c.of
      BY <1>3, <2>1 DEF FormsCore, CallsInv, Saves
    <3>2. forms[c.of[1]].stage = "save" /\ forms[c.of[1]].n = c.of[2]
      BY <2>1 DEF Forms!Waits
    <3>3. \A a \in answers : a.what = "save" => a.of # c.of
      BY <3>1 DEF FormsCore, AnswersInv
    <3>4. \A a \in answers' : a \in answers \/ (a.what = "save" /\ a.of = c.of /\ a = [what |-> c.what, of |-> c.of, ok |-> ok])
      BY <2>1 DEF Handled
    <3> QED
      BY <1>3, <3>1, <3>2, <3>3, <3>4 DEF FormsCore, AnswersInv
  <2>2. CASE ~ (Forms!Waits(c) /\ c.what = "save")
    <3>1. \A a \in answers' : a.what = "save" => a \in answers
      <4>1. c.what \in {"save", "delete"}
        BY DEF FormsCore, FormTypes, Calls
      <4> QED
        BY <2>2, <4>1 DEF Handled
    <3> QED
      BY <1>3, <3>1 DEF FormsCore, AnswersInv
  <2> QED
    BY <2>1, <2>2
<1> QED
  BY <1>1, <1>2, <1>5, <1>6, <1>7 DEF FormsCore

\* A page that neither sends nor takes back a submit.
SamePage(p, q) == p.stage = q.stage /\ p.n = q.n /\ p.fields = q.fields /\ p.key = q.key /\ p.poll = q.poll

\* One that hears of its submit.
SavedPage(f, page) ==
  /\ page.n = forms[f].n /\ page.fields = forms[f].fields /\ page.key = forms[f].key
  /\ page.poll = Target(f)

\* A step of the page of a form.
PageStep(f, page) ==
  /\ forms' = [forms EXCEPT ![f] = page]
  /\ polls' = polls /\ log' = log /\ faults' \in {faults, faults + 1} /\ answers' \subseteq answers
  /\ page.n >= forms[f].n
  /\ \A m \in 1 .. MaxSubmits : Unsent(page, m) => Unsent(forms[f], m)
  /\ page.stage = "saved" => \A c \in Saves : c.of # <<f, page.n>>
  /\ page.stage = "saved" => SamePage(page, forms[f]) \/ (Done(f) /\ SavedPage(f, page))
  /\ page.stage \notin {"save", "saved"} => Told(f) = {} \/ faults' = faults + 1
  /\ \A a \in answers' : a.what = "save" /\ a.of[1] = f => page.stage = "save" /\ page.n = a.of[2]
  /\ \/ calls' = calls /\ page.stage # "save"
     \/ calls' = calls /\ SamePage(page, forms[f])
     \/ /\ calls' = calls \cup {Forms!Call(f, page, "delete")}
        /\ SamePage(page, forms[f])
        /\ f \in EditForms /\ page.stage # "loading"
     \/ /\ calls' = calls \cup {Forms!Call(f, page, "save")}
        /\ page.stage = "save" /\ forms[f].stage \in {"filling", "upload"}
        /\ Unsent(forms[f], page.n)

LEMMA PageKeepsCore ==
  ASSUME FormsCore, NEW f \in Forms!Forms, NEW page \in Page, PageOk(f, page), PageStep(f, page)
  PROVE  FormsCore'
<1> USE FormsConstants
<1> DEFINE sent == Forms!Call(f, page, "save")
           gone == Forms!Call(f, page, "delete")
<1>0. f \in CreateForms \cup EditForms /\ MaxSubmits \in Nat /\ forms[f] \in Page
  BY DEF FormsCore, FormTypes
<1>1. /\ sent.of = <<f, page.n>> /\ sent.what = "save" /\ sent.poll = page.poll
      /\ sent.fields = page.fields /\ sent.key = page.key
      /\ gone.of = <<f, page.n>> /\ gone.what = "delete" /\ gone.poll = page.poll
      /\ sent \in Calls /\ gone \in Calls
  BY DEF Forms!Call, Page, Calls
<1> HIDE DEF sent, gone
<1>2. FormTypes'
  BY <1>1 DEF FormsCore, FormTypes, PageStep, sent, gone
<1>3. PagesInv'
  BY DEF FormsCore, FormTypes, PagesInv, PageStep
<1>4. /\ forms'[f] = page /\ \A g \in Forms!Forms : g # f => forms'[g] = forms[g]
      /\ \A g \in Forms!Forms : forms'[g].n >= forms[g].n /\ forms[g].n \in 0 .. MaxSubmits /\ forms'[g].n \in 0 .. MaxSubmits
  BY DEF FormsCore, FormTypes, PageStep, Page
<1>5. \A s : Untouched(s)' <=> Untouched(s)
  BY DEF PageStep, Untouched
<1>6. \/ Saves' = Saves /\ ~ (sent \in calls' /\ sent \notin calls)
      \/ /\ Saves' = Saves \cup {sent} /\ page.stage = "save" /\ forms[f].stage \in {"filling", "upload"}
         /\ Unsent(forms[f], page.n) /\ page.n \in 1 .. MaxSubmits
  BY <1>0, <1>1 DEF PageStep, Saves, PageOk, Page, sent, gone
<1>7. sent \in Saves' \ Saves =>
        /\ Untouched(<<f, page.n>>) /\ \A c \in Saves : c.of # <<f, page.n>>
        /\ \A a \in answers : a.what = "save" => a.of[1] # f
  BY <1>6 DEF FormsCore, UnsentInv, AnswersInv
<1>8. UnsentInv'
  <2>1. ASSUME NEW g \in Forms!Forms, NEW m \in 1 .. MaxSubmits, Unsent(forms[g], m)'
        PROVE  Untouched(<<g, m>>)' /\ \A c \in Saves' : c.of # <<g, m>>
    <3>1. Unsent(forms[g], m)
      BY <1>4, <2>1 DEF PageStep, Unsent
    <3>2. Untouched(<<g, m>>)' /\ \A c \in Saves : c.of # <<g, m>>
      BY <1>5, <3>1 DEF FormsCore, UnsentInv
    <3>3. sent \in Saves' \ Saves => sent.of # <<g, m>>
      BY <1>1, <1>4, <1>6, <2>1 DEF Unsent
    <3> QED
      BY <1>6, <3>2, <3>3
  <2> QED
    BY <2>1 DEF UnsentInv
<1>9. CallsInv'
  <2>1. ASSUME NEW c \in Saves'
        PROVE  /\ c.of \in Forms!Submits /\ c.of[2] <= forms'[c.of[1]].n
               /\ c.fields \in Fields
               /\ c.of[1] \in EditForms => c.poll # None
               /\ c.of[1] \in CreateForms => c.poll = None
               /\ Untouched(c.of)'
               /\ Forms!Waits(c)' =>
                    /\ c.fields = forms'[c.of[1]].fields /\ c.key = forms'[c.of[1]].key
                    /\ c.poll = forms'[c.of[1]].poll
    <3>1. CASE c \in Saves
      <4>1. /\ c.of \in Forms!Submits /\ c.of[1] \in Forms!Forms /\ c.of[2] <= forms[c.of[1]].n
            /\ c.of[2] \in 1 .. MaxSubmits /\ c.what = "save"
            /\ c.fields \in Fields
            /\ c.of[1] \in EditForms => c.poll # None
            /\ c.of[1] \in CreateForms => c.poll = None
            /\ Untouched(c.of)
            /\ Forms!Waits(c) =>
                    /\ c.fields = forms[c.of[1]].fields /\ c.key = forms[c.of[1]].key
                    /\ c.poll = forms[c.of[1]].poll
        BY <3>1 DEF FormsCore, CallsInv, Saves, Forms!Submits
      <4>2. c.of[1] = f /\ page.stage = "save" => SamePage(page, forms[f]) \/ c.of[2] # page.n
        <5>1. c.of = <<c.of[1], c.of[2]>>
          BY <4>1 DEF Forms!Submits
        <5>2. sent \in Saves' \ Saves => c.of # <<f, page.n>>
          BY <1>7, <3>1
        <5>3. SamePage(page, forms[f]) \/ page.stage # "save" \/ sent \in Saves'
          BY <1>1 DEF PageStep, Saves, sent
        <5>4. sent \in Saves => ~ Unsent(forms[f], page.n) \/ page.n = 0
          <6>1. page.n # 0 => page.n \in 1 .. MaxSubmits
            BY <1>0 DEF Page
          <6> QED
            BY <1>1, <6>1 DEF FormsCore, UnsentInv
        <5>5. SamePage(page, forms[f]) \/ page.stage # "save" \/ Unsent(forms[f], page.n)
          BY DEF PageStep
        <5>6. page.stage = "save" => page.n # 0
          BY <1>0 DEF PageOk, Page
        <5> QED
          BY <5>1, <5>2, <5>3, <5>4, <5>5, <5>6
      <4>3. Forms!Waits(c)' => Forms!Waits(c) /\ (c.of[1] = f => SamePage(page, forms[f]))
        BY <1>4, <4>1, <4>2 DEF Forms!Waits, SamePage
      <4>4. c.of[2] <= forms'[c.of[1]].n
        BY <1>4, <4>1
      <4> QED
        BY <1>4, <1>5, <4>1, <4>3, <4>4 DEF SamePage
    <3>2. CASE c = sent /\ c \notin Saves
      <4>1. /\ Untouched(<<f, page.n>>)' /\ page.stage = "save" /\ page.n \in 1 .. MaxSubmits
        BY <1>5, <1>6, <1>7, <2>1, <3>2
      <4>2. <<f, page.n>> \in Forms!Submits
        BY <4>1 DEF Forms!Submits
      <4> QED
        BY <1>0, <1>1, <1>4, <3>2, <4>1, <4>2 DEF PageOk
    <3> QED
      BY <1>6, <2>1, <3>1, <3>2
  <2>2. \A c, d \in Saves' : c.of = d.of => c = d
    BY <1>1, <1>6, <1>7 DEF FormsCore, CallsInv
  <2>3. \A c \in calls' \ Saves' : c.of[1] \in EditForms /\ c.poll # None
    <3>1. \A c \in calls' \ Saves' : c \in calls \ Saves \/ (c = gone /\ f \in EditForms /\ page.stage # "loading")
      BY <1>1 DEF PageStep, Saves, sent, gone
    <3> QED
      BY <1>0, <1>1, <3>1 DEF FormsCore, CallsInv, PageOk
  <2> QED
    BY <2>1, <2>2, <2>3 DEF CallsInv
<1>10. AnswersInv'
  <2>1. ASSUME NEW a \in answers', a.what = "save"
        PROVE  /\ forms'[a.of[1]].stage = "save" /\ forms'[a.of[1]].n = a.of[2]
               /\ \A c \in Saves' : c.of # a.of
    <3>1. /\ forms[a.of[1]].stage = "save" /\ forms[a.of[1]].n = a.of[2] /\ a.of[1] \in Forms!Forms
          /\ \A c \in Saves : c.of # a.of
      BY <2>1 DEF FormsCore, FormTypes, Answers, AnswersInv, PageStep
    <3>2. sent \in Saves' \ Saves => sent.of # a.of
      BY <1>1, <1>7, <2>1 DEF PageStep
    <3> QED
      BY <1>4, <1>6, <2>1, <3>1, <3>2 DEF PageStep
  <2>2. ASSUME NEW g \in Forms!Forms, forms'[g].stage = "saved", NEW c \in Saves'
        PROVE  c.of # <<g, forms'[g].n>>
    <3>1. CASE g = f
      BY <1>4, <1>6, <2>2, <3>1 DEF PageStep
    <3>2. CASE g # f
      BY <1>1, <1>4, <1>6, <2>2, <3>2 DEF FormsCore, AnswersInv
    <3> QED
      BY <3>1, <3>2
  <2>3. \A a, b \in answers' : a.what = "save" /\ b.what = "save" /\ a.of = b.of => a = b
    BY DEF FormsCore, AnswersInv, PageStep
  <2> QED
    BY <2>1, <2>2, <2>3 DEF AnswersInv
<1> QED
  BY <1>2, <1>3, <1>8, <1>9, <1>10 DEF FormsCore

-----------------------------------------------------------------------------
\* What holds of a page before its step.
LEMMA PageFacts ==
  ASSUME FormsCore, NEW f \in Forms!Forms
  PROVE  /\ forms \in [Forms!Forms -> Page] /\ forms[f] \in Page /\ PageOk(f, forms[f])
         /\ forms[f].n \in Nat /\ forms[f].n <= MaxSubmits
         /\ faults \in Nat /\ answers \subseteq Answers
         /\ \A a \in answers : a.what = "save" /\ a.of[1] = f => forms[f].stage = "save" /\ a.of[2] = forms[f].n
         /\ forms[f].stage = "saved" => \A c \in Saves : c.of # <<f, forms[f].n>>
<1>1. forms \in [Forms!Forms -> Page] /\ forms[f] \in Page /\ faults \in Nat /\ answers \subseteq Answers
  BY DEF FormsCore, FormTypes
<1>2. forms[f].n \in 0 .. MaxSubmits
  BY <1>1 DEF Page
<1> QED
  BY <1>1, <1>2, FormsConstants DEF FormsCore, PagesInv, AnswersInv

\* A page that goes nowhere near the service.
LEMMA QuietStep ==
  ASSUME FormsCore, NEW f \in Forms!Forms, NEW page \in Page,
         forms' = [forms EXCEPT ![f] = page],
         UNCHANGED <<polls, log, calls>>, faults' \in {faults, faults + 1}, answers' \subseteq answers,
         page.n = forms[f].n, page.stage \in {"loading", "filling", "upload", "saved"},
         page.stage = "saved" => Done(f) /\ SavedPage(f, page),
         page.stage # "saved" => Told(f) = {} \/ faults' = faults + 1,
         page.stage = "upload" => forms[f].stage = "presign",
         page.stage = "saved" => \A c \in Saves : c.of # <<f, page.n>>,
         \A a \in answers' : a.what = "save" => a.of[1] # f
  PROVE  PageStep(f, page)
<1>1. forms[f].n \in Nat
  BY PageFacts
<1>2. \A m \in 1 .. MaxSubmits : Unsent(page, m) => Unsent(forms[f], m)
  BY <1>1 DEF Unsent
<1> QED
  BY <1>1, <1>2 DEF PageStep

\* One that neither sends nor takes back a submit.
LEMMA SameStep ==
  ASSUME FormsCore, NEW f \in Forms!Forms, NEW page \in Page,
         forms' = [forms EXCEPT ![f] = page],
         UNCHANGED <<polls, log>>, faults' \in {faults, faults + 1}, answers' \subseteq answers,
         SamePage(page, forms[f]),
         \/ calls' = calls
         \/ /\ calls' = calls \cup {Forms!Call(f, page, "delete")}
            /\ f \in EditForms /\ page.stage # "loading"
  PROVE  PageStep(f, page)
<1>1. forms[f].n \in Nat /\ (page.stage \notin {"save", "saved"} => Told(f) = {})
  BY PageFacts DEF Told, SamePage
<1>2. \A m \in 1 .. MaxSubmits : Unsent(page, m) => Unsent(forms[f], m)
  BY DEF Unsent, SamePage
<1>3. page.stage = "saved" => \A c \in Saves : c.of # <<f, page.n>>
  BY PageFacts DEF SamePage
<1>4. \A a \in answers' : a.what = "save" /\ a.of[1] = f => page.stage = "save" /\ page.n = a.of[2]
  BY PageFacts DEF SamePage
<1> QED
  BY <1>1, <1>2, <1>3, <1>4 DEF PageStep, SamePage

\* One that sends a submit.
LEMMA SendStep ==
  ASSUME FormsCore, NEW f \in Forms!Forms, NEW page \in Page,
         Forms!Send(f, page, "save"), UNCHANGED <<polls, log, faults, answers>>,
         page.stage = "save", forms[f].stage \in {"filling", "upload"},
         page.n = forms[f].n + (IF forms[f].stage = "filling" THEN 1 ELSE 0)
  PROVE  PageStep(f, page)
<1>1. forms[f].n \in Nat /\ faults \in Nat
  BY PageFacts
<1>2. \A m \in 1 .. MaxSubmits : Unsent(page, m) => Unsent(forms[f], m)
  BY <1>1 DEF Unsent
<1>3. Unsent(forms[f], page.n) /\ page.n >= forms[f].n
  BY <1>1 DEF Unsent
<1>4. \A a \in answers' : a.what = "save" => a.of[1] # f
  BY PageFacts
<1> QED
  BY <1>1, <1>2, <1>3, <1>4 DEF PageStep, Forms!Send

LEMMA LoadStep ==
  ASSUME FormsCore, NEW f \in Forms!Forms, Forms!Load(f)
  PROVE  \E page \in Page : PageOk(f, page) /\ PageStep(f, page)
<1> USE FormsConstants, PageFacts
<1>1. PICK p \in Forms!PollIds : forms' = [forms EXCEPT ![f].stage = "filling", ![f].poll = p]
  BY DEF Forms!Load
<1> DEFINE page == [forms[f] EXCEPT !.stage = "filling", !.poll = p]
<1>2. page \in Page
  BY DEF Page, FormStages
<1>3. PageOk(f, page)
  BY DEF PageOk, Page, Forms!Load
<1>4. page.stage = "filling" /\ page.n = forms[f].n
  BY DEF Page
<1>5. forms' = [forms EXCEPT ![f] = page]
  BY <1>1
<1>6. UNCHANGED <<polls, log, calls, faults, answers>> /\ forms[f].stage = "loading" /\ Told(f) = {}
  BY DEF Forms!Load, Told
<1> HIDE DEF page
<1>7. PageStep(f, page)
  BY <1>2, <1>4, <1>5, <1>6, QuietStep
<1> QED
  BY <1>2, <1>3, <1>7

LEMMA SubmitStep ==
  ASSUME FormsCore, NEW f \in Forms!Forms, Forms!Submit(f)
  PROVE  \E page \in Page : PageOk(f, page) /\ PageStep(f, page)
<1> USE FormsConstants
<1>1. PICK F \in Fields :
        LET page == [forms[f] EXCEPT !.n = @ + 1, !.fields = F, !.key = None] IN
          IF F.file THEN forms' = [forms EXCEPT ![f] = [page EXCEPT !.stage = "presign"]] /\ UNCHANGED calls
          ELSE Forms!Send(f, [page EXCEPT !.stage = "save"], "save")
  BY DEF Forms!Submit
<1>2. forms[f].n < MaxSubmits /\ forms[f].stage = "filling" /\ UNCHANGED <<polls, stored, answers, faults, log>>
  BY DEF Forms!Submit, Forms!CanSubmit
<1>3. forms[f].n \in Nat /\ forms[f].n + 1 \in 1 .. MaxSubmits
  BY <1>2, PageFacts
<1> DEFINE page(stage) == [[forms[f] EXCEPT !.n = @ + 1, !.fields = F, !.key = None] EXCEPT !.stage = stage]
<1>4. ASSUME NEW stage \in {"presign", "save"}
      PROVE  /\ page(stage) \in Page /\ PageOk(f, page(stage))
             /\ page(stage).stage = stage /\ page(stage).n = forms[f].n + 1
  <2>0. forms[f] \in Page /\ PageOk(f, forms[f])
    BY PageFacts
  <2>1. page(stage) \in Page
    <3> DEFINE next == forms[f].n + 1
    <3>1. next \in 0 .. MaxSubmits
      BY <1>3
    <3> HIDE DEF next
    <3>2. \A p \in Page : [p EXCEPT !.n = next, !.fields = F, !.key = None] \in Page
      BY <3>1 DEF Page
    <3>3. \A p \in Page : [p EXCEPT !.stage = stage] \in Page
      BY DEF Page, FormStages
    <3> QED
      BY <2>0, <3>2, <3>3 DEF next
  <2>2. /\ page(stage).n = forms[f].n + 1 /\ page(stage).fields = F /\ page(stage).key = None
        /\ page(stage).stage = stage
        /\ page(stage).poll = forms[f].poll /\ page(stage).deleting = forms[f].deleting
    BY <2>0 DEF Page
  <2> HIDE DEF page
  <2>3. PageOk(f, page(stage))
    BY <1>2, <1>3, <2>0, <2>2 DEF PageOk
  <2> QED
    BY <2>1, <2>2, <2>3
<1>5. CASE F.file
  <2>1. forms' = [forms EXCEPT ![f] = page("presign")] /\ UNCHANGED calls
    <3> DEFINE sent == [forms[f] EXCEPT !.n = @ + 1, !.fields = F, !.key = None]
    <3>1. IF F.file THEN forms' = [forms EXCEPT ![f] = [sent EXCEPT !.stage = "presign"]] /\ UNCHANGED calls
          ELSE Forms!Send(f, [sent EXCEPT !.stage = "save"], "save")
      BY <1>1
    <3> HIDE DEF sent
    <3>2. page("presign") = [sent EXCEPT !.stage = "presign"]
      BY DEF sent
    <3> HIDE DEF page
    <3> QED
      BY <1>5, <3>1, <3>2
  <2> HIDE DEF page
  <2>2. \A m \in 1 .. MaxSubmits : Unsent(page("presign"), m) => Unsent(forms[f], m)
    BY <1>3, <1>4 DEF Unsent
  <2>4. Told(f) = {}
    BY <1>2 DEF Told
  <2>3. PageStep(f, page("presign"))
    BY <1>2, <1>3, <1>4, <2>1, <2>2, <2>4, PageFacts DEF PageStep
  <2> QED
    BY <1>4, <2>3
<1>6. CASE ~ F.file
  <2>1. Forms!Send(f, page("save"), "save")
    BY <1>1, <1>6
  <2> HIDE DEF page
  <2>2. PageStep(f, page("save"))
    BY <1>2, <1>4, <2>1, SendStep
  <2> QED
    BY <1>4, <2>2
<1> QED
  BY <1>5, <1>6

\* The form after an error.
LEMMA RefilledStep ==
  ASSUME FormsCore, NEW f \in Forms!Forms, Forms!Toasted(f), UNCHANGED <<polls, log, calls>>,
         faults' \in {faults, faults + 1}, answers' \subseteq answers,
         forms[f].stage \in {"presign", "upload"} \/ (forms[f].stage = "save" /\ faults' = faults + 1),
         \A a \in answers' : a.what = "save" => a.of[1] # f
  PROVE  \E page \in Page : PageOk(f, page) /\ PageStep(f, page)
<1> DEFINE page == Forms!Refilled(forms[f])
<1>1. page \in Page /\ PageOk(f, page)
  BY FormsConstants, PageFacts, ZenonT(30) DEF Forms!Refilled, Page, FormStages, PageOk
<1>2. page.stage = "filling" /\ page.n = forms[f].n
  BY PageFacts DEF Forms!Refilled, Page
<1>3. forms' = [forms EXCEPT ![f] = page]
  BY DEF Forms!Toasted
<1> HIDE DEF page
<1>5. Told(f) = {} \/ faults' = faults + 1
  BY DEF Told
<1>4. PageStep(f, page)
  BY <1>1, <1>2, <1>3, <1>5, QuietStep
<1> QED
  BY <1>1, <1>4

LEMMA PresignStep ==
  ASSUME FormsCore, NEW f \in Forms!Forms, Forms!Presign(f)
  PROVE  \E page \in Page : PageOk(f, page) /\ PageStep(f, page)
<1> USE FormsConstants
<1>1. /\ forms[f].stage = "presign" /\ UNCHANGED <<polls, stored, calls, answers, faults, log>>
      /\ \/ forms' = [forms EXCEPT ![f].stage = "upload", ![f].key = Forms!NewKey(f)]
         \/ Forms!Toasted(f)
  BY DEF Forms!Presign
<1>2. \A a \in answers' : a.what = "save" => a.of[1] # f
  BY <1>1, PageFacts
<1>3. CASE forms' = [forms EXCEPT ![f].stage = "upload", ![f].key = Forms!NewKey(f)]
  <2> DEFINE page == [forms[f] EXCEPT !.stage = "upload", !.key = Forms!NewKey(f)]
  <2>1. Forms!NewKey(f) \in Forms!Submits
    BY <1>1, PageFacts DEF Forms!NewKey, Forms!Submits, PageOk
  <2>2. page \in Page
    BY <2>1, PageFacts DEF Page, FormStages
  <2>3. PageOk(f, page)
    BY <1>1, PageFacts DEF PageOk, Page
  <2>4. page.stage = "upload" /\ page.n = forms[f].n /\ Told(f) = {}
    BY <1>1, PageFacts DEF Page, Told
  <2>5. forms' = [forms EXCEPT ![f] = page]
    BY <1>3
  <2> HIDE DEF page
  <2>6. PageStep(f, page)
    BY <1>1, <1>2, <2>2, <2>4, <2>5, QuietStep, PageFacts
  <2> QED
    BY <2>2, <2>3, <2>6
<1>4. CASE Forms!Toasted(f)
  BY <1>1, <1>2, <1>4, RefilledStep, PageFacts
<1> QED
  BY <1>1, <1>3, <1>4

LEMMA UploadStep ==
  ASSUME FormsCore, NEW f \in Forms!Forms, Forms!Upload(f)
  PROVE  \E page \in Page : PageOk(f, page) /\ PageStep(f, page)
<1> USE FormsConstants
<1> DEFINE page == [forms[f] EXCEPT !.stage = "save"]
<1>1. /\ forms[f].stage = "upload" /\ UNCHANGED <<polls, answers, faults, log>>
      /\ Forms!Send(f, page, "save") \/ (Forms!Toasted(f) /\ UNCHANGED calls)
  BY DEF Forms!Upload
<1>2. page \in Page /\ PageOk(f, page)
  BY <1>1, PageFacts DEF Page, FormStages, PageOk
<1>3. page.stage = "save" /\ page.n = forms[f].n + 0
  BY PageFacts DEF Page
<1> HIDE DEF page
<1>4. CASE Forms!Send(f, page, "save")
  BY <1>1, <1>2, <1>3, <1>4, SendStep
<1>5. CASE Forms!Toasted(f) /\ UNCHANGED calls
  BY <1>1, <1>5, RefilledStep, PageFacts
<1> QED
  BY <1>1, <1>4, <1>5

LEMMA DeleteStep ==
  ASSUME FormsCore, NEW f \in Forms!Forms, Forms!Delete(f)
  PROVE  \E page \in Page : PageOk(f, page) /\ PageStep(f, page)
<1> USE FormsConstants
<1> DEFINE page == [forms[f] EXCEPT !.deleting = TRUE]
<1>1. /\ f \in EditForms /\ forms[f].stage = "filling" /\ Forms!Send(f, page, "delete")
      /\ UNCHANGED <<polls, stored, answers, faults, log>>
  BY DEF Forms!Delete, Forms!CanSubmit
<1>2. page \in Page /\ PageOk(f, page)
  BY <1>1, PageFacts DEF Page, FormStages, PageOk
<1>3. SamePage(page, forms[f])
  BY PageFacts DEF Page, SamePage
<1> HIDE DEF page
<1>4. PageStep(f, page)
  BY <1>1, <1>2, <1>3, SameStep, PageFacts DEF Forms!Send, SamePage
<1> QED
  BY <1>2, <1>4

LEMMA ReceiveStep ==
  ASSUME FormsCore, NEW a \in answers, Forms!Receive(a)
  PROVE  a.of[1] \in Forms!Forms /\ \E page \in Page : PageOk(a.of[1], page) /\ PageStep(a.of[1], page)
<1> USE FormsConstants
<1> DEFINE f == a.of[1]
           page == Forms!Heard(forms[f], a)
<1>1. f \in Forms!Forms /\ a.of \in Forms!Forms \X (0 .. MaxSubmits) /\ a.ok \in BOOLEAN /\ a.what \in {"save", "delete"}
  BY DEF FormsCore, FormTypes, Answers
<1>2. /\ forms' = [forms EXCEPT ![f] = page] /\ answers' = answers \ {a}
      /\ UNCHANGED <<polls, stored, calls, faults, log>>
  BY DEF Forms!Receive
<1>3. forms[f] \in Page /\ PageOk(f, forms[f]) /\ faults \in Nat
  BY <1>1, PageFacts
<1>4. CASE a.what = "save"
  <2>1. a.of = <<f, forms[f].n>> /\ forms[f].stage = "save"
    BY <1>1, <1>4, PageFacts
  <2>2. a.of \in Forms!Submits
    BY <1>1, <1>3, <2>1, PageFacts DEF Forms!Submits, PageOk
  <2>3. page \in Page /\ PageOk(f, page)
    BY <1>3, <1>4, <2>1, <2>2 DEF Page, FormStages, PageOk, Forms!Heard, Forms!Refilled
  <2>4. page.stage \in {"filling", "saved"} /\ page.n = forms[f].n
    BY <1>3, <1>4 DEF Page, Forms!Heard, Forms!Refilled
  <2>5. ASSUME NEW b \in answers, b.what = "save", b.of[1] = f PROVE b = a
    <3>1. b.of[2] = forms[f].n /\ b.of = <<b.of[1], b.of[2]>>
      BY <1>1, <2>5, PageFacts DEF Answers
    <3> QED
      BY <1>4, <2>1, <2>5, <3>1 DEF FormsCore, AnswersInv
  <2>6. \A c \in Saves : c.of # <<f, forms[f].n>>
    BY <1>4, <2>1 DEF FormsCore, AnswersInv
  <2>7. page.stage = "saved" => Done(f) /\ SavedPage(f, page)
    BY <1>1, <1>3, <1>4, <2>1 DEF Page, Forms!Heard, Forms!Refilled, Done, SavedPage, PageOk, Target
  <2>8. page.stage # "saved" => Told(f) = {}
    <3>1. page.stage # "saved" => ~ a.ok
      BY <1>3, <1>4 DEF Page, Forms!Heard
    <3> QED
      BY <1>4, <2>1, <3>1 DEF Told
  <2> HIDE DEF page
  <2>9. PageStep(f, page)
    <3>1. \A b \in answers' : b.what = "save" => b.of[1] # f
      BY <1>2, <2>5
    <3>2. \A c \in Saves : c.of # <<f, page.n>>
      BY <2>4, <2>6
    <3>3. faults' = faults /\ answers' \subseteq answers /\ UNCHANGED <<polls, log, calls>>
      BY <1>2, <1>3
    <3> HIDE DEF f
    <3> QED BY <1>1, <1>2, <2>3, <2>4, <2>7, <2>8, <3>1, <3>2, <3>3, QuietStep
  <2> QED
    BY <1>1, <2>3, <2>9
<1>5. CASE a.what = "delete"
  <2>1. page \in Page /\ PageOk(f, page)
    BY <1>1, <1>3, <1>5 DEF Page, FormStages, PageOk, Forms!Heard
  <2>2. SamePage(page, forms[f])
    BY <1>3, <1>5 DEF Page, Forms!Heard, SamePage
  <2> HIDE DEF page
  <2>3. PageStep(f, page)
    <3> HIDE DEF f
    <3> QED BY <1>1, <1>2, <1>3, <2>1, <2>2, SameStep
  <2> QED
    BY <1>1, <2>1, <2>3
<1> QED
  BY <1>1, <1>4, <1>5

LEMMA LoseStep ==
  ASSUME FormsCore, NEW f \in Forms!Forms, NEW what \in {"save", "delete"}, Forms!Lose(f, what)
  PROVE  \E page \in Page : PageOk(f, page) /\ PageStep(f, page)
<1> USE FormsConstants
<1>1. /\ IF what = "save" THEN forms[f].stage = "save" ELSE forms[f].deleting
      /\ answers' = {a \in answers : ~ (a.of[1] = f /\ a.what = what)}
      /\ faults' = faults + 1 /\ UNCHANGED <<polls, stored, calls, log>>
      /\ forms' = [forms EXCEPT ![f] = Forms!Heard(@, [what |-> what, of |-> <<f, @.n>>, ok |-> FALSE])]
  BY DEF Forms!Lose, Forms!Fault
<1>2. faults' \in {faults, faults + 1} /\ answers' \subseteq answers
  BY <1>1, PageFacts
<1>3. CASE what = "save"
  <2>1. Forms!Toasted(f)
    BY <1>1, <1>3 DEF Forms!Heard, Forms!Toasted
  <2> QED
    BY <1>1, <1>2, <1>3, <2>1, RefilledStep
<1>4. CASE what = "delete"
  <2> DEFINE page == [forms[f] EXCEPT !.deleting = FALSE]
             heard == Forms!Heard(forms[f], [what |-> what, of |-> <<f, forms[f].n>>, ok |-> FALSE])
  <2>1. page \in Page /\ PageOk(f, page)
    BY PageFacts DEF Page, FormStages, PageOk
  <2>2. SamePage(page, forms[f])
    BY PageFacts DEF Page, SamePage
  <2>3. heard = page
    BY <1>4, PageFacts DEF Forms!Heard, Page
  <2> HIDE DEF page
  <2>4. forms' = [forms EXCEPT ![f] = page]
    BY <1>1, <2>3
  <2>5. PageStep(f, page)
    BY <1>1, <1>2, <2>1, <2>2, <2>4, SameStep
  <2> QED
    BY <2>1, <2>5
<1> QED
  BY <1>3, <1>4

LEMMA PageSteps ==
  ASSUME FormsCore, NEW f \in Forms!Forms,
         \/ Forms!Load(f) \/ Forms!Submit(f) \/ Forms!Presign(f) \/ Forms!Upload(f) \/ Forms!Delete(f)
         \/ \E what \in {"save", "delete"} : Forms!Lose(f, what)
  PROVE  \E page \in Page : PageOk(f, page) /\ PageStep(f, page)
BY LoadStep, SubmitStep, PresignStep, UploadStep, DeleteStep, LoseStep

\* Every step is a step of a page or of the poll service.
LEMMA FormsSteps ==
  ASSUME FormsCore, Forms!Next
  PROVE  \/ \E f \in Forms!Forms, page \in Page : PageOk(f, page) /\ PageStep(f, page)
         \/ \E c \in calls, ok \in BOOLEAN :
              /\ Handled(c, ok)
              /\ \/ Applied(c) /\ (ok \/ faults' = faults + 1)
                 \/ Gone(c) /\ (~ ok \/ c.what = "delete")
<1>1. ASSUME NEW f \in Forms!Forms,
             \/ Forms!Load(f) \/ Forms!Submit(f) \/ Forms!Presign(f) \/ Forms!Upload(f) \/ Forms!Delete(f)
             \/ \E what \in {"save", "delete"} : Forms!Lose(f, what)
      PROVE  \E page \in Page : PageOk(f, page) /\ PageStep(f, page)
  BY <1>1, PageSteps
<1>2. ASSUME NEW c \in calls, Forms!Handle(c)
      PROVE  \E ok \in BOOLEAN :
               /\ Handled(c, ok)
               /\ \/ Applied(c) /\ (ok \/ faults' = faults + 1)
                  \/ Gone(c) /\ (~ ok \/ c.what = "delete")
  BY <1>2, HandleEffects
<1>3. ASSUME NEW a \in answers, Forms!Receive(a)
      PROVE  a.of[1] \in Forms!Forms /\ \E page \in Page : PageOk(a.of[1], page) /\ PageStep(a.of[1], page)
  BY <1>3, ReceiveStep
<1> QED
  BY <1>1, <1>2, <1>3 DEF Forms!Next

LEMMA FormsCoreInit == Forms!Init => FormsCore
<1> SUFFICES ASSUME Forms!Init PROVE FormsCore
  OBVIOUS
<1>1. PICK q \in Questions, T \in Forms!TagSets :
        polls = [p \in Forms!PollIds |-> IF p = First THEN [question |-> q, tags |-> T, image |-> First] ELSE None]
  BY DEF Forms!Init
<1> USE FormsConstants DEF Forms!Init
<1>2. forms \in [Forms!Forms -> Page] /\ \A f \in Forms!Forms : forms[f].stage \in {"loading", "filling"}
  <2>1. Forms!NewForm \in Page /\ Forms!NewForm.stage = "loading"
    BY DEF Forms!NewForm, Page, FormStages
  <2>2. \A page \in Page : [page EXCEPT !.stage = "filling"] \in Page /\ [page EXCEPT !.stage = "filling"].stage = "filling"
    BY DEF Page, FormStages
  <2> QED
    BY <2>1, <2>2
<1>3. polls \in [Forms!PollIds -> Forms!Poll \cup {None}]
  BY <1>1 DEF Forms!Poll, Forms!TagSets
<1>4. FormTypes
  BY <1>2, <1>3 DEF FormTypes
<1>5. PagesInv
  BY DEF PagesInv, PageOk, Forms!NewForm
<1>6. \A s \in Forms!Submits : Untouched(s)
  BY <1>1 DEF Untouched
<1>7. UnsentInv
  BY <1>6 DEF UnsentInv, Saves, Forms!Submits
<1> QED
  BY <1>2, <1>4, <1>5, <1>7 DEF FormsCore, CallsInv, AnswersInv, Saves

LEMMA FormsCoreStep ==
  ASSUME FormsCore, [Forms!Next]_(Forms!vars)
  PROVE  FormsCore'
<1>1. CASE Forms!Next
  BY <1>1, FormsSteps, PageKeepsCore, HandleStep
<1>2. CASE UNCHANGED Forms!vars
  BY <1>2 DEF Forms!vars, FormsCore, FormTypes, PagesInv, PageOk, UnsentInv, Unsent, Untouched,
      CallsInv, AnswersInv, Saves, Forms!Waits
<1> QED
  BY <1>1, <1>2

\* The inductive invariant of the forms, from which the rest follows: a number
\* a form has not sent yet and a request on its way have touched no poll, and no
\* submit is sent or answered twice (handleSubmit, CreatePoll, UpdatePoll).
THEOREM FormsInvCorrect == Forms!Spec => []FormsCore
<1>1. FormsCore /\ [Forms!Next]_(Forms!vars) => FormsCore'
  BY FormsCoreStep
<1> QED
  BY <1>1, FormsCoreInit, PTL DEF Forms!Spec

-----------------------------------------------------------------------------
\* The pictures.
LEMMA ImagesInit == Forms!Init => ImagesInv
<1> SUFFICES ASSUME Forms!Init PROVE ImagesInv
  OBVIOUS
<1>1. PICK q \in Questions, T \in Forms!TagSets :
        polls = [p \in Forms!PollIds |-> IF p = First THEN [question |-> q, tags |-> T, image |-> First] ELSE None]
  BY DEF Forms!Init
<1> QED
  BY <1>1 DEF Forms!Init, ImagesInv, ImagesAreStored, Forms!ImagesAreStored, Saves

LEMMA ImagesStep ==
  ASSUME FormsCore, ImagesInv, [Forms!Next]_(Forms!vars)
  PROVE  ImagesInv'
<1> USE DEF ImagesInv, ImagesAreStored, Forms!ImagesAreStored
<1>1. ASSUME polls' = polls, stored \subseteq stored',
             \A c \in Saves' : c \in Saves \/ c.key = None \/ c.key \in stored'
      PROVE  ImagesInv'
  BY <1>1
<1>2. CASE UNCHANGED Forms!vars
  BY <1>1, <1>2 DEF Forms!vars, Saves
<1>3. ASSUME NEW f \in Forms!Forms, Forms!Load(f) \/ Forms!Presign(f) \/ (\E what \in {"save", "delete"} : Forms!Lose(f, what))
      PROVE  ImagesInv'
  <2>1. UNCHANGED <<polls, stored, calls>>
    BY <1>3 DEF Forms!Load, Forms!Presign, Forms!Lose
  <2> QED
    BY <1>1, <2>1 DEF Saves
<1>4. ASSUME NEW f \in Forms!Forms, Forms!Delete(f) PROVE ImagesInv'
  <2>1. UNCHANGED <<polls, stored>> /\ Saves' \subseteq Saves
    BY <1>4 DEF Forms!Delete, Forms!Send, Forms!Call, Saves
  <2> QED
    BY <1>1, <2>1
<1>5. ASSUME NEW f \in Forms!Forms, Forms!Submit(f) PROVE ImagesInv'
  <2>1. PICK F \in Fields :
          LET page == [forms[f] EXCEPT !.n = @ + 1, !.fields = F, !.key = None] IN
            \/ UNCHANGED calls
            \/ Forms!Send(f, [page EXCEPT !.stage = "save"], "save")
    BY <1>5 DEF Forms!Submit
  <2>2. forms[f] \in Page /\ UNCHANGED <<polls, stored>>
    BY <1>5, PageFacts DEF Forms!Submit
  <2> DEFINE sent == [[forms[f] EXCEPT !.n = @ + 1, !.fields = F, !.key = None] EXCEPT !.stage = "save"]
  <2>3. sent.key = None
    BY <2>2 DEF Page
  <2>4. UNCHANGED calls \/ Forms!Send(f, sent, "save")
    BY <2>1
  <2> HIDE DEF sent
  <2>5. \A c \in Saves' : c \in Saves \/ c.key = None
    BY <2>3, <2>4 DEF Forms!Send, Forms!Call, Saves
  <2> QED
    BY <1>1, <2>2, <2>5
<1>6. ASSUME NEW f \in Forms!Forms, Forms!Upload(f) PROVE ImagesInv'
  <2> DEFINE sent == [forms[f] EXCEPT !.stage = "save"]
  <2>1. /\ UNCHANGED polls
        /\ \/ Forms!Stores(f) /\ Forms!Send(f, sent, "save")
           \/ (Forms!Stores(f) \/ UNCHANGED stored) /\ UNCHANGED calls
    BY <1>6 DEF Forms!Upload
  <2>2. sent.key = forms[f].key
    BY PageFacts DEF Page
  <2> HIDE DEF sent
  <2>3. stored \subseteq stored' /\ \A c \in Saves' : c \in Saves \/ c.key \in stored'
    BY <2>1, <2>2 DEF Forms!Stores, Forms!Send, Forms!Call, Saves
  <2> QED
    BY <1>1, <2>1, <2>3
<1>7. ASSUME NEW a \in answers, Forms!Receive(a) PROVE ImagesInv'
  BY <1>1, <1>7 DEF Forms!Receive, Saves
<1>8. ASSUME NEW c \in calls, Forms!Handle(c) PROVE ImagesInv'
  <2>1. PICK ok \in BOOLEAN : Handled(c, ok) /\ (Applied(c) \/ Gone(c))
    BY <1>8, HandleEffects
  <2>2. stored' = stored /\ Saves' \subseteq Saves /\ polls \in [Forms!PollIds -> Forms!Poll \cup {None}]
    BY <2>1 DEF Handled, Saves, FormsCore, FormTypes
  <2>3. ASSUME NEW p \in Forms!PollIds, polls'[p] # None, polls'[p].image # None
        PROVE  polls'[p].image \in stored
    <3>1. CASE Applied(c) /\ p = Written(c)
      <4>1. PICK poll \in Forms!Poll :
              /\ polls' = [polls EXCEPT ![Written(c)] = poll]
              /\ \/ poll.image \in {None, c.key}
                 \/ polls[Written(c)] # None /\ poll.image = polls[Written(c)].image
        BY <3>1 DEF Applied
      <4>2. polls'[p] = poll /\ c \in Saves
        BY <2>2, <3>1, <4>1 DEF Applied
      <4> QED
        BY <2>3, <3>1, <4>1, <4>2
    <3>2. CASE Applied(c) /\ p # Written(c)
      BY <2>2, <2>3, <3>2 DEF Applied
    <3>3. CASE Gone(c)
      BY <2>2, <2>3, <3>3 DEF Gone
    <3> QED
      BY <2>1, <3>1, <3>2, <3>3
  <2> QED
    BY <2>2, <2>3
<1> QED
  BY <1>2, <1>3, <1>4, <1>5, <1>6, <1>7, <1>8 DEF Forms!Next

\* The picture of every poll is in the object store: uploads are made before
\* the request that names them, and a failed one is never named (uploadImage,
\* CreatePoll, UpdatePoll).
THEOREM ImagesCorrect == Forms!Spec => []ImagesAreStored
<1>1. Forms!Init => FormsCore /\ ImagesInv
  BY FormsCoreInit, ImagesInit
<1>2. FormsCore /\ ImagesInv /\ [Forms!Next]_(Forms!vars) => FormsCore' /\ ImagesInv'
  BY FormsCoreStep, ImagesStep
<1>3. ImagesInv => ImagesAreStored
  BY DEF ImagesInv
<1> QED
  BY <1>1, <1>2, <1>3, PTL DEF Forms!Spec

-----------------------------------------------------------------------------
\* What a saved form shows.
LEMMA ShownInit == Forms!Init => ShownInv
<1> SUFFICES ASSUME Forms!Init PROVE ShownInv
  OBVIOUS
<1>1. answers = {} /\ \A f \in Forms!Forms : forms[f].stage # "saved"
  BY DEF Forms!Init, Forms!NewForm
<1> QED
  BY <1>1 DEF ShownInv, Done

\* A submit that has taken effect is not on its way.
LEMMA DoneIsSent ==
  ASSUME FormsCore, NEW f \in Forms!Forms, Done(f)
  PROVE  \A c \in Saves : c.of # <<f, forms[f].n>>
<1>1. CASE forms[f].stage = "saved"
  BY <1>1 DEF FormsCore, AnswersInv
<1>2. ASSUME NEW a \in answers, a.what = "save", a.of[1] = f
      PROVE  \A c \in Saves : c.of # <<f, forms[f].n>>
  <2>1. a.of = <<f, forms[f].n>>
    BY <1>2, PageFacts DEF Answers
  <2> QED
    BY <1>2, <2>1 DEF FormsCore, AnswersInv
<1> QED
  BY <1>1, <1>2 DEF Done

LEMMA ShownPageStep ==
  ASSUME FormsCore, ShownInv, NEW f \in Forms!Forms, NEW page \in Page, PageStep(f, page)
  PROVE  ShownInv'
<1>0. forms \in [Forms!Forms -> Page] /\ forms'[f] = page /\ \A g \in Forms!Forms : g # f => forms'[g] = forms[g]
  BY DEF FormsCore, FormTypes, PageStep
<1>1. ASSUME NEW g \in Forms!Forms, Done(g)'
      PROVE  Done(g) /\ forms'[g].n = forms[g].n /\ forms'[g].fields = forms[g].fields /\ forms'[g].key = forms[g].key
             /\ Target(g)' = Target(g)
  <2>1. CASE g # f
    BY <1>0, <1>1, <2>1 DEF Done, Target, PageStep
  <2>2. CASE g = f
    <3>1. CASE page.stage = "saved"
      BY <1>0, <2>2, <3>1 DEF PageStep, SamePage, SavedPage, Done, Target
    <3>2. CASE page.stage # "saved"
      <4>1. PICK a \in answers' : a.what = "save" /\ a.ok /\ a.of[1] = f
        BY <1>0, <1>1, <2>2, <3>2 DEF Done
      <4>2. a \in answers /\ page.stage = "save" /\ forms[f].stage = "save"
        BY <4>1, PageFacts DEF PageStep
      <4>3. SamePage(page, forms[f])
        BY <4>2 DEF PageStep
      <4> QED
        BY <1>0, <2>2, <4>1, <4>2, <4>3 DEF SamePage, Done, Target
    <3> QED
      BY <3>1, <3>2
  <2> QED
    BY <2>1, <2>2
<1>2. ASSUME NEW g \in Forms!Forms, forms'[g].stage = "saved" PROVE forms'[g].poll = Target(g)'
  <2>1. CASE g # f
    BY <1>0, <1>2, <2>1 DEF ShownInv, Target
  <2>2. CASE g = f
    BY <1>0, <1>2, <2>2 DEF ShownInv, PageStep, SamePage, SavedPage, Target
  <2> QED
    BY <2>1, <2>2
<1>3. polls' = polls /\ log' = log
  BY DEF PageStep
<1>4. ASSUME NEW g \in Forms!Forms, Done(g)'
      PROVE  LET past == log'[Target(g)'] IN
               /\ \E i \in DOMAIN past : past[i] = <<g, forms'[g].n>>
               /\ past[Len(past)] = <<g, forms'[g].n>> /\ polls'[Target(g)'] # None =>
                    Shows(polls'[Target(g)'], forms'[g])
  <2>1. LET past == log[Target(g)] IN
          /\ \E i \in DOMAIN past : past[i] = <<g, forms[g].n>>
          /\ past[Len(past)] = <<g, forms[g].n>> /\ polls[Target(g)] # None => Shows(polls[Target(g)], forms[g])
    BY <1>1, <1>4 DEF ShownInv
  <2> QED
    BY <1>1, <1>3, <1>4, <2>1 DEF Shows
<1> QED
  BY <1>2, <1>4 DEF ShownInv

\* The poll of a form that has taken effect is one.
LEMMA DonePoll ==
  ASSUME FormsCore, ShownInv, NEW f \in Forms!Forms, Done(f)
  PROVE  Target(f) \in Forms!PollIds /\ log[Target(f)] \in Seq(Forms!Submits)
<1> USE FormsConstants
<1>1. forms[f] \in Page /\ PageOk(f, forms[f]) /\ forms[f].stage \in {"save", "saved"}
  BY PageFacts DEF Done
<1>2. forms[f].n \in 1 .. MaxSubmits
  BY <1>1, PageFacts DEF PageOk
<1>3. Target(f) \in Forms!PollIds
  BY <1>1, <1>2 DEF Target, Forms!Submits, PageOk, Page
<1> QED
  BY <1>3 DEF FormsCore, FormTypes

LEMMA ShownHandleStep ==
  ASSUME FormsCore, ShownInv, NEW c \in calls, NEW ok \in BOOLEAN, Handled(c, ok),
         Applied(c) \/ (Gone(c) /\ (~ ok \/ c.what = "delete"))
  PROVE  ShownInv'
<1> USE FormsConstants
<1>0. /\ c \in Calls /\ polls \in [Forms!PollIds -> Forms!Poll \cup {None}]
      /\ log \in [Forms!PollIds -> Seq(Forms!Submits)] /\ forms' = forms
      /\ \A f : Target(f)' = Target(f)
  BY DEF FormsCore, FormTypes, Handled, Target
<1>1. ASSUME NEW f \in Forms!Forms, Done(f)', ~ Done(f)
      PROVE  Applied(c) /\ c.of = <<f, forms[f].n>> /\ Written(c) = Target(f) /\ Forms!Waits(c)
  <2>1. PICK a \in answers' : a \notin answers /\ a.what = "save" /\ a.ok /\ a.of[1] = f
    BY <1>0, <1>1 DEF Done
  <2>2. a = [what |-> c.what, of |-> c.of, ok |-> ok] /\ Forms!Waits(c)
    BY <2>1 DEF Handled
  <2>3. c.what = "save" /\ ok /\ c.of[1] = f /\ c \in Saves
    BY <2>1, <2>2 DEF Saves
  <2>4. Applied(c)
    BY <2>3
  <2>5. c.of \in Forms!Submits /\ c.of[2] = forms[f].n /\ c.poll = forms[f].poll
    BY <2>2, <2>3 DEF FormsCore, CallsInv, Forms!Waits
  <2>6. c.of = <<f, forms[f].n>>
    BY <2>3, <2>5 DEF Forms!Submits
  <2> QED
    BY <2>2, <2>3, <2>4, <2>5, <2>6 DEF Written, Target
<1>2. ASSUME NEW f \in Forms!Forms, Done(f)'
      PROVE  LET past == log'[Target(f)] IN
               /\ \E i \in DOMAIN past : past[i] = <<f, forms[f].n>>
               /\ past[Len(past)] = <<f, forms[f].n>> /\ polls'[Target(f)] # None =>
                    Shows(polls'[Target(f)], forms[f])
  <2> DEFINE p == Target(f)
             s == <<f, forms[f].n>>
  <2>1. CASE Done(f)
    <3>1. /\ \E i \in DOMAIN log[p] : log[p][i] = s
          /\ log[p][Len(log[p])] = s /\ polls[p] # None => Shows(polls[p], forms[f])
      BY <2>1 DEF ShownInv
    <3>2. p \in Forms!PollIds /\ log[p] \in Seq(Forms!Submits)
      BY <2>1, DonePoll
    <3>3. CASE Gone(c) \/ (Applied(c) /\ Written(c) # p)
      <4>1. log'[p] = log[p] /\ (polls'[p] = polls[p] \/ polls'[p] = None)
        BY <1>0, <3>2, <3>3 DEF Gone, Applied
      <4> QED
        BY <3>1, <4>1
    <3>4. CASE Applied(c) /\ Written(c) = p
      <4>1. log'[p] = Append(log[p], c.of) /\ c \in Saves
        BY <1>0, <3>2, <3>4 DEF Applied
      <4>2. c.of # s
        BY <2>1, <4>1, DoneIsSent
      <4> HIDE DEF p, s
      <4>3. log'[p][Len(log'[p])] = c.of /\ \A i \in DOMAIN log[p] : i \in DOMAIN log'[p] /\ log'[p][i] = log[p][i]
        BY <3>2, <4>1
      <4>4. \E i \in DOMAIN log'[p] : log'[p][i] = s
        BY <3>1, <4>3
      <4>5. log'[p][Len(log'[p])] # s
        BY <4>2, <4>3
      <4> QED
        BY <4>4, <4>5 DEF p, s
    <3> QED
      BY <3>3, <3>4
  <2>2. CASE ~ Done(f)
    <3>1. Applied(c) /\ c.of = s /\ Written(c) = p /\ Forms!Waits(c)
      BY <1>1, <1>2, <2>2
    <3>2. /\ c \in Saves /\ p \in Forms!PollIds /\ log' = [log EXCEPT ![p] = Append(@, s)]
          /\ \E poll \in Forms!Poll : polls' = [polls EXCEPT ![p] = poll] /\ Shows(poll, c)
      BY <3>1 DEF Applied
    <3>3. c.fields = forms[f].fields /\ c.key = forms[f].key
      BY <3>1, <3>2 DEF FormsCore, CallsInv
    <3>4. Shows(polls'[p], forms[f])
      BY <1>0, <3>2, <3>3 DEF Shows
    <3> HIDE DEF p, s
    <3>5. log'[p] = Append(log[p], s) /\ log[p] \in Seq(Forms!Submits)
      BY <1>0, <3>2
    <3>6. Len(log'[p]) \in DOMAIN log'[p] /\ log'[p][Len(log'[p])] = s
      BY <3>5
    <3> QED
      BY <3>4, <3>6 DEF p, s
  <2> QED
    BY <2>1, <2>2
<1>3. \A f \in Forms!Forms : forms'[f].stage = "saved" => forms'[f].poll = Target(f)'
  BY <1>0 DEF ShownInv
<1> QED
  BY <1>0, <1>2, <1>3 DEF ShownInv

\* The author of a saved form: its submit took effect, and as long as no other
\* submit changed the poll since, the poll shows what was filled in (handleSubmit
\* of the pages that create and edit, CreatePoll, UpdatePoll).
THEOREM SavedCorrect == Forms!Spec => []SavedAsShown
<1>1. Forms!Init => FormsCore /\ ShownInv
  BY FormsCoreInit, ShownInit
<1>2. ASSUME FormsCore, ShownInv, [Forms!Next]_(Forms!vars) PROVE FormsCore' /\ ShownInv'
  <2>1. CASE Forms!Next
    BY <1>2, <2>1, FormsSteps, FormsCoreStep, ShownPageStep, ShownHandleStep
  <2>2. CASE UNCHANGED Forms!vars
    BY <1>2, <2>2, FormsCoreStep, ZenonT(30) DEF Forms!vars, ShownInv, Done, Target, Shows
  <2> QED
    BY <1>2, <2>1, <2>2
<1>3. ASSUME FormsCore, ShownInv PROVE SavedAsShown
  <2>1. ASSUME NEW f \in Forms!Forms, forms[f].stage = "saved"
        PROVE  LET past == log[forms[f].poll] IN
                 /\ \E i \in DOMAIN past : past[i] = <<f, forms[f].n>>
                 /\ past[Len(past)] = <<f, forms[f].n>> /\ polls[forms[f].poll] # None =>
                      Shows(polls[forms[f].poll], forms[f])
    BY <1>3, <2>1 DEF ShownInv, Done
  <2> QED
    BY <2>1 DEF SavedAsShown, Forms!SavedAsShown, Shows
<1> QED
  BY <1>1, <1>2, <1>3, PTL DEF Forms!Spec

-----------------------------------------------------------------------------
\* The polls of a form.

\* Cardinality as the module of the forms has it.
LEMMA FormsCardinality == \A S : Forms!Cardinality(S) = Cardinality(S)
  BY DEF Forms!Cardinality, Cardinality

\* The polls a form has created or may, but does not know of.
Unheard(f) == (Made(f) \cup Coming(f)) \ Told(f)

LEMMA UnheardSize ==
  ASSUME NEW f
  PROVE  /\ IsFiniteSet(Unheard(f)) /\ Cardinality(Unheard(f)) \in Nat
         /\ IsFiniteSet(Unheard(f)') /\ Cardinality(Unheard(f)') \in Nat
<1>1. IsFiniteSet(1 .. MaxSubmits)
  BY FS_Interval, FormsConstants
<1>2. Unheard(f) \subseteq 1 .. MaxSubmits /\ Unheard(f)' \subseteq 1 .. MaxSubmits
  BY DEF Unheard, Made, Coming
<1>3. IsFiniteSet(Unheard(f)) /\ IsFiniteSet(Unheard(f)')
  BY <1>1, <1>2, FS_Subset
<1> QED
  BY <1>3, FS_CardinalityType

LEMMA OneMore ==
  ASSUME NEW S, IsFiniteSet(S), NEW n
  PROVE  /\ IsFiniteSet(S \cup {n}) /\ Cardinality(S \cup {n}) \in Nat
         /\ Cardinality(S \cup {n}) <= Cardinality(S) + 1
<1>1. IsFiniteSet(S \cup {n}) /\ Cardinality(S \cup {n}) = IF n \in S THEN Cardinality(S) ELSE Cardinality(S) + 1
  BY FS_AddElement
<1>2. Cardinality(S) \in Nat
  BY FS_CardinalityType
<1> QED
  BY <1>1, <1>2

\* A step after which a form does not know of one poll more, for a fault.
LEMMA UnheardGrows ==
  ASSUME NEW f, NEW n, faults \in Nat, Cardinality(Unheard(f)) <= faults,
         \/ Unheard(f)' \subseteq Unheard(f) /\ faults' \in {faults, faults + 1}
         \/ faults' = faults + 1 /\ Unheard(f)' \subseteq Unheard(f) \cup {n}
  PROVE  Cardinality(Unheard(f)') <= faults'
<1> DEFINE S == Unheard(f)
           T == Unheard(f)'
<1>1. IsFiniteSet(S) /\ Cardinality(S) \in Nat /\ Cardinality(T) \in Nat
  BY UnheardSize
<1> HIDE DEF S, T
<1> SUFFICES Cardinality(T) <= faults'
  BY DEF T
<1>2. ASSUME T \subseteq S PROVE Cardinality(T) <= Cardinality(S)
  BY <1>1, <1>2, FS_Subset
<1>3. ASSUME T \subseteq S \cup {n} PROVE Cardinality(T) <= Cardinality(S) + 1
  <2>1. IsFiniteSet(S \cup {n}) /\ Cardinality(S \cup {n}) \in Nat /\ Cardinality(S \cup {n}) <= Cardinality(S) + 1
    BY <1>1, OneMore
  <2>2. Cardinality(T) <= Cardinality(S \cup {n})
    BY <1>3, <2>1, FS_Subset
  <2> QED
    BY <1>1, <2>1, <2>2
<1>4. Cardinality(S) <= faults
  BY DEF S
<1>5. \/ T \subseteq S /\ faults' \in {faults, faults + 1}
      \/ faults' = faults + 1 /\ T \subseteq S \cup {n}
  BY DEF S, T
<1>6. CASE T \subseteq S /\ faults' \in {faults, faults + 1}
  BY <1>1, <1>2, <1>4, <1>6
<1>7. CASE faults' = faults + 1 /\ T \subseteq S \cup {n}
  BY <1>1, <1>3, <1>4, <1>7
<1> QED
  BY <1>5, <1>6, <1>7

LEMMA FaultsInit == Forms!Init => FaultsInv
<1> SUFFICES ASSUME Forms!Init PROVE FaultsInv
  OBVIOUS
<1>1. PICK q \in Questions, T \in Forms!TagSets :
        polls = [p \in Forms!PollIds |-> IF p = First THEN [question |-> q, tags |-> T, image |-> First] ELSE None]
  BY DEF Forms!Init
<1>2. \A p \in Forms!Submits : polls[p] = None
  BY <1>1, FormsConstants
<1>3. faults = 0 /\ Saves = {} /\ \A p \in Forms!PollIds : log[p] = <<>>
  BY DEF Forms!Init, Saves
<1>4. ASSUME NEW f \in CreateForms PROVE Unheard(f) = {}
  <2>1. \A n \in 1 .. MaxSubmits : <<f, n>> \in Forms!PollIds
    BY <1>4, FormsConstants DEF Forms!Submits
  <2> QED
    BY <1>3, <2>1 DEF Unheard, Made, Coming
<1>5. \A f \in CreateForms : Cardinality(Unheard(f)) <= faults
  <2>1. Cardinality({}) = 0
    BY FS_EmptySet
  <2>2. Cardinality({}) <= faults
    BY <1>3, <2>1
  <2> QED
    BY <1>4, <2>2
<1> QED
  BY <1>2, <1>5 DEF FaultsInv, Unheard

LEMMA FaultsPageStep ==
  ASSUME FormsCore, FaultsInv, NEW f \in Forms!Forms, NEW page \in Page, PageOk(f, page), PageStep(f, page)
  PROVE  FaultsInv'
<1> USE FormsConstants
<1>0. forms \in [Forms!Forms -> Page] /\ forms'[f] = page /\ \A g \in Forms!Forms : g # f => forms'[g] = forms[g]
  BY DEF FormsCore, FormTypes, PageStep
<1>1. faults \in Nat /\ faults' \in {faults, faults + 1} /\ log' = log /\ polls' = polls
  BY PageFacts DEF PageStep
<1> DEFINE sent == Forms!Call(f, page, "save")
<1>2. sent.of = <<f, page.n>>
  BY DEF Forms!Call
<1>3. \/ Saves' = Saves /\ (page.stage # "save" \/ SamePage(page, forms[f]))
      \/ Saves' = Saves \cup {sent} /\ page.stage = "save" /\ forms[f].stage \in {"filling", "upload"}
  BY DEF PageStep, Saves, Forms!Call
<1> HIDE DEF sent
<1>4. ASSUME NEW g \in CreateForms
      PROVE  \/ Unheard(g)' \subseteq Unheard(g)
             \/ faults' = faults + 1 /\ Unheard(g)' \subseteq Unheard(g) \cup {forms[g].n}
  <2>1. CASE g # f
    <3>1. Made(g)' = Made(g) /\ Coming(g)' = Coming(g)
      BY <1>1, <1>2, <1>3, <2>1 DEF Made, Coming
    <3>2. Told(g) \subseteq Told(g)'
      BY <1>0, <2>1 DEF Told, PageStep
    <3> QED
      BY <3>1, <3>2 DEF Unheard
  <2>2. CASE g = f
    <3>1. Made(f)' = Made(f)
      BY <1>1 DEF Made
    <3>2. CASE Saves' = Saves /\ SamePage(page, forms[f])
      <4>1. Told(f) \subseteq Told(f)' /\ Coming(f)' = Coming(f)
        BY <1>0, <3>2 DEF Told, PageStep, SamePage, Coming
      <4> QED
        BY <2>2, <3>1, <4>1 DEF Unheard
    <3>3. CASE Saves' = Saves /\ page.stage = "saved" /\ SavedPage(f, page)
      <4>1. Told(f) \subseteq Told(f)' /\ Coming(f)' = Coming(f)
        BY <1>0, <3>3 DEF Told, SavedPage, Coming
      <4> QED
        BY <2>2, <3>1, <4>1 DEF Unheard
    <3>4. CASE Saves' = Saves /\ page.stage \notin {"save", "saved"}
      <4>1. Coming(f)' = Coming(f) /\ Told(f) \subseteq {forms[f].n}
        BY <3>4 DEF Coming, Told
      <4>2. Unheard(f)' \subseteq Unheard(f) \cup {forms[f].n} /\ (Told(f) = {} => Unheard(f)' \subseteq Unheard(f))
        BY <3>1, <4>1 DEF Unheard
      <4>3. Told(f) = {} \/ faults' = faults + 1
        BY <3>4 DEF PageStep
      <4> QED
        BY <2>2, <4>2, <4>3
    <3>5. CASE Saves' = Saves \cup {sent} /\ page.stage = "save" /\ forms[f].stage \in {"filling", "upload"}
      <4>1. Told(f) = {}
        BY <3>5 DEF Told
      <4>2. \A a \in answers' : a.what = "save" => a.of[1] # f
        BY <3>5, PageFacts DEF PageStep
      <4>3. Told(f)' = {n \in 1 .. MaxSubmits : n = page.n}
        BY <1>0, <3>5, <4>2 DEF Told
      <4>4. Coming(f)' \subseteq Coming(f) \cup {page.n}
        BY <1>2, <3>5 DEF Coming
      <4>5. Coming(f)' \subseteq 1 .. MaxSubmits
        BY DEF Coming
      <4> QED
        BY <2>2, <3>1, <4>1, <4>3, <4>4, <4>5 DEF Unheard
    <3> QED
      BY <1>3, <3>2, <3>3, <3>4, <3>5 DEF PageStep
  <2> QED
    BY <2>1, <2>2
<1>5. \A g \in CreateForms : Cardinality(Unheard(g)) <= faults
  BY DEF FaultsInv, Unheard
<1>6. \A g \in CreateForms : Cardinality(Unheard(g)') <= faults'
  BY <1>1, <1>4, <1>5, UnheardGrows
<1> QED
  BY <1>1, <1>6 DEF FaultsInv, Unheard

LEMMA FaultsHandleStep ==
  ASSUME FormsCore, FaultsInv, NEW c \in calls, NEW ok \in BOOLEAN, Handled(c, ok),
         \/ Applied(c) /\ (ok \/ faults' = faults + 1)
         \/ Gone(c) /\ (~ ok \/ c.what = "delete")
  PROVE  FaultsInv'
<1> USE FormsConstants
<1>0. /\ c \in Calls /\ polls \in [Forms!PollIds -> Forms!Poll \cup {None}]
      /\ log \in [Forms!PollIds -> Seq(Forms!Submits)] /\ forms' = forms
      /\ faults \in Nat /\ faults' \in {faults, faults + 1}
      /\ Saves' = Saves \ {c}
  BY DEF FormsCore, FormTypes, Handled, Saves
<1>1. ASSUME Applied(c)
      PROVE  /\ c \in Saves /\ c.of \in Forms!Submits
             /\ log'[Written(c)] # <<>> /\ \A p \in Forms!PollIds : p # Written(c) => log'[p] = log[p]
             /\ \A p \in Forms!PollIds : p # Written(c) => polls'[p] = polls[p]
             /\ Written(c) = c.of \/ log[Written(c)] # <<>> \/ Written(c) = First
  <2>1. c \in Saves /\ c.of \in Forms!Submits /\ Written(c) \in Forms!PollIds
    BY <1>1 DEF Applied, FormsCore, CallsInv
  <2>2. log'[Written(c)] = Append(log[Written(c)], c.of) /\ log[Written(c)] \in Seq(Forms!Submits)
    BY <1>0, <1>1, <2>1 DEF Applied
  <2>3. log'[Written(c)] # <<>>
    BY <2>2
  <2>4. \A p \in Forms!PollIds : p # Written(c) => log'[p] = log[p] /\ polls'[p] = polls[p]
    BY <1>0, <1>1 DEF Applied
  <2>5. Written(c) = c.of \/ log[Written(c)] # <<>> \/ Written(c) = First
    BY <1>1, <2>1 DEF Applied, FaultsInv
  <2> QED
    BY <2>1, <2>3, <2>4, <2>5
<1>2. ASSUME NEW p \in Forms!Submits, polls'[p] # None PROVE log'[p] # <<>>
  BY <1>0, <1>1, <1>2 DEF Gone, FaultsInv
<1>3. ASSUME NEW f \in CreateForms
      PROVE  \/ Unheard(f)' \subseteq Unheard(f)
             \/ faults' = faults + 1 /\ Unheard(f)' \subseteq Unheard(f) \cup {forms[f].n}
  <2>0. \A n \in 1 .. MaxSubmits : <<f, n>> \in Forms!Submits /\ <<f, n>> \in Forms!PollIds /\ <<f, n>> # First
    BY <1>3 DEF Forms!Submits
  <2>1. CASE c \in Saves /\ c.of[1] = f
    <3>1. c.of \in Forms!Submits /\ c.of = <<f, c.of[2]>> /\ c.of[2] \in 1 .. MaxSubmits /\ Untouched(c.of)
      BY <2>1 DEF FormsCore, CallsInv, Forms!Submits
    <3>2. Written(c) = c.of /\ c.what = "save"
      BY <2>1 DEF Written, Saves
    <3>3. c.of[2] \in Coming(f) /\ Coming(f)' \subseteq Coming(f)
      BY <1>0, <2>1, <3>1 DEF Coming
    <3>4. Made(f)' \subseteq Made(f) \cup {c.of[2]}
      BY <1>1, <2>0, <3>1, <3>2 DEF Made, Gone
    <3>5. Told(f) \subseteq {forms[f].n} /\ Told(f)' \subseteq Told(f)
      BY <1>0 DEF Told, Handled
    <3>6. CASE faults' = faults + 1
      <4>1. Unheard(f)' \subseteq Unheard(f) \cup {forms[f].n}
        BY <3>3, <3>4, <3>5 DEF Unheard
      <4> QED
        BY <3>6, <4>1
    <3>7. CASE ok
      <4>1. Told(f)' = Told(f)
        BY <1>0, <3>7 DEF Told, Handled
      <4> QED
        BY <3>3, <3>4, <4>1 DEF Unheard
    <3>8. CASE Gone(c) /\ ~ ok
      <4>1. Made(f)' = Made(f) /\ c.of[2] \notin Made(f)
        BY <3>1, <3>8 DEF Made, Gone, Untouched
      <4>2. c.of[2] \notin Coming(f)'
        BY <1>0, <2>1, <3>1 DEF Coming, FormsCore, CallsInv
      <4>3. CASE Forms!Waits(c)
        <5>1. forms[f].n = c.of[2]
          BY <2>1, <3>2, <4>3 DEF Forms!Waits
        <5> QED
          BY <3>3, <3>5, <4>1, <4>2, <5>1 DEF Unheard
      <4>4. CASE ~ Forms!Waits(c)
        <5>1. Told(f)' = Told(f)
          BY <1>0, <4>4 DEF Told, Handled
        <5> QED
          BY <3>3, <4>1, <5>1 DEF Unheard
      <4> QED
        BY <4>3, <4>4
    <3> QED
      BY <1>0, <3>2, <3>6, <3>7, <3>8
  <2>2. CASE ~ (c \in Saves /\ c.of[1] = f)
    <3>1. \A n \in 1 .. MaxSubmits : log'[<<f, n>>] # <<>> => log[<<f, n>>] # <<>>
      <4>1. CASE Applied(c)
        BY <1>1, <2>0, <2>2, <4>1
      <4>2. CASE Gone(c)
        BY <4>2 DEF Gone
      <4> QED
        BY <4>1, <4>2
    <3>2. Coming(f)' \subseteq Coming(f)
      BY <1>0 DEF Coming
    <3>3. Told(f) \subseteq Told(f)'
      <4>1. c.what \in {"save", "delete"}
        BY <1>0 DEF Calls
      <4>2. \A a \in answers' : a.what = "save" /\ a.of[1] = f => a \in answers
        BY <2>2, <4>1 DEF Handled, Saves
      <4> QED
        BY <1>0, <4>2 DEF Told
    <3> QED
      BY <3>1, <3>2, <3>3 DEF Unheard, Made
  <2> QED
    BY <2>1, <2>2
<1>4. \A g \in CreateForms : Cardinality(Unheard(g)) <= faults
  BY DEF FaultsInv, Unheard
<1>5. \A g \in CreateForms : Cardinality(Unheard(g)') <= faults'
  BY <1>0, <1>3, <1>4, UnheardGrows
<1> QED
  BY <1>2, <1>5 DEF FaultsInv, Unheard

\* However often its author presses the button, a form creates one poll, and one
\* more for each fault, which may have kept the news of the last one (handleSubmit
\* of the page that creates, CreatePoll).
THEOREM OnePollCorrect == Forms!Spec => []OnePollPerForm
<1>1. Forms!Init => FormsCore /\ FaultsInv
  BY FormsCoreInit, FaultsInit
<1>2. ASSUME FormsCore, FaultsInv, [Forms!Next]_(Forms!vars) PROVE FormsCore' /\ FaultsInv'
  <2>1. CASE Forms!Next
    BY <1>2, <2>1, FormsSteps, FormsCoreStep, FaultsPageStep, FaultsHandleStep
  <2>2. CASE UNCHANGED Forms!vars
    BY <1>2, <2>2, FormsCoreStep DEF Forms!vars, FaultsInv, Made, Coming, Told, Saves
  <2> QED
    BY <1>2, <2>1, <2>2
<1>3. ASSUME FormsCore, FaultsInv PROVE OnePollPerForm
  <2>1. ASSUME NEW f \in CreateForms PROVE Cardinality(Made(f)) <= 1 + faults
    <3>1. IsFiniteSet(Unheard(f)) /\ Cardinality(Unheard(f)) \in Nat /\ Cardinality(Unheard(f)) <= faults /\ faults \in Nat
      BY <1>3, <2>1, UnheardSize DEF FaultsInv, Unheard, FormsCore, FormTypes
    <3>2. Made(f) \subseteq Unheard(f) \cup {forms[f].n}
      BY DEF Unheard, Told
    <3>3. /\ IsFiniteSet(Unheard(f) \cup {forms[f].n})
          /\ Cardinality(Unheard(f) \cup {forms[f].n}) <= Cardinality(Unheard(f)) + 1
          /\ Cardinality(Unheard(f) \cup {forms[f].n}) \in Nat
      BY <3>1, OneMore
    <3>4. Cardinality(Made(f)) <= Cardinality(Unheard(f) \cup {forms[f].n}) /\ Cardinality(Made(f)) \in Nat
      BY <3>2, <3>3, FS_Subset, FS_CardinalityType
    <3> QED
      BY <3>1, <3>3, <3>4
  <2> QED
    BY <2>1, FormsCardinality DEF OnePollPerForm, Forms!OnePollPerForm, Made
<1> QED
  BY <1>1, <1>2, <1>3, PTL DEF Forms!Spec

-----------------------------------------------------------------------------
\* A set of numbers has a least.
LEMMA LeastNat ==
  ASSUME NEW S \in SUBSET Nat, S # {}
  PROVE  \E n \in S : \A m \in S : n <= m
<1> DEFINE R == OpToRel(<, Nat)
<1>1. IsWellFoundedOn(R, Nat)
  BY NatLessThanWellFounded
<1>2. PICK n \in S : \A m \in S : ~ (<<m, n>> \in R)
  <2> HIDE DEF R
  <2> QED BY <1>1, WFMin
<1>3. ASSUME NEW m \in Nat, NEW k \in Nat, m < k PROVE <<m, k>> \in R
  <2>1. <<m, k>> \in Nat \X Nat /\ <<m, k>>[1] < <<m, k>>[2]
    BY <1>3
  <2> QED
    BY <2>1, Zenon DEF OpToRel
<1>4. ASSUME NEW m \in S PROVE n <= m
  <2> HIDE DEF R
  <2>1. ~ (m < n)
    BY <1>2, <1>3
  <2> QED
    BY <2>1
<1> QED
  BY <1>4

\* A finite set of numbers has a greatest: there is no smallest one that has not.
LEMMA GreatestNat ==
  ASSUME NEW S \in SUBSET Nat, IsFiniteSet(S), S # {}
  PROVE  \E n \in S : \A m \in S : m <= n
<1> DEFINE Odd(U) == IsFiniteSet(U) /\ U # {} /\ ~ \E n \in U : \A m \in U : m <= n
           Sizes == {k \in Nat : \E U \in SUBSET Nat : Odd(U) /\ Cardinality(U) = k}
<1>1. SUFFICES ASSUME Odd(S) PROVE FALSE
  OBVIOUS
<1>2. Cardinality(S) \in Sizes
  <2>1. Cardinality(S) \in Nat
    BY FS_CardinalityType
  <2> QED
    BY <1>1, <2>1
<1>3. PICK k \in Sizes : \A j \in Sizes : k <= j
  <2>1. Sizes \in SUBSET Nat /\ Sizes # {}
    BY <1>2
  <2> HIDE DEF Sizes
  <2> QED
    BY <2>1, LeastNat
<1>4. PICK U \in SUBSET Nat : Odd(U) /\ Cardinality(U) = k
  OBVIOUS
<1>5. PICK n \in U : TRUE
  BY <1>4
<1> DEFINE V == U \ {n}
<1>6. IsFiniteSet(V) /\ Cardinality(V) = k - 1 /\ Cardinality(V) \in Nat /\ k \in Nat
  BY <1>4, <1>5, FS_RemoveElement, FS_CardinalityType
<1>7. k - 1 \notin Sizes
  <2> HIDE DEF Sizes
  <2>1. k \in Nat
    BY <1>6
  <2> QED
    BY <1>3, <2>1
<1>8. ~ Odd(V)
  BY <1>6, <1>7
<1>9. CASE V = {}
  <2>1. U = {n}
    BY <1>5, <1>9
  <2> QED
    BY <1>4, <1>5, <2>1
<1>10. CASE V # {}
  <2>1. PICK m \in V : \A l \in V : l <= m
    BY <1>6, <1>8, <1>10
  <2>2. n \in Nat /\ m \in Nat /\ m \in U
    BY <1>5, <2>1
  <2>3. CASE n <= m
    <3>1. \A l \in U : l <= m
      BY <2>1, <2>3
    <3> QED
      BY <1>4, <2>2, <3>1
  <2>4. CASE m <= n
    <3>1. \A l \in U : l <= n
      BY <2>1, <2>2, <2>4
    <3> QED
      BY <1>4, <1>5, <3>1
  <2> QED
    BY <2>2, <2>3, <2>4
<1> QED
  BY <1>9, <1>10

-----------------------------------------------------------------------------
(* Updates (PollUpdates): what each transaction is at each of its stages, and *)
(* what two transactions that are open, and what others committed, may be.    *)

UStages == {"new", "update", "replace", "removing", "insert", "refer", "read", "readTags",
            "commit", "delete", "cascade", "deleted"} \cup Updates!Ended
Rows == Tags \X (Updaters \cup {Initial})
Shows2 == [question : Updaters \cup {Initial}, tags : SUBSET Tags]
Transactions ==
  [stage : UStages, kind : Kinds \cup {Updates!New.kind}, lock : {"none", "share", "update", "delete"},
   found : SUBSET Rows, removed : SUBSET Rows, missing : SUBSET Tags,
   added : SUBSET Rows, event : Shows2]

UpdateTypes ==
  /\ live \in BOOLEAN
  /\ question \in Updaters \cup {Initial}
  /\ tags \in SUBSET Rows
  /\ tx \in [Updaters -> Transactions]
  /\ outbox \subseteq Updaters
  /\ began \in [Updaters -> Nat]
  /\ met \in [Updaters -> SUBSET Updaters]
  /\ last \in Updaters \cup {Initial}

Begun(r) == tx[r].stage # "new"
TagStages == {"replace", "removing", "insert", "refer"}

\* A transaction by itself.
TxOk(r, t) ==
  /\ t.stage # "new" => t.kind \in Kinds
  /\ t.stage \in {"update", "replace", "insert", "refer", "read", "readTags", "commit"} => ~ t.kind.delete
  /\ t.stage \in {"delete", "cascade", "deleted"} => t.kind.delete
  /\ t.stage = "update" => t.kind.question
  /\ t.stage \in TagStages => t.kind.retag \/ t.kind.delete
  /\ t.stage \in {"new", "update", "delete", "refer"} => t.lock = "none"
  /\ t.stage \in {"replace", "removing", "insert", "refer", "read", "readTags", "commit"} /\ ~ t.kind.delete =>
       (t.kind.question <=> t.lock = "update")
  /\ t.stage \in {"cascade", "removing", "deleted"} /\ t.kind.delete => t.lock = "delete"
  /\ t.lock \in {"update", "delete"} => t.kind.question \/ t.kind.delete
  /\ t.stage \in {"new", "update", "replace", "delete", "cascade"} \/ (t.kind.delete = FALSE /\ t.kind.retag = FALSE) =>
       t.found = {} /\ t.removed = {}
  /\ t.stage \in {"new", "update", "replace", "removing", "delete", "cascade", "deleted"} \/ ~ t.kind.retag =>
       t.added = {}
  /\ t.stage = "insert" => t.missing # {}
  /\ t.stage \in {"insert", "refer", "read", "readTags", "commit"} => t.missing \subseteq t.kind.tags
  /\ t.stage \in {"new", "update", "replace", "removing", "delete", "cascade", "read", "readTags", "commit"} =>
       t.missing = {}
  /\ t.added \subseteq t.kind.tags \X {r}
  /\ \A row \in t.added, m \in t.missing : row[1] < m

TxsInv == \A r \in Updaters : TxOk(r, tx[r])

\* Those that were open beside each other, and the order in which they began.
BegunInv ==
  /\ \A r, s \in Updaters : Updates!Open(r) /\ Updates!Open(s) /\ r # s => s \in met[r]
  /\ \A r \in Updaters : \A s \in met[r] : Begun(s) /\ s # r
  /\ \A r, s \in Updaters : Updates!Open(r) /\ Begun(s) /\ began[s] > began[r] => s \in met[r]
  /\ \A r, s \in Updaters : Begun(r) /\ Begun(s) /\ began[r] = began[s] => r = s

\* Two transactions do not both hold the poll.
Exclusive ==
  \A r, s \in Updaters : Updates!Open(r) /\ Updates!Open(s) /\ r # s =>
    ~ (tx[r].lock \in {"update", "delete"} /\ tx[s].lock \in {"update", "delete"})

\* Nothing of a transaction can have been overtaken.
Alone(r) == met[r] = {} \/ \A s \in met[r] \cup {r} : Updates!Locks(s)

EventOk(r, t) ==
  Alone(r) =>
    /\ t.stage \in {"readTags", "commit"} =>
         live /\ t.event.question = IF t.kind.question THEN r ELSE question
    /\ t.stage = "commit" => t.event.tags = Updates!Named((tags \ t.removed) \cup t.added)

EventInv == \A r \in Updaters : EventOk(r, tx[r])

\* The rows of tags that are committed.
RowsInv ==
  /\ ~ live => tags = {}
  /\ \A row \in tags : row[2] # Initial =>
       /\ tx[row[2]].stage = "committed" /\ tx[row[2]].kind.retag
       /\ row[1] \in tx[row[2]].kind.tags

\* The rows a transaction came to, and those it could not see.
OpenStage(t) == t.stage \notin {"new"} \cup Updates!Ended

FoundOk(r, t) ==
  /\ OpenStage(t) => \A row \in t.found : row[2] # Initial => tx[row[2]].stage = "committed"
  /\ t.stage \in {"removing", "insert", "refer", "read", "readTags", "commit", "deleted"}
     /\ (t.kind.delete \/ t.kind.retag) => \A row \in tags \ t.found : row[2] \in met[r]
  /\ t.stage \in {"insert", "refer", "read", "readTags", "commit", "deleted"} => (t.found \cap tags) \ t.removed = {}
  /\ t.stage \in {"insert", "refer", "read", "readTags", "commit"} /\ t.kind.retag /\ met[r] = {} =>
       t.kind.tags \ t.missing \subseteq Updates!Named(t.added)

FoundInv == \A r \in Updaters : FoundOk(r, tx[r])

\* What is shown, or will be.
ShownUpdates ==
  /\ last # Initial => tx[last].stage = "committed" /\ ~ tx[last].kind.delete
  /\ \A r \in outbox : tx[r].stage = "committed"
  /\ last = Initial /\ live => outbox = {} /\ shown = Updates!Content
  /\ last # Initial /\ live /\ met[last] = {} =>
       \/ /\ last \in outbox /\ tx[last].event = Updates!Content
          /\ \A r \in outbox : began[r] <= began[last]
       \/ outbox = {} /\ shown = Updates!Content

\* Whose tags the poll has.
GivenTags ==
  last # Initial /\ live /\ tx[last].kind.retag =>
    /\ \A row \in tags : \/ row[1] \in tx[last].kind.tags
                         \/ \E s \in met[last] : /\ tx[s].stage = "committed" /\ tx[s].kind.retag
                                                /\ row[1] \in tx[s].kind.tags
    /\ met[last] = {} => Updates!Named(tags) = tx[last].kind.tags

UpdatesCore == UpdateTypes /\ TxsInv /\ BegunInv /\ Exclusive

\* Who keeps whom from the rows of tags.
LocksOk(t) ==
  OpenStage(t) =>
    /\ \A a \in t.added : a[1] \notin Updates!Named(tags \ t.removed)
    /\ t.removed \subseteq tags
    /\ t.stage = "removing" => \A a \in t.removed, b \in (t.found \cap tags) \ t.removed : a[1] <= b[1]
    /\ t.kind.delete /\ t.stage \in {"removing", "deleted"} => tags \subseteq t.found
    /\ t.added # {} /\ t.stage # "refer" => t.lock \in {"share", "update"}

Apart(t, u) ==
  /\ t.removed \cap u.removed = {}
  /\ Updates!Named(t.added) \cap Updates!Named(u.added) = {}
  /\ ~ (t.lock = "share" /\ u.lock = "delete") /\ ~ (t.lock = "delete" /\ u.lock = "share")

TagLocks ==
  /\ \A a, b \in tags : a[1] = b[1] => a = b
  /\ \A r \in Updaters : LocksOk(tx[r])
  /\ \A r, s \in Updaters : Updates!Open(r) /\ Updates!Open(s) /\ r # s => Apart(tx[r], tx[s])

\* The poll's row is there while a transaction has locked it.
LockedLives == \A r \in Updaters : Updates!Open(r) /\ tx[r].lock # "none" => live

-----------------------------------------------------------------------------
LEMMA UpdatesConstants ==
  /\ IsFiniteSet(Updaters) /\ Initial \notin Updaters /\ "consumer" \notin Updaters
  /\ Tags \subseteq Nat /\ InitialTags \subseteq SUBSET Tags
  /\ \A k \in Kinds : /\ k.delete \in BOOLEAN /\ k.question \in BOOLEAN /\ k.retag \in BOOLEAN
                      /\ k.mine \in BOOLEAN /\ k.tags \subseteq Tags
                      /\ k.delete \/ k.question \/ k.retag
<1>1. Updates!UpdatesAssumption
  BY RequestsAssumption
<1>2. IsFiniteSet(Updaters)
  BY <1>1 DEF Updates!UpdatesAssumption, Updates!IsFiniteSet, IsFiniteSet
<1> QED
  BY <1>1, <1>2 DEF Updates!UpdatesAssumption, Updates!Kind

LEMMA NextTagIs ==
  ASSUME NEW r, tx[r].missing \in SUBSET Tags, tx[r].missing # {}
  PROVE  Updates!NextTag(r) \in tx[r].missing /\ \A m \in tx[r].missing : Updates!NextTag(r) <= m
<1> DEFINE S == tx[r].missing
<1>1. S \in SUBSET Nat /\ S # {}
  BY UpdatesConstants
<1> HIDE DEF S
<1>2. \E n \in S : \A m \in S : n <= m
  BY <1>1, LeastNat
<1>3. Updates!Min(S) \in S /\ \A m \in S : Updates!Min(S) <= m
  BY <1>2 DEF Updates!Min
<1> QED
  BY <1>3 DEF Updates!NextTag, S

LEMMA NextRowIs ==
  ASSUME NEW r, tx[r].found \in SUBSET Rows, Updates!Left(r) # {}
  PROVE  Updates!NextRow(r) \in Updates!Left(r) /\ \A row \in Updates!Left(r) : Updates!NextRow(r)[1] <= row[1]
<1> DEFINE L == Updates!Left(r)
           S == {row[1] : row \in L}
<1>0. L # {} /\ \A row \in L : row[1] \in Nat
  BY UpdatesConstants DEF Updates!Left, Rows
<1>1. S \in SUBSET Nat /\ S # {}
  <2> HIDE DEF L
  <2> QED BY <1>0
<1>2. \E n \in S : \A m \in S : n <= m
  <2> HIDE DEF S
  <2> QED BY <1>1, LeastNat
<1>3. \E row \in L : \A other2 \in L : row[1] <= other2[1]
  BY <1>2
<1> HIDE DEF L
<1>4. LET row == CHOOSE row \in L : \A other2 \in L : row[1] <= other2[1]
      IN  row \in L /\ \A other2 \in L : row[1] <= other2[1]
  BY <1>3
<1> QED
  BY <1>4 DEF Updates!NextRow, L

\* A statement, or an end, of a transaction that changes nothing but itself.
Solo(r, t) ==
  /\ Updates!Open(r)
  /\ tx' = [tx EXCEPT ![r] = t]
  /\ t \in Transactions /\ t.kind = tx[r].kind /\ t.stage \notin {"new", "committed"}
  /\ t.stage = "victim" => Updates!InDeadlock(r)
  /\ t.lock \in {"update", "delete"} => t.lock = tx[r].lock \/ Updates!Holders(r, {"update", "delete"}) = {}
  /\ UNCHANGED <<live, question, tags, outbox, shown, began, met, last>>

LEMMA SoloCore ==
  ASSUME UpdatesCore, NEW r \in Updaters, NEW t, Solo(r, t), TxOk(r, t)
  PROVE  UpdatesCore'
<1> USE DEF UpdatesCore, Solo, Updates!Open, Begun
<1>1. UpdateTypes'
  BY DEF UpdateTypes
<1>2. TxsInv'
  BY DEF UpdateTypes, TxsInv
<1>3. /\ tx'[r] = t /\ \A s \in Updaters : s # r => tx'[s] = tx[s]
      /\ \A s \in Updaters : Updates!Open(s)' => Updates!Open(s)
      /\ \A s \in Updaters : Begun(s)' <=> Begun(s)
  BY DEF UpdateTypes
<1>4. BegunInv'
  BY <1>3 DEF BegunInv, UpdateTypes
<1>5. Exclusive'
  BY <1>3 DEF Exclusive, Updates!Holders, Updates!Others
<1> QED
  BY <1>1, <1>2, <1>4, <1>5

TagsInv == EventInv /\ RowsInv /\ FoundInv /\ TagLocks
UpdatesInv == UpdatesCore /\ TagsInv /\ ShownUpdates /\ GivenTags

\* What a transaction that changes nothing but itself may become.
Local(r, t) ==
  /\ Solo(r, t) /\ TxOk(r, t) /\ EventOk(r, t) /\ FoundOk(r, t) /\ LocksOk(t)
  /\ \A s \in Updates!Others(r) : Apart(t, tx[s])

LEMMA TxFacts ==
  ASSUME UpdatesCore, TagsInv, NEW r \in Updaters
  PROVE  /\ tx \in [Updaters -> Transactions] /\ tx[r] \in Transactions /\ TxOk(r, tx[r])
         /\ EventOk(r, tx[r]) /\ FoundOk(r, tx[r]) /\ LocksOk(tx[r])
         /\ Begun(r) => tx[r].kind \in Kinds
         /\ Updates!Open(r) <=> OpenStage(tx[r])
         /\ Updates!Open(r) => \A s \in Updates!Others(r) : Apart(tx[r], tx[s])
         /\ tags \subseteq Rows
  BY DEF UpdatesCore, UpdateTypes, TxsInv, TxOk, TagsInv, EventInv, FoundInv, TagLocks, Begun,
      Updates!Open, OpenStage, Updates!Others

\* UPDATE polls: the row is locked, or the request refused.
LEMMA UpdateStep ==
  ASSUME UpdatesCore, TagsInv, NEW r \in Updaters, Updates!UpdateByIDAndCreator(r)
  PROVE  \E t : Local(r, t)
<1> DEFINE k == tx[r].kind
           t == IF live /\ k.mine THEN [tx[r] EXCEPT !.stage = Updates!AfterRow(k), !.lock = "update"]
                ELSE [tx[r] EXCEPT !.stage = "refused"]
<1>1. /\ tx[r].stage = "update" /\ tx' = [tx EXCEPT ![r] = t] /\ Updates!Blockers(r) = {}
      /\ UNCHANGED <<live, question, tags, outbox, shown, began, met, last>>
  BY DEF Updates!UpdateByIDAndCreator, Updates!Step, Updates!Unchanged, Updates!pollVars, Updates!historyVars
<1>2. Updates!Holders(r, {"update", "delete"}) = {}
  BY <1>1 DEF Updates!Blockers
<1>3. /\ tx[r] \in Transactions /\ TxOk(r, tx[r]) /\ tx[r].kind \in Kinds
      /\ Updates!Open(r)
  BY <1>1, TxFacts DEF Begun, Updates!Open, Updates!Ended
<1>4. t \in Transactions
  BY <1>3 DEF Transactions, UStages, Updates!AfterRow, Updates!Ended
<1>5. /\ t.stage = IF live /\ k.mine THEN Updates!AfterRow(k) ELSE "refused"
      /\ t.lock = IF live /\ k.mine THEN "update" ELSE "none"
      /\ t.kind = k /\ t.found = {} /\ t.removed = {} /\ t.added = {} /\ t.missing = {}
      /\ k.question /\ ~ k.delete /\ k.retag \in BOOLEAN
  <2>1. k.retag \in BOOLEAN
    BY <1>3, UpdatesConstants
  <2> QED
    BY <1>1, <1>3, <2>1 DEF Transactions, TxOk
<1> HIDE DEF t
<1>6. Solo(r, t)
  BY <1>1, <1>2, <1>3, <1>4, <1>5 DEF Solo, Updates!AfterRow
<1>7. TxOk(r, t)
  BY <1>3, <1>5 DEF TxOk, Updates!AfterRow, TagStages
<1>8. EventOk(r, t) /\ FoundOk(r, t) /\ LocksOk(t)
  BY <1>5 DEF EventOk, FoundOk, LocksOk, Updates!AfterRow, OpenStage, Updates!Ended
<1>9. \A s \in Updates!Others(r) : Apart(t, tx[s])
  BY <1>5 DEF Apart, Updates!Named
<1> QED
  BY <1>6, <1>7, <1>8, <1>9 DEF Local

\* DELETE FROM poll_tags sees its rows.
LEMMA FindStep ==
  ASSUME UpdatesCore, TagsInv, NEW r \in Updaters, Updates!FindTags(r)
  PROVE  \E t : Local(r, t)
<1> DEFINE k == tx[r].kind
           t == [tx[r] EXCEPT !.stage = "removing", !.found = tags]
<1>1. /\ tx[r].stage = "replace" /\ tx' = [tx EXCEPT ![r] = t] /\ Updates!Blockers(r) = {}
      /\ UNCHANGED <<live, question, tags, outbox, shown, began, met, last>>
  BY DEF Updates!FindTags, Updates!Step, Updates!Unchanged, Updates!pollVars, Updates!historyVars
<1>3. /\ tx[r] \in Transactions /\ TxOk(r, tx[r]) /\ tx[r].kind \in Kinds /\ Updates!Open(r)
      /\ EventOk(r, tx[r]) /\ FoundOk(r, tx[r]) /\ LocksOk(tx[r]) /\ OpenStage(tx[r])
      /\ \A s \in Updates!Others(r) : Apart(tx[r], tx[s])
  BY <1>1, TxFacts DEF Begun, Updates!Open, Updates!Ended
<1>4. /\ t.stage = "removing" /\ t.found = tags /\ t.removed = {} /\ t.added = {} /\ t.missing = {}
      /\ t.kind = k /\ t.lock = tx[r].lock /\ k.retag /\ ~ k.delete
  BY <1>1, <1>3 DEF Transactions, TxOk, TagStages
<1>5. t \in Transactions
  BY <1>3, TxFacts DEF Transactions, UStages
<1>6. k.retag \in BOOLEAN /\ k.question \in BOOLEAN /\ k.delete \in BOOLEAN
  BY <1>3, UpdatesConstants
<1> HIDE DEF t
<1>7. Solo(r, t)
  BY <1>1, <1>3, <1>4, <1>5 DEF Solo
<1>8. TxOk(r, t)
  BY <1>1, <1>3, <1>4, <1>6 DEF TxOk, TagStages
<1>9. FoundOk(r, t)
  BY <1>4 DEF FoundOk, TagsInv, RowsInv
<1>10. EventOk(r, t) /\ LocksOk(t)
  BY <1>4 DEF EventOk, LocksOk, Updates!Named
<1>11. \A s \in Updates!Others(r) : Apart(t, tx[s])
  BY <1>3, <1>4 DEF Apart, Updates!Named
<1> QED
  BY <1>7, <1>8, <1>9, <1>10, <1>11 DEF Local

\* So does the cascade of a deletion.
LEMMA CascadeStep ==
  ASSUME UpdatesCore, TagsInv, NEW r \in Updaters, Updates!Cascade(r)
  PROVE  \E t : Local(r, t)
<1> DEFINE k == tx[r].kind
           t == [tx[r] EXCEPT !.stage = "removing", !.found = tags]
<1>1. /\ tx[r].stage = "cascade" /\ tx' = [tx EXCEPT ![r] = t] /\ Updates!Blockers(r) = {}
      /\ UNCHANGED <<live, question, tags, outbox, shown, began, met, last>>
  BY DEF Updates!Cascade, Updates!Step, Updates!Unchanged, Updates!pollVars, Updates!historyVars
<1>3. /\ tx[r] \in Transactions /\ TxOk(r, tx[r]) /\ tx[r].kind \in Kinds /\ Updates!Open(r)
      /\ EventOk(r, tx[r]) /\ FoundOk(r, tx[r]) /\ LocksOk(tx[r]) /\ OpenStage(tx[r])
      /\ \A s \in Updates!Others(r) : Apart(tx[r], tx[s])
  BY <1>1, TxFacts DEF Begun, Updates!Open, Updates!Ended
<1>4. /\ t.stage = "removing" /\ t.found = tags /\ t.removed = {} /\ t.added = {} /\ t.missing = {}
      /\ t.kind = k /\ t.lock = tx[r].lock /\ k.delete /\ t.lock = "delete"
  BY <1>1, <1>3 DEF Transactions, TxOk, TagStages
<1>5. t \in Transactions
  BY <1>3, TxFacts DEF Transactions, UStages
<1>6. k.retag \in BOOLEAN /\ k.question \in BOOLEAN /\ k.delete \in BOOLEAN
  BY <1>3, UpdatesConstants
<1> HIDE DEF t
<1>7. Solo(r, t)
  BY <1>1, <1>3, <1>4, <1>5 DEF Solo
<1>8. TxOk(r, t)
  BY <1>1, <1>3, <1>4, <1>6 DEF TxOk, TagStages
<1>9. FoundOk(r, t)
  BY <1>4 DEF FoundOk, TagsInv, RowsInv
<1>10. EventOk(r, t) /\ LocksOk(t)
  BY <1>4 DEF EventOk, LocksOk, Updates!Named
<1>11. \A s \in Updates!Others(r) : Apart(t, tx[s])
  BY <1>3, <1>4 DEF Apart, Updates!Named
<1> QED
  BY <1>7, <1>8, <1>9, <1>10, <1>11 DEF Local

\* It comes to a row nobody else has come to.
LEMMA RemoveStep ==
  ASSUME UpdatesCore, TagsInv, NEW r \in Updaters, Updates!RemoveTag(r)
  PROVE  \E t : Local(r, t)
<1> DEFINE k == tx[r].kind
           n == Updates!NextRow(r)
           t == [tx[r] EXCEPT !.removed = @ \cup {n}]
<1>1. /\ tx[r].stage = "removing" /\ tx' = [tx EXCEPT ![r] = t] /\ Updates!Blockers(r) = {}
      /\ UNCHANGED <<live, question, tags, outbox, shown, began, met, last>>
      /\ Updates!Left(r) # {}
  BY DEF Updates!RemoveTag, Updates!Step, Updates!Unchanged, Updates!pollVars, Updates!historyVars
<1>2. \A s \in Updates!Others(r) : n \notin tx[s].removed
  BY <1>1 DEF Updates!Blockers
<1>3. /\ tx[r] \in Transactions /\ TxOk(r, tx[r]) /\ tx[r].kind \in Kinds /\ Updates!Open(r)
      /\ EventOk(r, tx[r]) /\ FoundOk(r, tx[r]) /\ LocksOk(tx[r]) /\ OpenStage(tx[r])
      /\ \A s \in Updates!Others(r) : Apart(tx[r], tx[s])
  BY <1>1, TxFacts DEF Begun, Updates!Open, Updates!Ended
<1>4. tx[r].found \in SUBSET Rows
  BY <1>3 DEF Transactions
<1>5. /\ n \in tx[r].found /\ n \in tags /\ n \notin tx[r].removed
      /\ \A row \in (tx[r].found \cap tags) \ tx[r].removed : n[1] <= row[1]
  BY <1>1, <1>4, NextRowIs DEF Updates!Left
<1> HIDE DEF n
<1>6. /\ t.stage = "removing" /\ t.found = tx[r].found /\ t.removed = tx[r].removed \cup {n}
      /\ t.added = {} /\ t.missing = {} /\ t.kind = k /\ t.lock = tx[r].lock
      /\ k.retag \/ k.delete
  BY <1>1, <1>3 DEF Transactions, TxOk, TagStages
<1>7. t \in Transactions
  BY <1>3, <1>4, <1>5 DEF Transactions
<1>8. k.retag \in BOOLEAN /\ k.question \in BOOLEAN /\ k.delete \in BOOLEAN
  BY <1>3, UpdatesConstants
<1> HIDE DEF t
<1>9. Solo(r, t)
  BY <1>1, <1>3, <1>6, <1>7 DEF Solo
<1>10. TxOk(r, t)
  BY <1>1, <1>3, <1>6, <1>8 DEF TxOk, TagStages
<1>11. FoundOk(r, t) /\ EventOk(r, t)
  BY <1>1, <1>3, <1>6 DEF FoundOk, EventOk, OpenStage
<1>12. LocksOk(t)
  BY <1>1, <1>3, <1>5, <1>6 DEF LocksOk, Updates!Named
<1>13. \A s \in Updates!Others(r) : Apart(t, tx[s])
  BY <1>2, <1>3, <1>6 DEF Apart, Updates!Named
<1> QED
  BY <1>9, <1>10, <1>11, <1>12, <1>13 DEF Local

\* It has them all.
LEMMA RemovedStep ==
  ASSUME UpdatesCore, TagsInv, NEW r \in Updaters, Updates!TagsRemoved(r)
  PROVE  \E t : Local(r, t)
<1> DEFINE k == tx[r].kind
           t == [tx[r] EXCEPT !.missing = k.tags, !.stage = Updates!AfterTags(r, k.tags)]
<1>1. /\ tx[r].stage = "removing" /\ tx' = [tx EXCEPT ![r] = t] /\ Updates!Blockers(r) = {}
      /\ UNCHANGED <<live, question, tags, outbox, shown, began, met, last>>
      /\ Updates!Left(r) = {}
  BY DEF Updates!TagsRemoved, Updates!Step, Updates!Unchanged, Updates!pollVars, Updates!historyVars
<1>3. /\ tx[r] \in Transactions /\ TxOk(r, tx[r]) /\ tx[r].kind \in Kinds /\ Updates!Open(r)
      /\ EventOk(r, tx[r]) /\ FoundOk(r, tx[r]) /\ LocksOk(tx[r]) /\ OpenStage(tx[r])
      /\ \A s \in Updates!Others(r) : Apart(tx[r], tx[s])
  BY <1>1, TxFacts DEF Begun, Updates!Open, Updates!Ended
<1>4. /\ k.retag \in BOOLEAN /\ k.question \in BOOLEAN /\ k.delete \in BOOLEAN /\ k.tags \subseteq Tags
      /\ k.retag \/ k.delete
  BY <1>1, <1>3, UpdatesConstants DEF TxOk, TagStages
<1>5. /\ t.stage = IF k.delete THEN "deleted" ELSE IF k.tags = {} THEN "read" ELSE "insert"
      /\ t.missing = k.tags /\ t.found = tx[r].found /\ t.removed = tx[r].removed
      /\ t.added = {} /\ t.kind = k /\ t.lock = tx[r].lock
      /\ (tx[r].found \cap tags) \ tx[r].removed = {}
  BY <1>1, <1>3 DEF Transactions, TxOk, Updates!AfterTags, Updates!Left
<1>6. t \in Transactions
  BY <1>3, <1>4 DEF Transactions, UStages, Updates!AfterTags
<1> HIDE DEF t
<1>7. Solo(r, t)
  BY <1>1, <1>3, <1>5, <1>6 DEF Solo
<1>8. TxOk(r, t)
  BY <1>1, <1>3, <1>4, <1>5 DEF TxOk, TagStages
<1>9. FoundOk(r, t) /\ EventOk(r, t)
  BY <1>1, <1>3, <1>4, <1>5 DEF FoundOk, EventOk, OpenStage
<1>10. LocksOk(t)
  BY <1>1, <1>3, <1>4, <1>5 DEF LocksOk, Updates!Named
<1>11. \A s \in Updates!Others(r) : Apart(t, tx[s])
  BY <1>3, <1>5 DEF Apart, Updates!Named
<1> QED
  BY <1>7, <1>8, <1>9, <1>10, <1>11 DEF Local

\* An INSERT of the next tag, unless it is there.
LEMMA InsertStep ==
  ASSUME UpdatesCore, TagsInv, NEW r \in Updaters, Updates!InsertTag(r)
  PROVE  \E t : Local(r, t)
<1> DEFINE k == tx[r].kind
           n == Updates!NextTag(r)
           missing == tx[r].missing \ {n}
           there == n \in Updates!Named(tags \ tx[r].removed)
           added == IF there THEN tx[r].added ELSE tx[r].added \cup {<<n, r>>}
           t == [tx[r] EXCEPT !.missing = missing, !.added = IF there THEN @ ELSE @ \cup {<<n, r>>},
                   !.stage = IF ~ there /\ tx[r].lock = "none" THEN "refer" ELSE Updates!AfterTags(r, missing)]
<1>1. /\ tx[r].stage = "insert" /\ tx' = [tx EXCEPT ![r] = t] /\ Updates!Blockers(r) = {}
      /\ UNCHANGED <<live, question, tags, outbox, shown, began, met, last>>
  BY DEF Updates!InsertTag, Updates!Step, Updates!Unchanged, Updates!pollVars, Updates!historyVars
<1>2. \A s \in Updates!Others(r) : n \notin Updates!Named(tx[s].added \cup tx[s].removed)
  BY <1>1 DEF Updates!Blockers
<1>3. /\ tx[r] \in Transactions /\ TxOk(r, tx[r]) /\ tx[r].kind \in Kinds /\ Updates!Open(r)
      /\ EventOk(r, tx[r]) /\ FoundOk(r, tx[r]) /\ LocksOk(tx[r]) /\ OpenStage(tx[r])
      /\ \A s \in Updates!Others(r) : Apart(tx[r], tx[s])
  BY <1>1, TxFacts DEF Begun, Updates!Open, Updates!Ended
<1>4. tx[r].missing \in SUBSET Tags /\ tx[r].missing # {}
  BY <1>1, <1>3 DEF Transactions, TxOk
<1>5. n \in tx[r].missing /\ \A m \in missing : n < m
  <2>1. n \in tx[r].missing /\ \A m \in tx[r].missing : n <= m
    BY <1>4, NextTagIs
  <2>2. tx[r].missing \subseteq Nat
    BY <1>4, UpdatesConstants
  <2> HIDE DEF n
  <2> QED
    BY <2>1, <2>2
<1>6. /\ k.retag \in BOOLEAN /\ k.question \in BOOLEAN /\ k.delete = FALSE /\ k.retag = TRUE
      /\ k.tags \subseteq Tags
  BY <1>1, <1>3, UpdatesConstants DEF TxOk, TagStages
<1> HIDE DEF n
<1>7. /\ t.stage = IF ~ there /\ tx[r].lock = "none" THEN "refer" ELSE IF missing = {} THEN "read" ELSE "insert"
      /\ t.missing = missing /\ t.added = added
      /\ t.found = tx[r].found /\ t.removed = tx[r].removed /\ t.kind = k /\ t.lock = tx[r].lock
  BY <1>1, <1>3, <1>6 DEF Transactions, Updates!AfterTags
<1>8. t \in Transactions
  <2>1. added \in SUBSET Rows
    <3>1. tx[r].added \in SUBSET Rows /\ n \in Tags /\ r \in Updaters
      BY <1>3, <1>4, <1>5 DEF Transactions
    <3>2. <<n, r>> \in Rows
      BY <3>1 DEF Rows
    <3> QED
      BY <3>1, <3>2
  <2>2. missing \in SUBSET Tags
    BY <1>4
  <2>3. t.stage \in UStages
    BY <1>7 DEF UStages
  <2>4. t = [tx[r] EXCEPT !.missing = missing, !.added = added, !.stage = t.stage]
    BY <1>3 DEF Transactions
  <2> HIDE DEF t, added, missing
  <2> QED
    BY <1>3, <2>1, <2>2, <2>3, <2>4 DEF Transactions
<1>9. added \subseteq k.tags \X {r} /\ \A row \in added, m \in missing : row[1] < m
  <2>1. added \subseteq tx[r].added \cup {<<n, r>>} /\ <<n, r>>[1] = n
    OBVIOUS
  <2>2. tx[r].missing \subseteq k.tags /\ tx[r].added \subseteq k.tags \X {r}
    BY <1>1, <1>3 DEF TxOk
  <2>3. \A row \in tx[r].added, m \in missing : row[1] < m
    BY <1>3 DEF TxOk
  <2> HIDE DEF added, missing
  <2> QED
    BY <1>5, <2>1, <2>2, <2>3
<1>10. Updates!Named(added) = IF there THEN Updates!Named(tx[r].added) ELSE Updates!Named(tx[r].added) \cup {n}
  <2>1. \A S : Updates!Named(S \cup {<<n, r>>}) = Updates!Named(S) \cup {n}
    <3>1. <<n, r>>[1] = n
      OBVIOUS
    <3> QED
      BY <3>1, Zenon DEF Updates!Named
  <2> QED
    BY <2>1
<1>11. added # {} => ~ there \/ tx[r].added # {}
  OBVIOUS
<1>12. ~ there => added = tx[r].added \cup {<<n, r>>}
  OBVIOUS
<1>13. there => added = tx[r].added
  OBVIOUS
<1>14. missing \subseteq tx[r].missing /\ n \notin missing /\ tx[r].missing \subseteq missing \cup {n}
  OBVIOUS
<1>15. there => met[r] # {}
  <2>1. ASSUME met[r] = {} PROVE tags \ tx[r].removed = {}
    BY <1>1, <1>3, <1>6, <2>1 DEF FoundOk
  <2> QED
    BY <2>1 DEF Updates!Named
<1> HIDE DEF t, added, missing
<1>16. Solo(r, t)
  BY <1>1, <1>3, <1>7, <1>8 DEF Solo
<1>17. TxOk(r, t)
  <2>1. t.stage = "refer" => tx[r].lock = "none"
    BY <1>7
  <2>2. (k.question <=> tx[r].lock = "update") /\ tx[r].missing \subseteq k.tags
    BY <1>1, <1>3, <1>6 DEF TxOk
  <2>3. t.stage \in {"refer", "read", "insert"} /\ (t.stage = "read" => missing = {}) /\ (t.stage = "insert" => missing # {})
    BY <1>7
  <2>4. tx[r].lock \in {"update", "delete"} => k.question
    BY <1>3, <1>6 DEF TxOk
  <2> QED
    BY <1>3, <1>6, <1>7, <1>9, <1>14, <2>1, <2>2, <2>3, <2>4 DEF TxOk, TagStages
<1>18. EventOk(r, t)
  BY <1>7 DEF EventOk
<1>19. FoundOk(r, t)
  <2>1. met[r] = {} => k.tags \ missing \subseteq Updates!Named(added)
    <3>1. met[r] = {} => k.tags \ tx[r].missing \subseteq Updates!Named(tx[r].added)
      BY <1>1, <1>3, <1>6 DEF FoundOk
    <3> QED
      BY <1>10, <1>14, <1>15, <3>1
  <2> QED
    BY <1>1, <1>3, <1>6, <1>7, <2>1 DEF FoundOk, OpenStage
<1>20. LocksOk(t)
  <2>1. \A a \in added : a[1] \notin Updates!Named(tags \ tx[r].removed)
    <3>1. \A a \in tx[r].added : a[1] \notin Updates!Named(tags \ tx[r].removed)
      BY <1>3 DEF LocksOk
    <3> QED
      BY <1>12, <1>13, <3>1
  <2>2. added # {} /\ t.stage # "refer" => tx[r].lock \in {"share", "update"}
    <3>1. tx[r].added # {} => tx[r].lock \in {"share", "update"}
      BY <1>1, <1>3 DEF LocksOk
    <3>2. tx[r].lock \in {"none", "share", "update", "delete"} /\ tx[r].lock # "delete"
      BY <1>1, <1>3, <1>6 DEF Transactions, TxOk
    <3> QED
      BY <1>7, <1>11, <3>1, <3>2
  <2> QED
    BY <1>3, <1>6, <1>7, <2>1, <2>2 DEF LocksOk
<1>21. \A s \in Updates!Others(r) : Apart(t, tx[s])
  <2> SUFFICES ASSUME NEW s \in Updates!Others(r) PROVE Apart(t, tx[s])
    OBVIOUS
  <2>1. Apart(tx[r], tx[s])
    BY <1>3
  <2>2. n \notin Updates!Named(tx[s].added)
    BY <1>2 DEF Updates!Named
  <2> QED
    BY <1>7, <1>10, <2>1, <2>2 DEF Apart
<1> QED
  BY <1>16, <1>17, <1>18, <1>19, <1>20, <1>21 DEF Local

\* The foreign key of a row that was inserted.
LEMMA ReferStep ==
  ASSUME UpdatesCore, TagsInv, NEW r \in Updaters, Updates!ReferToPoll(r)
  PROVE  \E t : Local(r, t)
<1> DEFINE k == tx[r].kind
           t == IF live THEN [tx[r] EXCEPT !.lock = "share", !.stage = Updates!AfterTags(r, tx[r].missing)]
                ELSE [tx[r] EXCEPT !.stage = "aborted"]
<1>1. /\ tx[r].stage = "refer" /\ tx' = [tx EXCEPT ![r] = t] /\ Updates!Blockers(r) = {}
      /\ UNCHANGED <<live, question, tags, outbox, shown, began, met, last>>
  BY DEF Updates!ReferToPoll, Updates!Step, Updates!Unchanged, Updates!pollVars, Updates!historyVars
<1>2. Updates!Holders(r, {"delete"}) = {}
  BY <1>1 DEF Updates!Blockers
<1>3. /\ tx[r] \in Transactions /\ TxOk(r, tx[r]) /\ tx[r].kind \in Kinds /\ Updates!Open(r)
      /\ EventOk(r, tx[r]) /\ FoundOk(r, tx[r]) /\ LocksOk(tx[r]) /\ OpenStage(tx[r])
      /\ \A s \in Updates!Others(r) : Apart(tx[r], tx[s])
  BY <1>1, TxFacts DEF Begun, Updates!Open, Updates!Ended
<1>4. k.retag = TRUE /\ k.delete = FALSE /\ k.question = FALSE /\ tx[r].lock = "none" /\ k.tags \subseteq Tags
  BY <1>1, <1>3, UpdatesConstants DEF TxOk, TagStages
<1>5. /\ t.stage = IF live THEN IF tx[r].missing = {} THEN "read" ELSE "insert" ELSE "aborted"
      /\ t.lock = IF live THEN "share" ELSE "none"
      /\ t.missing = tx[r].missing /\ t.added = tx[r].added
      /\ t.found = tx[r].found /\ t.removed = tx[r].removed /\ t.kind = k
  BY <1>1, <1>3, <1>4 DEF Transactions, Updates!AfterTags
<1>6. t \in Transactions
  BY <1>3, <1>4 DEF Transactions, UStages, Updates!AfterTags, Updates!Ended
<1> HIDE DEF t
<1>7. Solo(r, t)
  BY <1>1, <1>3, <1>5, <1>6 DEF Solo
<1>8. TxOk(r, t)
  BY <1>1, <1>3, <1>4, <1>5 DEF TxOk, TagStages
<1>9. FoundOk(r, t) /\ EventOk(r, t)
  BY <1>1, <1>3, <1>4, <1>5 DEF FoundOk, EventOk, OpenStage
<1>10. LocksOk(t)
  BY <1>1, <1>3, <1>4, <1>5 DEF LocksOk, OpenStage, Updates!Ended
<1>11. \A s \in Updates!Others(r) : Apart(t, tx[s])
  BY <1>2, <1>3, <1>5 DEF Apart, Updates!Holders
<1> QED
  BY <1>7, <1>8, <1>9, <1>10, <1>11 DEF Local

\* The poll is read for the event.
LEMMA ReadPollStep ==
  ASSUME UpdatesCore, TagsInv, NEW r \in Updaters, Updates!ReadPoll(r)
  PROVE  \E t : Local(r, t)
<1> DEFINE k == tx[r].kind
           t == IF live THEN [tx[r] EXCEPT !.stage = "readTags", !.event.question = Updates!Sees(r).question]
                ELSE [tx[r] EXCEPT !.stage = "refused"]
<1>1. /\ tx[r].stage = "read" /\ tx' = [tx EXCEPT ![r] = t] /\ Updates!Blockers(r) = {}
      /\ UNCHANGED <<live, question, tags, outbox, shown, began, met, last>>
  BY DEF Updates!ReadPoll, Updates!Step, Updates!Unchanged, Updates!pollVars, Updates!historyVars
<1>3. /\ tx[r] \in Transactions /\ TxOk(r, tx[r]) /\ tx[r].kind \in Kinds /\ Updates!Open(r)
      /\ EventOk(r, tx[r]) /\ FoundOk(r, tx[r]) /\ LocksOk(tx[r]) /\ OpenStage(tx[r])
      /\ \A s \in Updates!Others(r) : Apart(tx[r], tx[s])
  BY <1>1, TxFacts DEF Begun, Updates!Open, Updates!Ended
<1>4. k.retag \in BOOLEAN /\ k.delete = FALSE /\ k.question \in BOOLEAN
  BY <1>1, <1>3, UpdatesConstants DEF TxOk
<1>5. /\ t.stage = IF live THEN "readTags" ELSE "refused"
      /\ live => t.event.question = IF k.question THEN r ELSE question
      /\ t.lock = tx[r].lock /\ t.missing = tx[r].missing /\ t.added = tx[r].added
      /\ t.found = tx[r].found /\ t.removed = tx[r].removed /\ t.kind = k
  BY <1>1, <1>3, <1>4 DEF Transactions, Shows2, Updates!Sees
<1>6. t \in Transactions
  <2>1. Updates!Sees(r).question \in Updaters \cup {Initial}
    BY DEF Updates!Sees, UpdatesCore, UpdateTypes
  <2> QED
    BY <1>3, <2>1 DEF Transactions, UStages, Shows2, Updates!Ended
<1> HIDE DEF t
<1>7. Solo(r, t)
  BY <1>1, <1>3, <1>5, <1>6 DEF Solo
<1>8. TxOk(r, t)
  BY <1>1, <1>3, <1>4, <1>5 DEF TxOk, TagStages
<1>9. FoundOk(r, t)
  BY <1>1, <1>3, <1>4, <1>5 DEF FoundOk, OpenStage, Updates!Ended
<1>10. EventOk(r, t)
  BY <1>5 DEF EventOk
<1>11. LocksOk(t)
  BY <1>1, <1>3, <1>4, <1>5 DEF LocksOk, OpenStage, Updates!Ended
<1>12. \A s \in Updates!Others(r) : Apart(t, tx[s])
  BY <1>3, <1>5 DEF Apart
<1> QED
  BY <1>7, <1>8, <1>9, <1>10, <1>11, <1>12 DEF Local

\* Its tags are.
LEMMA ReadTagsStep ==
  ASSUME UpdatesCore, TagsInv, NEW r \in Updaters, Updates!ReadTags(r)
  PROVE  \E t : Local(r, t)
<1> DEFINE k == tx[r].kind
           t == [tx[r] EXCEPT !.stage = "commit", !.event.tags = Updates!Named(Updates!Sees(r).tags)]
<1>1. /\ tx[r].stage = "readTags" /\ tx' = [tx EXCEPT ![r] = t] /\ Updates!Blockers(r) = {}
      /\ UNCHANGED <<live, question, tags, outbox, shown, began, met, last>>
  BY DEF Updates!ReadTags, Updates!Step, Updates!Unchanged, Updates!pollVars, Updates!historyVars
<1>3. /\ tx[r] \in Transactions /\ TxOk(r, tx[r]) /\ tx[r].kind \in Kinds /\ Updates!Open(r)
      /\ EventOk(r, tx[r]) /\ FoundOk(r, tx[r]) /\ LocksOk(tx[r]) /\ OpenStage(tx[r])
      /\ \A s \in Updates!Others(r) : Apart(tx[r], tx[s])
  BY <1>1, TxFacts DEF Begun, Updates!Open, Updates!Ended
<1>4. k.retag \in BOOLEAN /\ k.delete = FALSE /\ k.question \in BOOLEAN
  BY <1>1, <1>3, UpdatesConstants DEF TxOk
<1>5. /\ t.stage = "commit" /\ t.event.question = tx[r].event.question
      /\ t.event.tags = Updates!Named((tags \ tx[r].removed) \cup tx[r].added)
      /\ t.lock = tx[r].lock /\ t.missing = tx[r].missing /\ t.added = tx[r].added
      /\ t.found = tx[r].found /\ t.removed = tx[r].removed /\ t.kind = k
  BY <1>1, <1>3, <1>4 DEF Transactions, Shows2, Updates!Sees
<1>6. t \in Transactions
  <2>1. Updates!Named(Updates!Sees(r).tags) \in SUBSET Tags
    BY <1>3, TxFacts DEF Updates!Sees, Updates!Named, Transactions, Rows
  <2> QED
    BY <1>3, <2>1 DEF Transactions, UStages, Shows2
<1> HIDE DEF t
<1>7. Solo(r, t)
  BY <1>1, <1>3, <1>5, <1>6 DEF Solo
<1>8. TxOk(r, t)
  BY <1>1, <1>3, <1>4, <1>5 DEF TxOk, TagStages
<1>9. FoundOk(r, t)
  BY <1>1, <1>3, <1>4, <1>5 DEF FoundOk, OpenStage, Updates!Ended
<1>10. EventOk(r, t)
  BY <1>1, <1>3, <1>5 DEF EventOk
<1>11. LocksOk(t)
  BY <1>1, <1>3, <1>4, <1>5 DEF LocksOk, OpenStage, Updates!Ended
<1>12. \A s \in Updates!Others(r) : Apart(t, tx[s])
  BY <1>3, <1>5 DEF Apart
<1> QED
  BY <1>7, <1>8, <1>9, <1>10, <1>11, <1>12 DEF Local

\* DELETE FROM polls: the row is locked, or the request refused.
LEMMA DeletePollStep ==
  ASSUME UpdatesCore, TagsInv, NEW r \in Updaters, Updates!DeleteByIDAndCreator(r)
  PROVE  \E t : Local(r, t)
<1> DEFINE k == tx[r].kind
           t == IF live /\ k.mine THEN [tx[r] EXCEPT !.stage = "cascade", !.lock = "delete"]
                ELSE [tx[r] EXCEPT !.stage = "refused"]
<1>1. /\ tx[r].stage = "delete" /\ tx' = [tx EXCEPT ![r] = t] /\ Updates!Blockers(r) = {}
      /\ UNCHANGED <<live, question, tags, outbox, shown, began, met, last>>
  BY DEF Updates!DeleteByIDAndCreator, Updates!Step, Updates!Unchanged, Updates!pollVars, Updates!historyVars
<1>2. Updates!Holders(r, {"share", "update", "delete"}) = {}
  BY <1>1 DEF Updates!Blockers
<1>3. /\ tx[r] \in Transactions /\ TxOk(r, tx[r]) /\ tx[r].kind \in Kinds /\ Updates!Open(r)
      /\ EventOk(r, tx[r]) /\ FoundOk(r, tx[r]) /\ LocksOk(tx[r]) /\ OpenStage(tx[r])
      /\ \A s \in Updates!Others(r) : Apart(tx[r], tx[s])
  BY <1>1, TxFacts DEF Begun, Updates!Open, Updates!Ended
<1>4. k.retag \in BOOLEAN /\ k.delete = TRUE /\ k.question \in BOOLEAN
  BY <1>1, <1>3, UpdatesConstants DEF TxOk
<1>5. /\ t.stage = IF live /\ k.mine THEN "cascade" ELSE "refused"
      /\ t.lock = IF live /\ k.mine THEN "delete" ELSE "none"
      /\ t.missing = {} /\ t.added = {} /\ t.found = {} /\ t.removed = {} /\ t.kind = k
  BY <1>1, <1>3, <1>4 DEF Transactions, TxOk
<1>6. t \in Transactions
  BY <1>3 DEF Transactions, UStages, Updates!Ended
<1> HIDE DEF t
<1>7. Solo(r, t)
  BY <1>1, <1>2, <1>3, <1>5, <1>6 DEF Solo, Updates!Holders
<1>8. TxOk(r, t)
  BY <1>3, <1>4, <1>5 DEF TxOk, TagStages
<1>9. FoundOk(r, t) /\ EventOk(r, t)
  BY <1>4, <1>5 DEF FoundOk, EventOk, OpenStage
<1>10. LocksOk(t)
  BY <1>5 DEF LocksOk
<1>11. \A s \in Updates!Others(r) : Apart(t, tx[s])
  BY <1>2, <1>5 DEF Apart, Updates!Holders, Updates!Named
<1> QED
  BY <1>7, <1>8, <1>9, <1>10, <1>11 DEF Local

\* A rollback, by a failure or to break a deadlock.
LEMMA EndStep ==
  ASSUME UpdatesCore, TagsInv, NEW r \in Updaters, NEW end \in {"aborted", "victim"}, Updates!Open(r),
         end = "victim" => Updates!InDeadlock(r),
         tx' = [tx EXCEPT ![r] = [@ EXCEPT !.stage = end]],
         UNCHANGED <<live, question, tags, outbox, shown, began, met, last>>
  PROVE  \E t : Local(r, t)
<1> DEFINE t == [tx[r] EXCEPT !.stage = end]
<1>1. tx' = [tx EXCEPT ![r] = t]
  BY DEF UpdatesCore, UpdateTypes
<1>2. /\ tx[r] \in Transactions /\ TxOk(r, tx[r]) /\ tx[r].kind \in Kinds
      /\ FoundOk(r, tx[r]) /\ \A s \in Updates!Others(r) : Apart(tx[r], tx[s])
  BY TxFacts DEF Begun, Updates!Open
<1>3. /\ t.stage = end /\ t.lock = tx[r].lock /\ t.missing = tx[r].missing /\ t.added = tx[r].added
      /\ t.found = tx[r].found /\ t.removed = tx[r].removed /\ t.kind = tx[r].kind
  BY <1>2 DEF Transactions
<1>4. t \in Transactions
  BY <1>2 DEF Transactions, UStages, Updates!Ended
<1>5. LET k == tx[r].kind IN k.retag \in BOOLEAN /\ k.delete \in BOOLEAN /\ k.question \in BOOLEAN
  BY <1>2, UpdatesConstants
<1> HIDE DEF t
<1>6. Solo(r, t)
  BY <1>1, <1>3, <1>4 DEF Solo
<1>7. TxOk(r, t)
  BY <1>2, <1>3, <1>5 DEF TxOk, TagStages
<1>8. FoundOk(r, t) /\ EventOk(r, t) /\ LocksOk(t)
  BY <1>3 DEF FoundOk, EventOk, LocksOk, OpenStage, Updates!Ended
<1>9. \A s \in Updates!Others(r) : Apart(t, tx[s])
  BY <1>2, <1>3 DEF Apart
<1> QED
  BY <1>6, <1>7, <1>8, <1>9 DEF Local

\* Such a step disturbs nobody.
LEMMA LocalKeeps ==
  ASSUME UpdatesInv, NEW r \in Updaters, NEW t, Local(r, t)
  PROVE  UpdatesInv'
<1>0. UpdatesCore /\ EventInv /\ RowsInv /\ FoundInv /\ TagLocks /\ ShownUpdates /\ GivenTags /\ Solo(r, t)
  BY DEF UpdatesInv, TagsInv, Local
<1>1. UpdatesCore'
  BY <1>0, SoloCore DEF Local
<1>2. /\ tx'[r] = t /\ \A s \in Updaters \ {r} : tx'[s] = tx[s]
      /\ \A s \in Updaters : /\ tx'[s].kind = tx[s].kind
                             /\ tx'[s].stage = "committed" <=> tx[s].stage = "committed"
                             /\ Updates!Open(s)' => Updates!Open(s)
      /\ Updates!Open(r)
  BY <1>0 DEF Solo, UpdatesCore, UpdateTypes, Updates!Open, Updates!Ended
<1>3. /\ live' = live /\ question' = question /\ tags' = tags /\ outbox' = outbox /\ shown' = shown
      /\ began' = began /\ met' = met /\ last' = last
  BY <1>0 DEF Solo
<1>4. /\ tags \subseteq Rows /\ met \in [Updaters -> SUBSET Updaters] /\ last \in Updaters \cup {Initial}
      /\ outbox \subseteq Updaters /\ \A s \in Updaters : tx[s].found \subseteq Rows
  BY <1>0 DEF UpdatesCore, UpdateTypes, Transactions
<1>5. \A row \in Rows : row[2] # Initial => row[2] \in Updaters
  BY DEF Rows
<1>6. t.found \subseteq Rows
  BY <1>0 DEF Solo, Transactions
<1>7. EventInv'
  <2> SUFFICES ASSUME NEW s \in Updaters PROVE EventOk(s, tx[s])'
    BY DEF EventInv
  <2>1. Alone(s)' => Alone(s)
    BY <1>2, <1>3, <1>4 DEF Alone, Updates!Locks
  <2>2. EventOk(s, tx'[s])
    BY <1>0, <1>2 DEF EventInv, Local
  <2> QED
    BY <1>2, <1>3, <2>1, <2>2 DEF EventOk
<1>8. RowsInv'
  BY <1>0, <1>2, <1>3, <1>4, <1>5 DEF RowsInv
<1>9. FoundInv'
  <2> SUFFICES ASSUME NEW s \in Updaters PROVE FoundOk(s, tx[s])'
    BY DEF FoundInv
  <2>1. FoundOk(s, tx'[s])
    BY <1>0, <1>2 DEF FoundInv, Local
  <2>2. tx'[s].found \subseteq Rows
    BY <1>2, <1>4, <1>6
  <2> QED
    BY <1>2, <1>3, <1>5, <2>1, <2>2 DEF FoundOk, OpenStage
<1>10. TagLocks'
  <2>1. \A s \in Updaters : LocksOk(tx'[s])
    BY <1>0, <1>2 DEF TagLocks, Local
  <2>2. \A s \in Updaters : LocksOk(tx[s])'
    BY <1>3, <2>1 DEF LocksOk, OpenStage
  <2>3. ASSUME NEW s \in Updaters, NEW q \in Updaters, Updates!Open(s)', Updates!Open(q)', s # q
        PROVE  Apart(tx'[s], tx'[q])
    <3>1. \A o \in Updates!Others(r) : Apart(t, tx[o]) /\ Apart(tx[o], t)
      BY DEF Local, Apart
    <3>2. \A o \in Updaters \ {r} : Updates!Open(o) => o \in Updates!Others(r)
      BY DEF Updates!Others
    <3> QED
      BY <1>0, <1>2, <2>3, <3>1, <3>2 DEF TagLocks
  <2>4. \A a, b \in tags' : a[1] = b[1] => a = b
    BY <1>0, <1>3 DEF TagLocks
  <2> QED
    BY <2>2, <2>3, <2>4 DEF TagLocks, Apart
<1>11. ShownUpdates'
  <2>1. \A s \in Updaters : tx[s].stage = "committed" => tx'[s] = tx[s]
    BY <1>2 DEF Updates!Open, Updates!Ended
  <2> QED
    BY <1>0, <1>2, <1>3, <1>4, <2>1 DEF ShownUpdates, Updates!Content
<1>12. GivenTags'
  BY <1>0, <1>2, <1>3, <1>4 DEF GivenTags
<1> QED
  BY <1>1, <1>7, <1>8, <1>9, <1>10, <1>11, <1>12 DEF UpdatesInv, TagsInv

\* A transaction begins after all others, beside those that are open.
LEMMA BeginKeeps ==
  ASSUME UpdatesInv, NEW r \in Updaters, NEW kind \in Kinds, Updates!Begin(r, kind)
  PROVE  UpdatesInv'
<1> DEFINE stage == IF kind.delete THEN "delete" ELSE IF kind.question THEN "update" ELSE "replace"
           t == [Updates!New EXCEPT !.kind = kind, !.stage = stage]
           top == Updates!Max({began[s] : s \in Updaters})
<1>0. /\ UpdateTypes /\ TxsInv /\ BegunInv /\ Exclusive
      /\ EventInv /\ RowsInv /\ FoundInv /\ TagLocks /\ ShownUpdates /\ GivenTags
  BY DEF UpdatesInv, TagsInv, UpdatesCore
<1>1. /\ tx[r].stage = "new" /\ tx' = [tx EXCEPT ![r] = t]
      /\ began' = [began EXCEPT ![r] = 1 + top]
      /\ met' = [s \in Updaters |-> IF s = r THEN Updates!Others(r)
                                    ELSE IF Updates!Open(s) THEN met[s] \cup {r} ELSE met[s]]
      /\ live' = live /\ question' = question /\ tags' = tags /\ outbox' = outbox /\ shown' = shown
      /\ last' = last
  BY DEF Updates!Begin, Updates!pollVars, t, top
<1>2. /\ t.stage = stage /\ t.kind = kind /\ t.lock = "none" /\ t.found = {} /\ t.removed = {}
      /\ t.missing = {} /\ t.added = {}
      /\ stage \in {"delete", "update", "replace"}
      /\ kind.delete \in BOOLEAN /\ kind.question \in BOOLEAN /\ kind.retag \in BOOLEAN
      /\ kind.delete \/ kind.question \/ kind.retag
  BY UpdatesConstants DEF Updates!New
<1>3. t \in Transactions
  BY <1>2 DEF Transactions, UStages, Updates!New, Shows2
<1>4. top \in Nat /\ \A s \in Updaters : began[s] <= top
  <2> DEFINE B == {began[s] : s \in Updaters}
  <2>1. B \in SUBSET Nat /\ B # {} /\ \A s \in Updaters : began[s] \in B
    BY <1>0 DEF UpdateTypes
  <2>2. IsFiniteSet(B)
    <3>1. began \in Surjection(Updaters, B)
      BY <1>0, <2>1 DEF UpdateTypes, Surjection
    <3> QED
      BY <3>1, UpdatesConstants, FS_Surjection
  <2> HIDE DEF B
  <2>3. \E n \in B : \A m \in B : m <= n
    BY <2>1, <2>2, GreatestNat
  <2>4. Updates!Max(B) \in B /\ \A m \in B : m <= Updates!Max(B)
    BY <2>3 DEF Updates!Max
  <2> QED
    BY <2>1, <2>4 DEF B
<1> HIDE DEF t, top, stage
<1>5. /\ tx'[r] = t /\ \A s \in Updaters \ {r} : tx'[s] = tx[s]
      /\ \A s \in Updaters : Begun(s) => s # r
      /\ Begun(r)' /\ \A s \in Updaters \ {r} : Begun(s)' <=> Begun(s)
      /\ Updates!Open(r)' /\ ~ Updates!Open(r) /\ \A s \in Updaters \ {r} : Updates!Open(s)' <=> Updates!Open(s)
      /\ \A s \in Updaters : tx'[s].stage = "committed" <=> tx[s].stage = "committed"
      /\ \A s \in Updaters : Updates!Open(s) => Begun(s)
  BY <1>0, <1>1, <1>2 DEF UpdateTypes, Begun, Updates!Open, Updates!Ended
<1>6. /\ met'[r] = Updates!Others(r)
      /\ \A s \in Updaters \ {r} : met'[s] = IF Updates!Open(s) THEN met[s] \cup {r} ELSE met[s]
  BY <1>1
<1>7. /\ began'[r] = 1 + top /\ began'[r] \in Nat
      /\ \A s \in Updaters \ {r} : began'[s] = began[s] /\ began[s] < 1 + top /\ began[s] \in Nat
  BY <1>0, <1>1, <1>4 DEF UpdateTypes
<1>8. \A s \in Updaters : \A q \in met[s] : q \in Updaters /\ q # r /\ q # s /\ Begun(q)
  BY <1>0, <1>5 DEF BegunInv, UpdateTypes
<1>9. /\ tags \subseteq Rows /\ outbox \subseteq Updaters /\ \A s \in Updaters : tx[s].found \subseteq Rows
      /\ \A row \in Rows : row[2] # Initial => row[2] \in Updaters
      /\ last \in Updaters \cup {Initial}
  BY <1>0 DEF UpdateTypes, Transactions, Rows
<1>10. UpdateTypes'
  <2>1. tx' \in [Updaters -> Transactions]
    BY <1>0, <1>1, <1>3 DEF UpdateTypes
  <2>2. began' \in [Updaters -> Nat]
    BY <1>0, <1>1, <1>4 DEF UpdateTypes
  <2>3. met' \in [Updaters -> SUBSET Updaters]
    BY <1>0, <1>1 DEF UpdateTypes, Updates!Others
  <2> QED
    BY <1>0, <1>1, <2>1, <2>2, <2>3 DEF UpdateTypes
<1>11. TxsInv'
  <2>1. TxOk(r, t)
    BY <1>2 DEF TxOk, TagStages, stage
  <2> QED
    BY <1>0, <1>5, <2>1 DEF TxsInv
<1>12. BegunInv'
  <2>1. \A s, q \in Updaters : Updates!Open(s)' /\ Updates!Open(q)' /\ s # q => q \in met'[s]
    BY <1>0, <1>5, <1>6 DEF BegunInv, Updates!Others
  <2>2. \A s \in Updaters : \A q \in met'[s] : Begun(q)' /\ q # s
    BY <1>5, <1>6, <1>8 DEF Updates!Others
  <2>3. \A s, q \in Updaters : Updates!Open(s)' /\ Begun(q)' /\ began'[q] > began'[s] => q \in met'[s]
    <3> SUFFICES ASSUME NEW s \in Updaters, NEW q \in Updaters,
                        Updates!Open(s)', Begun(q)', began'[q] > began'[s]
                 PROVE  q \in met'[s]
      OBVIOUS
    <3>1. s # r
      BY <1>7
    <3>2. CASE q = r
      BY <1>5, <1>6, <3>1, <3>2
    <3>3. CASE q # r
      BY <1>0, <1>5, <1>6, <1>7, <3>1, <3>3 DEF BegunInv
    <3> QED
      BY <3>2, <3>3
  <2>4. \A s, q \in Updaters : Begun(s)' /\ Begun(q)' /\ began'[s] = began'[q] => s = q
    <3> SUFFICES ASSUME NEW s \in Updaters, NEW q \in Updaters, Begun(s)', Begun(q)', began'[s] = began'[q], s # q
                 PROVE  FALSE
      OBVIOUS
    <3>1. s # r /\ q # r
      BY <1>7
    <3> QED
      BY <1>0, <1>5, <1>7, <3>1 DEF BegunInv
  <2> QED
    BY <2>1, <2>2, <2>3, <2>4 DEF BegunInv
<1>13. Exclusive'
  BY <1>0, <1>2, <1>5 DEF Exclusive
<1>14. EventInv'
  <2> SUFFICES ASSUME NEW s \in Updaters PROVE EventOk(s, tx[s])'
    BY DEF EventInv
  <2>1. CASE s = r
    BY <1>2, <1>5, <2>1 DEF EventOk
  <2>2. CASE s # r
    <3>1. Alone(s)' => Alone(s)
      BY <1>5, <1>6, <1>8, <2>2 DEF Alone, Updates!Locks
    <3> QED
      BY <1>0, <1>1, <1>5, <2>2, <3>1 DEF EventInv, EventOk
  <2> QED
    BY <2>1, <2>2
<1>15. RowsInv'
  BY <1>0, <1>1, <1>5, <1>9 DEF RowsInv
<1>16. FoundInv'
  <2> SUFFICES ASSUME NEW s \in Updaters PROVE FoundOk(s, tx[s])'
    BY DEF FoundInv
  <2>1. CASE s = r
    BY <1>2, <1>5, <2>1 DEF FoundOk
  <2>2. CASE s # r
    <3>1. tx'[s] = tx[s] /\ FoundOk(s, tx[s]) /\ met[s] \subseteq met'[s] /\ (met'[s] = {} => met[s] = {})
      BY <1>0, <1>5, <1>6, <2>2 DEF FoundInv
    <3> QED
      BY <1>1, <1>5, <1>9, <3>1 DEF FoundOk, OpenStage
  <2> QED
    BY <2>1, <2>2
<1>17. TagLocks'
  <2>1. \A s \in Updaters : LocksOk(tx'[s])
    BY <1>0, <1>2, <1>5 DEF TagLocks, LocksOk
  <2>2. \A s \in Updaters : LocksOk(tx[s])'
    BY <1>1, <2>1 DEF LocksOk, OpenStage
  <2>3. \A s \in Updaters : Apart(t, tx[s]) /\ Apart(tx[s], t)
    BY <1>2 DEF Apart, Updates!Named
  <2>4. \A s, q \in Updaters : Updates!Open(s)' /\ Updates!Open(q)' /\ s # q => Apart(tx'[s], tx'[q])
    BY <1>0, <1>5, <2>3 DEF TagLocks
  <2>5. \A a, b \in tags' : a[1] = b[1] => a = b
    BY <1>0, <1>1 DEF TagLocks
  <2> QED
    BY <2>2, <2>4, <2>5 DEF TagLocks, Apart
<1>18. /\ \A s \in Updaters : tx[s].stage = "committed" =>
             s # r /\ tx'[s] = tx[s] /\ met'[s] = met[s] /\ began'[s] = began[s]
       /\ \A s \in Updaters : \A q \in met[s] : tx'[q] = tx[q]
  BY <1>1, <1>5, <1>6, <1>7, <1>8 DEF Updates!Open, Updates!Ended
<1>19. ShownUpdates'
  BY <1>0, <1>1, <1>9, <1>18 DEF ShownUpdates, Updates!Content
<1>20. GivenTags'
  <2>1. last # Initial => /\ last \in Updaters /\ tx[last].stage = "committed"
                         /\ tx'[last] = tx[last] /\ met'[last] = met[last]
    BY <1>0, <1>9, <1>18 DEF ShownUpdates
  <2> QED
    BY <1>0, <1>1, <1>18, <2>1 DEF GivenTags, Updates!Named
<1> QED
  BY <1>10, <1>11, <1>12, <1>13, <1>14, <1>15, <1>16, <1>17, <1>19, <1>20 DEF UpdatesInv, TagsInv, UpdatesCore

\* A step that leaves the transactions and what is committed alone.
LEMMA FrameKeeps ==
  ASSUME UpdatesInv, outbox' \subseteq outbox,
         UNCHANGED <<live, question, tags, tx, began, met, last>>
  PROVE  UpdatesCore' /\ TagsInv' /\ GivenTags'
<1>0. \A s : Updates!Open(s)' = Updates!Open(s) /\ Begun(s)' = Begun(s)
  BY DEF Updates!Open, Begun
<1>1. UpdatesCore'
  <2>1. UpdateTypes'
    BY DEF UpdatesInv, UpdatesCore, UpdateTypes
  <2>2. TxsInv'
    BY DEF UpdatesInv, UpdatesCore, TxsInv, TxOk
  <2>3. BegunInv'
    BY <1>0 DEF UpdatesInv, UpdatesCore, BegunInv
  <2>4. Exclusive'
    BY <1>0 DEF UpdatesInv, UpdatesCore, Exclusive
  <2> QED
    BY <2>1, <2>2, <2>3, <2>4 DEF UpdatesCore
<1>2. TagsInv'
  <2>1. EventInv'
    BY DEF UpdatesInv, TagsInv, EventInv, EventOk, Alone, Updates!Locks
  <2>2. RowsInv'
    BY DEF UpdatesInv, TagsInv, RowsInv
  <2>3. FoundInv'
    BY DEF UpdatesInv, TagsInv, FoundInv, FoundOk, OpenStage
  <2>4. TagLocks'
    BY <1>0 DEF UpdatesInv, TagsInv, TagLocks, LocksOk, Apart, OpenStage
  <2> QED
    BY <2>1, <2>2, <2>3, <2>4 DEF TagsInv
<1>3. GivenTags'
  BY DEF UpdatesInv, GivenTags
<1> QED
  BY <1>1, <1>2, <1>3

\* What a flush shows is the last of what was committed.
LEMMA FlushKeeps ==
  ASSUME UpdatesInv, Updates!Flush
  PROVE  UpdatesInv'
<1> DEFINE latest == CHOOSE r \in outbox : \A s \in outbox : began[s] <= began[r]
<1>1. /\ outbox # {} /\ shown' = tx[latest].event /\ outbox' = {}
      /\ live' = live /\ question' = question /\ tags' = tags /\ tx' = tx /\ began' = began /\ met' = met
      /\ last' = last
  BY DEF Updates!Flush, Updates!pollVars, Updates!historyVars
<1>2. UpdatesCore' /\ TagsInv' /\ GivenTags'
  BY <1>1, FrameKeeps
<1>3. ShownUpdates'
  <2>1. ASSUME last # Initial, live, met[last] = {}
        PROVE  shown' = Updates!Content
    <3>1. last \in outbox /\ tx[last].event = Updates!Content /\ \A r \in outbox : began[r] <= began[last]
      BY <1>1, <2>1 DEF UpdatesInv, ShownUpdates
    <3> HIDE DEF latest
    <3>2. latest \in outbox /\ \A s \in outbox : began[s] <= began[latest]
      BY <3>1 DEF latest
    <3>3. began[latest] = began[last]
      <4>1. began[latest] \in Nat /\ began[last] \in Nat
        BY <3>1, <3>2 DEF UpdatesInv, UpdatesCore, UpdateTypes
      <4> QED
        BY <3>1, <3>2, <4>1
    <3>4. Begun(latest) /\ Begun(last) /\ latest \in Updaters /\ last \in Updaters
      BY <3>1, <3>2 DEF UpdatesInv, UpdatesCore, UpdateTypes, ShownUpdates, Begun
    <3>5. latest = last
      BY <3>3, <3>4 DEF UpdatesInv, UpdatesCore, BegunInv
    <3> QED
      BY <1>1, <3>1, <3>5
  <2> QED
    BY <1>1, <2>1 DEF UpdatesInv, ShownUpdates, Updates!Content
<1> QED
  BY <1>2, <1>3 DEF UpdatesInv

\* The consumer only counts.
LEMMA CountingKeeps ==
  ASSUME UpdatesInv,
         UNCHANGED <<live, question, tags, tx, outbox, shown, began, met, last>>
  PROVE  UpdatesInv'
<1>1. UpdatesCore' /\ TagsInv' /\ GivenTags'
  BY FrameKeeps
<1>2. ShownUpdates'
  BY DEF UpdatesInv, ShownUpdates, Updates!Content
<1> QED
  BY <1>1, <1>2 DEF UpdatesInv

\* What a commit is to the others that are open.
LEMMA CommitFacts ==
  ASSUME UpdatesInv, NEW r \in Updaters, Updates!Open(r), NEW t, t.stage = "committed", t.kind = tx[r].kind,
         tx' = [tx EXCEPT ![r] = t]
  PROVE  /\ tx'[r] = t /\ \A s \in Updaters \ {r} : tx'[s] = tx[s]
         /\ \A s \in Updaters : tx'[s].kind = tx[s].kind
         /\ \A s \in Updaters : Updates!Open(s)' => Updates!Open(s) /\ s # r /\ r \in met[s] /\ s \in met[r]
         /\ \A s \in Updaters : Begun(s)' <=> Begun(s)
         /\ \A s \in Updaters : tx'[s].stage = "committed" <=> tx[s].stage = "committed" \/ s = r
         /\ \A s \in Updaters : tx[s].stage = "committed" => s # r
<1>1. tx \in [Updaters -> Transactions] /\ BegunInv
  BY DEF UpdatesInv, UpdatesCore, UpdateTypes
<1>2. tx'[r] = t /\ \A s \in Updaters \ {r} : tx'[s] = tx[s]
  BY <1>1
<1>3. \A s \in Updaters : Updates!Open(s)' => Updates!Open(s) /\ s # r
  BY <1>2 DEF Updates!Open, Updates!Ended
<1>4. \A s \in Updaters : Begun(s)' <=> Begun(s)
  BY <1>2 DEF Updates!Open, Begun
<1>5. tx[r].stage # "committed"
  BY DEF Updates!Open, Updates!Ended
<1> QED
  BY <1>1, <1>2, <1>3, <1>4, <1>5 DEF BegunInv

\* The stages and kinds of both commits keep what is said of each transaction.
LEMMA CommitCore ==
  ASSUME UpdatesInv, NEW r \in Updaters, Updates!Open(r), NEW t, t = [tx[r] EXCEPT !.stage = "committed"],
         tx' = [tx EXCEPT ![r] = t], UNCHANGED <<began, met>>, UpdateTypes'
  PROVE  UpdatesCore'
<1>1. /\ tx[r] \in Transactions /\ TxOk(r, tx[r]) /\ tx[r].kind \in Kinds
      /\ TxsInv /\ BegunInv /\ Exclusive
  BY TxFacts DEF UpdatesInv, UpdatesCore, TagsInv, Begun, Updates!Open
<1>2. /\ t.stage = "committed" /\ t.lock = tx[r].lock /\ t.missing = tx[r].missing /\ t.added = tx[r].added
      /\ t.found = tx[r].found /\ t.removed = tx[r].removed /\ t.kind = tx[r].kind
  BY <1>1 DEF Transactions
<1>3. /\ tx'[r] = t /\ \A s \in Updaters \ {r} : tx'[s] = tx[s]
      /\ \A s \in Updaters : Updates!Open(s)' => Updates!Open(s) /\ s # r
      /\ \A s \in Updaters : Begun(s)' <=> Begun(s)
  BY <1>2, CommitFacts
<1>4. LET k == tx[r].kind IN k.retag \in BOOLEAN /\ k.delete \in BOOLEAN /\ k.question \in BOOLEAN
  BY <1>1, UpdatesConstants
<1>5. TxsInv'
  <2> HIDE DEF TxsInv
  <2>1. TxOk(r, t)
    BY <1>1, <1>2, <1>4 DEF TxOk, TagStages
  <2> QED
    BY <1>1, <1>3, <2>1 DEF TxsInv
<1>6. BegunInv'
  <2>1. began' = began /\ met' = met
    OBVIOUS
  <2>2. \A s \in Updaters : (Updates!Open(s)' => Updates!Open(s)) /\ (Begun(s)' <=> Begun(s))
    BY <1>3
  <2>3. \A s, q \in Updaters : Updates!Open(s)' /\ Updates!Open(q)' /\ s # q => q \in met'[s]
    BY <1>1, <2>1, <2>2 DEF BegunInv
  <2>4. \A s \in Updaters : \A q \in met'[s] : Begun(q)' /\ q # s
    <3>1. \A s \in Updaters : met[s] \subseteq Updaters
      BY DEF UpdatesInv, UpdatesCore, UpdateTypes
    <3> QED
      BY <1>1, <2>1, <2>2, <3>1 DEF BegunInv
  <2>5. \A s, q \in Updaters : Updates!Open(s)' /\ Begun(q)' /\ began'[q] > began'[s] => q \in met'[s]
    BY <1>1, <2>1, <2>2 DEF BegunInv
  <2>6. \A s, q \in Updaters : Begun(s)' /\ Begun(q)' /\ began'[s] = began'[q] => s = q
    BY <1>1, <2>1, <2>2 DEF BegunInv
  <2> QED
    BY <2>3, <2>4, <2>5, <2>6 DEF BegunInv
<1>7. Exclusive'
  BY <1>1, <1>3 DEF Exclusive
<1> QED
  BY <1>5, <1>6, <1>7 DEF UpdatesCore

\* An update commits.
LEMMA CommitUpdateKeeps ==
  ASSUME UpdatesInv, LockedLives, NEW r \in Updaters, Updates!CommitUpdate(r)
  PROVE  UpdatesInv'
<1> DEFINE k == tx[r].kind
           t == [tx[r] EXCEPT !.stage = "committed"]
           kept == tags \ tx[r].removed
           added == tx[r].added
<1>0. /\ UpdateTypes /\ TxsInv /\ BegunInv /\ Exclusive
      /\ EventInv /\ RowsInv /\ FoundInv /\ TagLocks /\ ShownUpdates /\ GivenTags
  BY DEF UpdatesInv, TagsInv, UpdatesCore
<1>1. /\ tx[r].stage = "commit" /\ tx' = [tx EXCEPT ![r] = t] /\ k.delete = FALSE
      /\ question' = (IF k.question THEN r ELSE question)
      /\ tags' = kept \cup added
      /\ outbox' = outbox \cup {r} /\ last' = r
      /\ live' = live /\ shown' = shown /\ began' = began /\ met' = met
  <2>1. k \in Kinds
    BY <1>0 DEF TxsInv, TxOk, Updates!CommitUpdate, Updates!Step
  <2>2. k.delete \in BOOLEAN
    BY <2>1, UpdatesConstants
  <2> QED
    BY <2>2 DEF Updates!CommitUpdate, Updates!Step, Updates!Sees
<1>2. /\ Updates!Open(r) /\ tx[r] \in Transactions /\ TxOk(r, tx[r]) /\ k \in Kinds
      /\ EventOk(r, tx[r]) /\ FoundOk(r, tx[r]) /\ LocksOk(tx[r]) /\ OpenStage(tx[r])
      /\ \A s \in Updates!Others(r) : Apart(tx[r], tx[s])
  BY <1>1, TxFacts DEF UpdatesInv, Begun, Updates!Open, Updates!Ended
<1>3. /\ t.stage = "committed" /\ t.kind = k /\ t.event = tx[r].event
  BY <1>2 DEF Transactions
<1>4. /\ k.retag \in BOOLEAN /\ k.question \in BOOLEAN /\ k.tags \subseteq Tags
  BY <1>2, UpdatesConstants
<1>5. /\ tx'[r] = t /\ \A s \in Updaters \ {r} : tx'[s] = tx[s]
      /\ \A s \in Updaters : tx'[s].kind = tx[s].kind
      /\ \A s \in Updaters : Updates!Open(s)' => Updates!Open(s) /\ s # r /\ r \in met[s] /\ s \in met[r]
      /\ \A s \in Updaters : Begun(s)' <=> Begun(s)
      /\ \A s \in Updaters : tx'[s].stage = "committed" <=> tx[s].stage = "committed" \/ s = r
      /\ \A s \in Updaters : tx[s].stage = "committed" => s # r
  BY <1>1, <1>2, <1>3, CommitFacts
<1> HIDE DEF t
<1>6. /\ tags \subseteq Rows /\ \A s \in Updaters : tx[s].found \subseteq Rows /\ met[s] \subseteq Updaters
      /\ \A row \in Rows : row[2] # Initial => row[2] \in Updaters
      /\ last \in Updaters \cup {Initial} /\ outbox \subseteq Updaters /\ Initial \notin Updaters
      /\ question \in Updaters \cup {Initial}
  BY <1>0, UpdatesConstants DEF UpdateTypes, Transactions, Rows
\* The rows that stay, those that come.
<1>7. \A row \in added : row[1] \in k.tags /\ row[2] = r /\ row = <<row[1], r>>
  BY <1>2 DEF TxOk
<1>8. added # {} => k.retag
  BY <1>2 DEF TxOk
<1>9. added \subseteq Rows
  BY <1>2 DEF Transactions
<1>10. k.retag => \A row \in kept : row[2] \in met[r]
  BY <1>1, <1>2 DEF FoundOk
<1>11. /\ \A a \in added : a[1] \notin Updates!Named(kept)
       /\ added # {} => tx[r].lock \in {"share", "update"}
       /\ tx[r].removed \subseteq tags
  BY <1>1, <1>2 DEF LocksOk
<1>12. /\ tags' = kept \cup added /\ kept \subseteq tags
       /\ kept \cap tx[r].removed = {}
       /\ ~ live => kept = {} /\ added = {}
  <2>1. ~ live => tags = {} /\ tx[r].lock = "none"
    BY <1>0, <1>2 DEF RowsInv, LockedLives
  <2> QED
    BY <1>1, <1>11, <2>1
<1> HIDE DEF kept, added
<1>13. UpdatesCore'
  <2>1. tx' \in [Updaters -> Transactions]
    <3>1. t \in Transactions
      BY <1>2 DEF t, Transactions, UStages, Updates!Ended
    <3> QED
      BY <1>0, <1>1, <3>1 DEF UpdateTypes
  <2>2. tags' \in SUBSET Rows
    BY <1>6, <1>9, <1>12
  <2>3. question' \in Updaters \cup {Initial}
    BY <1>1, <1>6
  <2>4. UpdateTypes'
    BY <1>0, <1>1, <2>1, <2>2, <2>3 DEF UpdateTypes
  <2> QED
    BY <1>1, <1>2, <2>4, CommitCore DEF t
<1>14. EventInv'
  <2> SUFFICES ASSUME NEW s \in Updaters, Alone(s)', tx'[s].stage \in {"readTags", "commit"} PROVE FALSE
    BY DEF EventInv, EventOk
  <2>1. Updates!Open(s)' /\ tx'[s] = tx[s]
    BY <1>3, <1>5 DEF Updates!Open, Updates!Ended
  <2>2. r \in met[s] /\ s # r /\ Updates!Open(s)
    BY <1>5, <2>1
  <2>3. Updates!Locks(r) /\ Updates!Locks(s)
    BY <1>1, <1>5, <2>2 DEF Alone, Updates!Locks
  <2>4. tx[r].lock = "update"
    BY <1>1, <1>2, <2>3 DEF TxOk, Updates!Locks
  <2>5. tx[s].lock = "update"
    <3>1. TxOk(s, tx[s])
      BY <1>0 DEF TxsInv
    <3> QED
      BY <2>1, <2>3, <3>1 DEF TxOk, Updates!Locks
  <2> QED
    BY <1>0, <1>2, <2>2, <2>4, <2>5 DEF Exclusive
<1>15. RowsInv'
  <2>1. \A row \in kept : row[2] # Initial =>
            /\ tx'[row[2]].stage = "committed" /\ tx'[row[2]].kind.retag
            /\ row[1] \in tx'[row[2]].kind.tags
    BY <1>0, <1>5, <1>6, <1>12 DEF RowsInv
  <2>2. \A row \in added : /\ tx'[row[2]].stage = "committed" /\ tx'[row[2]].kind.retag
                           /\ row[1] \in tx'[row[2]].kind.tags
    BY <1>3, <1>5, <1>7, <1>8
  <2>3. ~ live' => tags' = {}
    BY <1>1, <1>12
  <2> QED
    BY <1>12, <2>1, <2>2, <2>3 DEF RowsInv
<1>16. ASSUME NEW s \in Updaters, Updates!Open(s)'
       PROVE  /\ tx'[s] = tx[s] /\ FoundOk(s, tx[s]) /\ LocksOk(tx[s]) /\ OpenStage(tx[s])
              /\ tx[s].found \cap added = {} /\ TxOk(s, tx[s]) /\ r \in met[s] /\ s # r /\ Apart(tx[r], tx[s])
  <2>1. tx'[s] = tx[s] /\ Updates!Open(s) /\ s # r /\ r \in met[s]
    BY <1>5, <1>16
  <2>2. FoundOk(s, tx[s]) /\ LocksOk(tx[s]) /\ TxOk(s, tx[s]) /\ OpenStage(tx[s])
    BY <2>1, TxFacts DEF UpdatesInv
  <2>3. \A row \in tx[s].found : row[2] # r
    BY <1>5, <1>6, <2>2 DEF FoundOk
  <2>4. Apart(tx[r], tx[s])
    BY <1>2, <2>1 DEF Updates!Others
  <2> QED
    BY <1>7, <2>1, <2>2, <2>3, <2>4
<1>17. FoundInv'
  <2> SUFFICES ASSUME NEW s \in Updaters PROVE FoundOk(s, tx[s])'
    BY DEF FoundInv
  <2>1. CASE Updates!Open(s)'
    <3>1. /\ tx'[s] = tx[s] /\ FoundOk(s, tx[s]) /\ OpenStage(tx[s])
          /\ tx[s].found \cap added = {} /\ r \in met[s]
      BY <1>16, <2>1
    <3>2. \A row \in tx[s].found : row[2] # Initial => tx'[row[2]].stage = "committed"
      BY <1>5, <1>6, <3>1 DEF FoundOk
    <3>3. \A row \in tags' \ tx[s].found : row \in tags \ tx[s].found \/ row[2] \in met[s]
      BY <1>7, <1>12, <3>1
    <3>4. (tx[s].found \cap tags') \subseteq tx[s].found \cap tags
      BY <1>12, <3>1
    <3> QED
      BY <1>1, <3>1, <3>2, <3>3, <3>4 DEF FoundOk
  <2>2. CASE ~ Updates!Open(s)'
    <3>1. tx'[s].stage \in {"new"} \cup Updates!Ended
      BY <2>2 DEF Updates!Open
    <3> QED
      BY <3>1 DEF FoundOk, OpenStage, Updates!Ended
  <2> QED
    BY <2>1, <2>2
<1>18. TagLocks'
  <2>1. \A a, b \in tags' : a[1] = b[1] => a = b
    <3>1. \A a \in kept : a[1] \in Updates!Named(kept)
      BY DEF Updates!Named
    <3> QED
      BY <1>0, <1>7, <1>11, <1>12, <3>1 DEF TagLocks
  <2>2. ASSUME NEW s \in Updaters PROVE LocksOk(tx[s])'
    <3>1. CASE Updates!Open(s)'
      <4>1. /\ tx'[s] = tx[s] /\ LocksOk(tx[s]) /\ OpenStage(tx[s]) /\ TxOk(s, tx[s]) /\ s # r
            /\ tx[s].found \cap added = {} /\ Apart(tx[r], tx[s])
        BY <1>16, <3>1
      <4>2. \A a \in tx[s].added : a[1] \notin Updates!Named(tags' \ tx[s].removed)
        <5>1. \A a \in tx[s].added : a[1] \notin Updates!Named(tags \ tx[s].removed)
          BY <4>1 DEF LocksOk
        <5>2. Updates!Named(tags' \ tx[s].removed) \subseteq
                Updates!Named(tags \ tx[s].removed) \cup Updates!Named(added)
          BY <1>12 DEF Updates!Named
        <5>3. \A a \in tx[s].added : a[1] \notin Updates!Named(added)
          BY <4>1 DEF Apart, Updates!Named, added
        <5> QED
          BY <5>1, <5>2, <5>3
      <4>3. tx[s].removed \subseteq tags'
        <5>1. tx[s].removed \subseteq tags /\ tx[s].removed \cap tx[r].removed = {}
          BY <4>1 DEF LocksOk, Apart
        <5>2. CASE live
          BY <1>12, <5>1, <5>2 DEF kept
        <5>3. CASE ~ live
          BY <1>0, <5>1, <5>3 DEF RowsInv
        <5> QED
          BY <5>2, <5>3
      <4>4. tx[s].stage = "removing" =>
              \A a \in tx[s].removed, b \in (tx[s].found \cap tags') \ tx[s].removed : a[1] <= b[1]
        <5>1. tx[s].found \cap tags' \subseteq tx[s].found \cap tags
          BY <1>12, <4>1
        <5> QED
          BY <4>1, <5>1 DEF LocksOk
      <4>5. tx[s].kind.delete /\ tx[s].stage \in {"removing", "deleted"} => tags' \subseteq tx[s].found
        <5> SUFFICES ASSUME tx[s].kind.delete, tx[s].stage \in {"removing", "deleted"}
                     PROVE  tags' \subseteq tx[s].found
          OBVIOUS
        <5>1. tx[s].lock = "delete" /\ tags \subseteq tx[s].found
          BY <4>1 DEF TxOk, LocksOk
        <5>2. added = {}
          <6>1. tx[r].lock # "share"
            BY <4>1, <5>1 DEF Apart
          <6>2. tx[r].lock # "update"
            BY <1>0, <1>2, <1>5, <3>1, <4>1, <5>1 DEF Exclusive
          <6> QED
            BY <1>11, <6>1, <6>2
        <5> QED
          BY <1>12, <5>1, <5>2
      <4>6. tx[s].added # {} /\ tx[s].stage # "refer" => tx[s].lock \in {"share", "update"}
        BY <4>1 DEF LocksOk
      <4> QED
        BY <4>1, <4>2, <4>3, <4>4, <4>5, <4>6 DEF LocksOk
    <3>2. CASE ~ Updates!Open(s)'
      BY <3>2 DEF LocksOk, OpenStage, Updates!Open
    <3> QED
      BY <3>1, <3>2
  <2>3. \A s, q \in Updaters : Updates!Open(s)' /\ Updates!Open(q)' /\ s # q => Apart(tx'[s], tx'[q])
    <3>1. \A s \in Updaters : Updates!Open(s)' => Updates!Open(s) /\ tx'[s] = tx[s]
      BY <1>5
    <3> QED
      BY <1>0, <3>1 DEF TagLocks
  <2> QED
    BY <2>1, <2>2, <2>3 DEF TagLocks, Apart
<1>19. ShownUpdates'
  <2>1. tx'[r].stage = "committed" /\ tx'[r].event = tx[r].event /\ tx'[r].kind = k
    BY <1>3, <1>5
  <2>2. \A s \in outbox' : tx'[s].stage = "committed"
    BY <1>0, <1>1, <1>5, <1>6, <2>1 DEF ShownUpdates
  <2>3. ASSUME live, met[r] = {} PROVE tx[r].event = Updates!Content' /\ \A s \in outbox' : began[s] <= began[r]
    <3>1. Alone(r)
      BY <2>3 DEF Alone
    <3>2. /\ tx[r].event.question = IF k.question THEN r ELSE question
          /\ tx[r].event.tags = Updates!Named(kept \cup added)
      BY <1>1, <1>2, <3>1 DEF EventOk, kept, added
    <3>3. tx[r].event \in Shows2
      BY <1>2 DEF Transactions
    <3>4. tx[r].event = Updates!Content'
      BY <1>1, <1>12, <2>3, <3>2, <3>3 DEF Updates!Content, Shows2, Updates!Named
    <3>5. ASSUME NEW s \in outbox' PROVE began[s] <= began[r]
      <4>1. s \in Updaters /\ began[s] \in Nat /\ began[r] \in Nat
        BY <1>0, <1>1, <1>6, <3>5 DEF UpdateTypes
      <4>2. s = r \/ Begun(s)
        BY <1>0, <1>1, <3>5 DEF ShownUpdates, Begun
      <4>3. ~ (began[s] > began[r])
        BY <1>0, <1>2, <2>3, <4>1, <4>2 DEF BegunInv
      <4> QED
        BY <4>1, <4>3
    <3> QED
      BY <3>4, <3>5
  <2>4. r # Initial /\ r \in outbox'
    BY <1>1, <1>6
  <2> QED
    BY <1>1, <2>1, <2>2, <2>3, <2>4 DEF ShownUpdates
<1>20. GivenTags'
  <2> SUFFICES ASSUME live, k.retag
               PROVE  /\ \A row \in tags' : \/ row[1] \in k.tags
                                            \/ \E s \in met[r] : /\ tx'[s].stage = "committed" /\ tx'[s].kind.retag
                                                                 /\ row[1] \in tx'[s].kind.tags
                      /\ met[r] = {} => Updates!Named(tags') = k.tags
    BY <1>1, <1>3, <1>5 DEF GivenTags
  <2>1. ASSUME NEW row \in kept
        PROVE  row[2] \in met[r] /\ tx'[row[2]].stage = "committed" /\ tx'[row[2]].kind.retag
               /\ row[1] \in tx'[row[2]].kind.tags
    <3>1. row[2] \in met[r] /\ row[2] \in Updaters /\ row[2] # Initial
      BY <1>6, <1>10
    <3>2. row \in tags
      BY <1>12
    <3> QED
      BY <1>0, <1>5, <3>1, <3>2 DEF RowsInv
  <2>2. met[r] = {} => Updates!Named(tags') = k.tags
    <3> SUFFICES ASSUME met[r] = {} PROVE Updates!Named(tags') = k.tags
      OBVIOUS
    <3>1. kept = {}
      BY <2>1
    <3>2. tags' = added
      BY <1>12, <3>1
    <3>3. tx[r].missing = {}
      BY <1>1, <1>2 DEF TxOk
    <3>4. k.tags \subseteq Updates!Named(added)
      BY <1>1, <1>2, <3>3 DEF FoundOk, added
    <3>5. Updates!Named(added) \subseteq k.tags
      BY <1>7 DEF Updates!Named
    <3> QED
      BY <3>2, <3>4, <3>5
  <2> QED
    BY <1>7, <1>12, <2>1, <2>2
<1> QED
  BY <1>13, <1>14, <1>15, <1>17, <1>18, <1>19, <1>20 DEF UpdatesInv, TagsInv

\* Whoever is in a ring waits for somebody in it.
LEMMA Waiting ==
  ASSUME NEW a, Updates!InDeadlock(a)
  PROVE  /\ \E ring \in SUBSET Updates!Actors : a \in ring /\ Updates!Stuck(ring)
         /\ a # "consumer" => Updates!Open(a)
<1>1. PICK ring \in SUBSET Updates!Actors : a \in ring /\ Updates!Stuck(ring)
  BY DEF Updates!InDeadlock
<1>2. Updates!BlockersOf(a) # {}
  BY <1>1 DEF Updates!Stuck
<1>3. a # "consumer" => tx[a].stage \in {"update", "removing", "insert", "refer", "delete", "cascade"}
  BY <1>2 DEF Updates!BlockersOf, Updates!Blockers
<1> QED
  BY <1>1, <1>3 DEF Updates!Open, Updates!Ended

\* A deletion commits; nothing of the poll is left, and whoever is open beside it
\* has removed none of its tags.
LEMMA CommitDeleteKeeps ==
  ASSUME UpdatesInv, NEW r \in Updaters, Updates!CommitDelete(r)
  PROVE  UpdatesInv'
<1> DEFINE t == [tx[r] EXCEPT !.stage = "committed"]
<1>0. /\ UpdateTypes /\ TxsInv /\ BegunInv /\ Exclusive
      /\ EventInv /\ RowsInv /\ FoundInv /\ TagLocks /\ ShownUpdates /\ GivenTags
  BY DEF UpdatesInv, TagsInv, UpdatesCore
<1>1. /\ tx[r].stage = "deleted" /\ tx' = [tx EXCEPT ![r] = t]
      /\ live' = FALSE /\ tags' = {}
      /\ question' = question /\ outbox' = outbox /\ shown' = shown /\ began' = began /\ met' = met /\ last' = last
  BY DEF Updates!CommitDelete, Updates!Step, Updates!historyVars
<1>2. /\ Updates!Open(r) /\ tx[r] \in Transactions /\ TxOk(r, tx[r])
      /\ FoundOk(r, tx[r]) /\ LocksOk(tx[r]) /\ OpenStage(tx[r])
      /\ \A s \in Updates!Others(r) : Apart(tx[r], tx[s])
  BY <1>1, TxFacts DEF UpdatesInv, Begun, Updates!Open, Updates!Ended
<1>3. t.stage = "committed" /\ t.kind = tx[r].kind /\ tx[r].kind.delete /\ tx[r].lock = "delete"
  BY <1>1, <1>2 DEF Transactions, TxOk
<1>4. /\ tx'[r] = t /\ \A s \in Updaters \ {r} : tx'[s] = tx[s]
      /\ \A s \in Updaters : tx'[s].kind = tx[s].kind
      /\ \A s \in Updaters : Updates!Open(s)' => Updates!Open(s) /\ s # r /\ r \in met[s] /\ s \in met[r]
      /\ \A s \in Updaters : Begun(s)' <=> Begun(s)
      /\ \A s \in Updaters : tx'[s].stage = "committed" <=> tx[s].stage = "committed" \/ s = r
      /\ \A s \in Updaters : tx[s].stage = "committed" => s # r
  BY <1>1, <1>2, <1>3, CommitFacts
<1> HIDE DEF t
<1>5. UpdatesCore'
  <2>1. t \in Transactions
    BY <1>2 DEF t, Transactions, UStages, Updates!Ended
  <2>2. UpdateTypes'
    BY <1>0, <1>1, <2>1 DEF UpdateTypes
  <2> QED
    BY <1>1, <1>2, <2>2, CommitCore DEF t
<1>6. EventInv'
  <2> SUFFICES ASSUME NEW s \in Updaters, Alone(s)', tx'[s].stage \in {"readTags", "commit"} PROVE FALSE
    BY DEF EventInv, EventOk
  <2>1. Updates!Open(s)' /\ tx'[s] = tx[s]
    BY <1>3, <1>4 DEF Updates!Open, Updates!Ended
  <2>2. r \in met[s] /\ s # r /\ Updates!Open(s)
    BY <1>4, <2>1
  <2>3. Updates!Locks(s)
    BY <1>1, <1>4, <2>2 DEF Alone, Updates!Locks
  <2>4. tx[s].lock = "update"
    <3>1. TxOk(s, tx[s])
      BY <1>0 DEF TxsInv
    <3> QED
      BY <2>1, <2>3, <3>1 DEF TxOk, Updates!Locks
  <2> QED
    BY <1>0, <1>2, <1>3, <2>2, <2>4 DEF Exclusive
<1>7. RowsInv'
  BY <1>1 DEF RowsInv
<1>8. ASSUME NEW s \in Updaters, Updates!Open(s)'
      PROVE  /\ tx'[s] = tx[s] /\ FoundOk(s, tx[s]) /\ LocksOk(tx[s]) /\ OpenStage(tx[s])
             /\ tx[s].removed = {}
  <2>1. tx'[s] = tx[s] /\ Updates!Open(s) /\ s # r
    BY <1>4, <1>8
  <2>2. FoundOk(s, tx[s]) /\ LocksOk(tx[s]) /\ OpenStage(tx[s])
    BY <2>1, TxFacts DEF UpdatesInv
  <2>3. tags \subseteq tx[r].removed
    BY <1>1, <1>2, <1>3 DEF FoundOk, LocksOk
  <2>4. tx[s].removed \subseteq tags /\ tx[s].removed \cap tx[r].removed = {}
    BY <1>2, <2>1, <2>2 DEF LocksOk, Apart, Updates!Others
  <2> QED
    BY <2>1, <2>2, <2>3, <2>4
<1>9. \A s \in Updaters : ~ Updates!Open(s)' => tx'[s].stage \in {"new"} \cup Updates!Ended
  BY DEF Updates!Open
<1>10. FoundInv'
  <2> SUFFICES ASSUME NEW s \in Updaters PROVE FoundOk(s, tx[s])'
    BY DEF FoundInv
  <2>1. CASE Updates!Open(s)'
    <3>1. tx[s].found \subseteq Rows /\ \A row \in Rows : row[2] # Initial => row[2] \in Updaters
      BY <1>0 DEF UpdateTypes, Transactions, Rows
    <3>2. \A row \in tx[s].found : row[2] # Initial => tx'[row[2]].stage = "committed"
      BY <1>4, <1>8, <2>1, <3>1 DEF FoundOk
    <3> QED
      BY <1>1, <1>8, <2>1, <3>2 DEF FoundOk
  <2>2. CASE ~ Updates!Open(s)'
    BY <1>9, <2>2 DEF FoundOk, OpenStage, Updates!Ended
  <2> QED
    BY <2>1, <2>2
<1>11. TagLocks'
  <2>1. ASSUME NEW s \in Updaters PROVE LocksOk(tx[s])'
    <3>1. CASE Updates!Open(s)'
      <4>1. Updates!Named(tags' \ tx[s].removed) = {}
        BY <1>1 DEF Updates!Named
      <4> QED
        BY <1>1, <1>8, <3>1, <4>1 DEF LocksOk
    <3>2. CASE ~ Updates!Open(s)'
      BY <1>9, <3>2 DEF LocksOk, OpenStage
    <3> QED
      BY <3>1, <3>2
  <2>2. \A s, q \in Updaters : Updates!Open(s)' /\ Updates!Open(q)' /\ s # q => Apart(tx'[s], tx'[q])
    <3>1. \A s \in Updaters : Updates!Open(s)' => Updates!Open(s) /\ tx'[s] = tx[s]
      BY <1>4
    <3> QED
      BY <1>0, <3>1 DEF TagLocks
  <2> QED
    BY <1>1, <2>1, <2>2 DEF TagLocks, Apart
<1>12. ShownUpdates' /\ GivenTags'
  <2>1. last # Initial => last \in Updaters /\ tx[last].stage = "committed" /\ ~ tx[last].kind.delete
    BY <1>0 DEF ShownUpdates, UpdateTypes
  <2>2. \A s \in outbox : s \in Updaters /\ tx[s].stage = "committed"
    BY <1>0 DEF ShownUpdates, UpdateTypes
  <2> QED
    BY <1>1, <1>4, <2>1, <2>2 DEF ShownUpdates, GivenTags
<1> QED
  BY <1>5, <1>6, <1>7, <1>10, <1>11, <1>12 DEF UpdatesInv, TagsInv

\* A poll nobody has asked anything of.
LEMMA UpdatesBegin ==
  ASSUME Updates!Init
  PROVE  UpdatesInv
<1>1. /\ live = TRUE /\ question = Initial /\ tags \in {T \X {Initial} : T \in InitialTags}
      /\ tx = [r \in Updaters |-> Updates!New] /\ outbox = {} /\ shown = Updates!Content
      /\ began = [r \in Updaters |-> 0] /\ met = [r \in Updaters |-> {}] /\ last = Initial
  BY DEF Updates!Init
<1>2. PICK T \in InitialTags : tags = T \X {Initial}
  BY <1>1
<1>3. /\ Updates!New.stage = "new" /\ Updates!New.lock = "none" /\ Updates!New.found = {}
      /\ Updates!New.removed = {} /\ Updates!New.missing = {} /\ Updates!New.added = {}
      /\ Updates!New \in Transactions
  BY DEF Updates!New, Transactions, UStages, Shows2
<1>4. tags \in SUBSET Rows /\ \A row \in tags : row[2] = Initial
  BY <1>2, UpdatesConstants DEF Rows
<1>5. \A r \in Updaters : /\ tx[r] = Updates!New /\ ~ Updates!Open(r) /\ ~ Begun(r) /\ ~ OpenStage(tx[r])
                          /\ tx[r].stage = "new"
  BY <1>1, <1>3 DEF Updates!Open, Begun, OpenStage
<1>6. UpdatesCore
  <2>1. UpdateTypes
    BY <1>1, <1>3, <1>4 DEF UpdateTypes
  <2>2. TxsInv
    BY <1>3, <1>5 DEF TxsInv, TxOk, TagStages
  <2>3. BegunInv /\ Exclusive
    BY <1>1, <1>5 DEF BegunInv, Exclusive
  <2> QED
    BY <2>1, <2>2, <2>3 DEF UpdatesCore
<1>7. EventInv /\ RowsInv /\ FoundInv
  BY <1>1, <1>4, <1>5 DEF EventInv, EventOk, RowsInv, FoundInv, FoundOk
<1>8. TagLocks
  <2>1. \A a, b \in tags : a[1] = b[1] => a = b
    BY <1>2
  <2> QED
    BY <1>5, <2>1 DEF TagLocks, LocksOk
<1>9. ShownUpdates /\ GivenTags
  BY <1>1 DEF ShownUpdates, GivenTags
<1> QED
  BY <1>6, <1>7, <1>8, <1>9 DEF UpdatesInv, TagsInv

\* A step by which no lock of the poll's row is taken, or the row is there.
LEMMA LocksOfOne ==
  ASSUME UpdatesInv, LockedLives, NEW r \in Updaters, NEW t, tx' = [tx EXCEPT ![r] = t], live' = live,
         t.lock # "none" => live \/ (t.lock = tx[r].lock /\ Updates!Open(r))
  PROVE  LockedLives'
<1>1. tx'[r] = t /\ \A s \in Updaters \ {r} : tx'[s] = tx[s]
  BY DEF UpdatesInv, UpdatesCore, UpdateTypes
<1> QED
  BY <1>1 DEF LockedLives, Updates!Open

\* The poll's row is there while somebody has locked it: a deletion waits for all
\* the others, and they for it.
LEMMA LockedSteps ==
  ASSUME UpdatesInv, LockedLives, [Updates!Next]_Updates!vars
  PROVE  LockedLives'
<1>1. /\ UpdateTypes /\ TxsInv /\ Exclusive /\ \A s \in Updaters : tx[s] \in Transactions
      /\ \A a, b \in Updaters : Updates!Open(a) /\ Updates!Open(b) /\ a # b => Apart(tx[a], tx[b])
  BY DEF UpdatesInv, UpdatesCore, UpdateTypes, TagsInv, TagLocks
<1>2. ASSUME NEW r \in Updaters, Updates!UpdateByIDAndCreator(r) \/ Updates!DeleteByIDAndCreator(r)
      PROVE  LockedLives'
  <2>1. PICK t : /\ tx' = [tx EXCEPT ![r] = t] /\ live' = live
                 /\ t.lock # "none" => live \/ t.lock = tx[r].lock
    BY <1>1, <1>2 DEF Updates!UpdateByIDAndCreator, Updates!DeleteByIDAndCreator, Updates!Step,
                      Updates!Unchanged, Updates!pollVars, Transactions
  <2>2. Updates!Open(r)
    BY <1>2 DEF Updates!UpdateByIDAndCreator, Updates!DeleteByIDAndCreator, Updates!Step,
                Updates!Open, Updates!Ended
  <2> QED
    BY <2>1, <2>2, LocksOfOne
<1>3. ASSUME NEW r \in Updaters, Updates!ReferToPoll(r) PROVE LockedLives'
  <2> DEFINE t == IF live THEN [tx[r] EXCEPT !.lock = "share", !.stage = Updates!AfterTags(r, tx[r].missing)]
                  ELSE [tx[r] EXCEPT !.stage = "aborted"]
  <2>1. tx' = [tx EXCEPT ![r] = t] /\ live' = live
    BY <1>3 DEF Updates!ReferToPoll, Updates!Step, Updates!Unchanged, Updates!pollVars
  <2>2. ~ live => t.lock = tx[r].lock
    BY <1>1 DEF Transactions
  <2>3. Updates!Open(r)
    BY <1>3 DEF Updates!ReferToPoll, Updates!Step, Updates!Open, Updates!Ended
  <2> HIDE DEF t
  <2> QED
    BY <2>1, <2>2, <2>3, LocksOfOne
\* The lock is what it was.
<1>4. ASSUME NEW r \in Updaters,
             \/ Updates!FindTags(r) \/ Updates!RemoveTag(r) \/ Updates!TagsRemoved(r) \/ Updates!InsertTag(r)
             \/ Updates!ReadPoll(r) \/ Updates!ReadTags(r) \/ Updates!Cascade(r) \/ Updates!CommitUpdate(r)
             \/ Updates!Abort(r)
      PROVE  LockedLives'
  <2>1. Updates!Open(r) /\ live' = live
    BY <1>4 DEF Updates!FindTags, Updates!RemoveTag, Updates!TagsRemoved, Updates!InsertTag,
                Updates!ReadPoll, Updates!ReadTags, Updates!Cascade, Updates!CommitUpdate, Updates!Abort,
                Updates!Step, Updates!Unchanged, Updates!pollVars, Updates!Open, Updates!Ended
  <2>2. PICK t : tx' = [tx EXCEPT ![r] = t] /\ t.lock = tx[r].lock
    <3>1. CASE Updates!FindTags(r) \/ Updates!RemoveTag(r) \/ Updates!TagsRemoved(r)
      BY <1>1, <3>1 DEF Updates!FindTags, Updates!RemoveTag, Updates!TagsRemoved, Updates!Step, Transactions
    <3>2. CASE Updates!InsertTag(r)
      <4> DEFINE n == Updates!NextTag(r)
                 missing == tx[r].missing \ {n}
                 there == n \in Updates!Named(tags \ tx[r].removed)
                 t == [tx[r] EXCEPT
                         !.missing = missing,
                         !.added = IF there THEN @ ELSE @ \cup {<<n, r>>},
                         !.stage = IF ~ there /\ tx[r].lock = "none" THEN "refer"
                                   ELSE Updates!AfterTags(r, missing)]
      <4>1. tx' = [tx EXCEPT ![r] = t]
        BY <3>2 DEF Updates!InsertTag, Updates!Step
      <4>2. t.lock = tx[r].lock
        <5> HIDE DEF n, missing, there
        <5> QED
          BY <1>1 DEF Transactions
      <4> HIDE DEF t
      <4> QED
        BY <4>1, <4>2
    <3>3. CASE Updates!ReadPoll(r) \/ Updates!ReadTags(r)
      BY <1>1, <3>3 DEF Updates!ReadPoll, Updates!ReadTags, Updates!Step, Transactions
    <3>4. CASE Updates!Cascade(r) \/ Updates!CommitUpdate(r) \/ Updates!Abort(r)
      BY <1>1, <3>4 DEF Updates!Cascade, Updates!CommitUpdate, Updates!Abort, Updates!Step, Transactions
    <3> QED
      BY <1>4, <3>1, <3>2, <3>3, <3>4
  <2> QED
    BY <2>1, <2>2, LocksOfOne
<1>5. ASSUME NEW r \in Updaters, Updates!CommitDelete(r) PROVE LockedLives'
  <2>1. /\ tx[r].stage = "deleted" /\ tx' = [tx EXCEPT ![r] = [tx[r] EXCEPT !.stage = "committed"]]
    BY <1>5 DEF Updates!CommitDelete, Updates!Step
  <2>2. tx[r].lock = "delete" /\ Updates!Open(r)
    BY <1>1, <2>1 DEF TxsInv, TxOk, Updates!Open, Updates!Ended
  <2>3. \A s \in Updaters \ {r} : Updates!Open(s) => tx[s].lock = "none"
    BY <1>1, <2>2 DEF Exclusive, Apart, Transactions
  <2>4. /\ tx'[r].stage = "committed" /\ \A s \in Updaters \ {r} : tx'[s] = tx[s]
    BY <1>1, <2>1 DEF UpdateTypes, Transactions
  <2> QED
    BY <2>3, <2>4 DEF LockedLives, Updates!Open, Updates!Ended
<1>6. ASSUME NEW r \in Updaters, NEW kind \in Kinds, Updates!Begin(r, kind) PROVE LockedLives'
  <2> DEFINE t == [Updates!New EXCEPT !.kind = kind,
                     !.stage = IF kind.delete THEN "delete" ELSE IF kind.question THEN "update" ELSE "replace"]
  <2>1. tx' = [tx EXCEPT ![r] = t] /\ live' = live
    BY <1>6 DEF Updates!Begin, Updates!pollVars
  <2>2. t.lock = "none"
    BY DEF Updates!New
  <2> HIDE DEF t
  <2> QED
    BY <2>1, <2>2, LocksOfOne
<1>7. ASSUME NEW a \in Updates!Actors, Updates!BreakDeadlock(a) PROVE LockedLives'
  <2>1. live' = live
    BY <1>7 DEF Updates!BreakDeadlock, Updates!pollVars
  <2>2. CASE a = "consumer"
    BY <1>7, <2>1, <2>2 DEF Updates!BreakDeadlock, LockedLives, Updates!Open
  <2>3. CASE a # "consumer"
    <3>1. a \in Updaters /\ tx' = [tx EXCEPT ![a] = [@ EXCEPT !.stage = "victim"]] /\ Updates!Open(a)
      BY <1>7, <2>3, Waiting DEF Updates!BreakDeadlock, Updates!Actors
    <3>2. [tx[a] EXCEPT !.stage = "victim"].lock = tx[a].lock
      BY <1>1, <3>1 DEF Transactions
    <3> QED
      BY <2>1, <3>1, <3>2, LocksOfOne
  <2> QED
    BY <2>2, <2>3
<1>8. ASSUME \/ Updates!HandleVote \/ Updates!IncrementOptionVotes \/ Updates!UpdateTotalVotes
             \/ Updates!CommitVote \/ Updates!Flush \/ UNCHANGED Updates!vars
      PROVE  LockedLives'
  <2>1. UNCHANGED <<tx, live>>
    BY <1>8 DEF Updates!HandleVote, Updates!IncrementOptionVotes, Updates!UpdateTotalVotes,
        Updates!CommitVote, Updates!Consumer, Updates!Flush, Updates!vars, Updates!pollVars
  <2> QED
    BY <2>1 DEF LockedLives, Updates!Open
<1> QED
  BY <1>2, <1>3, <1>4, <1>5, <1>6, <1>7, <1>8 DEF Updates!Next, Updates!Statement

LEMMA UpdatesSteps ==
  ASSUME UpdatesInv, LockedLives, [Updates!Next]_Updates!vars
  PROVE  UpdatesInv'
<1>1. UpdatesCore /\ TagsInv
  BY DEF UpdatesInv
<1>2. ASSUME NEW r \in Updaters, \E t : Local(r, t) PROVE UpdatesInv'
  BY <1>2, LocalKeeps
<1>3. ASSUME NEW r \in Updaters, Updates!Statement(r) PROVE UpdatesInv'
  BY <1>1, <1>2, <1>3, UpdateStep, FindStep, RemoveStep, RemovedStep, InsertStep, ReferStep, ReadPollStep,
     ReadTagsStep, DeletePollStep, CascadeStep, CommitUpdateKeeps, CommitDeleteKeeps DEF Updates!Statement
<1>4. ASSUME NEW r \in Updaters, Updates!Abort(r) PROVE UpdatesInv'
  <2>1. /\ Updates!Open(r) /\ tx' = [tx EXCEPT ![r] = [@ EXCEPT !.stage = "aborted"]]
        /\ UNCHANGED <<live, question, tags, outbox, shown, began, met, last>>
    BY <1>4 DEF Updates!Abort, Updates!Unchanged, Updates!pollVars, Updates!historyVars
  <2> QED
    BY <1>1, <1>2, <2>1, EndStep
<1>5. ASSUME NEW a \in Updates!Actors, Updates!BreakDeadlock(a) PROVE UpdatesInv'
  <2>1. UNCHANGED <<live, question, tags, outbox, shown, began, met, last>>
    BY <1>5 DEF Updates!BreakDeadlock, Updates!pollVars, Updates!historyVars
  <2>2. CASE a = "consumer"
    BY <1>5, <2>1, <2>2, CountingKeeps DEF Updates!BreakDeadlock
  <2>3. CASE a # "consumer"
    <3>1. a \in Updaters /\ tx' = [tx EXCEPT ![a] = [@ EXCEPT !.stage = "victim"]]
      BY <1>5, <2>3 DEF Updates!BreakDeadlock, Updates!Actors
    <3>2. Updates!Open(a) /\ Updates!InDeadlock(a)
      BY <1>5, <2>3, Waiting DEF Updates!BreakDeadlock
    <3> QED
      BY <1>1, <1>2, <2>1, <3>1, <3>2, EndStep
  <2> QED
    BY <2>2, <2>3
<1>6. ASSUME Updates!HandleVote \/ Updates!IncrementOptionVotes \/ Updates!UpdateTotalVotes \/ Updates!CommitVote
      PROVE  UpdatesInv'
  <2>1. UNCHANGED <<live, question, tags, tx, outbox, shown, began, met, last>>
    BY <1>6 DEF Updates!HandleVote, Updates!IncrementOptionVotes, Updates!UpdateTotalVotes, Updates!CommitVote,
        Updates!Consumer, Updates!pollVars, Updates!historyVars
  <2> QED
    BY <2>1, CountingKeeps
<1>7. ASSUME UNCHANGED Updates!vars PROVE UpdatesInv'
  <2>1. UNCHANGED <<live, question, tags, tx, outbox, shown, began, met, last>>
    BY <1>7 DEF Updates!vars, Updates!pollVars, Updates!historyVars
  <2> QED
    BY <2>1, CountingKeeps
<1> QED
  BY <1>3, <1>4, <1>5, <1>6, <1>7, BeginKeeps, FlushKeeps DEF Updates!Next

-----------------------------------------------------------------------------
(* Rings of waiters. *)

Retagging(s) == Begun(s) /\ tx[s].kind.retag
ThreeRetag == \E a, b, c \in Updaters : /\ a # b /\ a # c /\ b # c
                                        /\ Retagging(a) /\ Retagging(b) /\ Retagging(c)
DeletesBeside(r) == tx[r].kind.delete \/ \E s \in met[r] : tx[s].kind.delete

\* Transactions that were aborted to break a deadlock, and the consumer that was.
VictimsInv ==
  /\ \A r \in Updaters : tx[r].stage = "victim" => DeletesBeside(r) \/ ThreeRetag
  /\ consumer = "stopped" => \E r \in Updaters : Begun(r) /\ tx[r].kind.delete

\* Two updates that wait for each other's rows of tags: the one that inserts has
\* removed all there were, and tags are removed and inserted in their order.
LEMMA TwoDoNotWait ==
  ASSUME UpdatesInv, ~ ThreeRetag, NEW a \in Updaters, NEW b \in Updaters, a # b,
         \A p \in {a, b} : /\ Updates!Open(p) /\ ~ tx[p].kind.delete /\ Retagging(p)
                           /\ tx[p].stage \in {"removing", "insert"},
         b \in Updates!Blockers(a), a \in Updates!Blockers(b)
  PROVE  FALSE
<1>1. /\ RowsInv /\ TagLocks /\ UpdateTypes
      /\ \A p \in {a, b} : /\ TxOk(p, tx[p]) /\ FoundOk(p, tx[p]) /\ LocksOk(tx[p]) /\ OpenStage(tx[p])
                           /\ tx[p] \in Transactions
      /\ Apart(tx[a], tx[b]) /\ Apart(tx[b], tx[a])
  <2>1. UpdatesCore /\ TagsInv
    BY DEF UpdatesInv
  <2>2. a \in Updates!Others(b) /\ b \in Updates!Others(a)
    BY DEF Updates!Others
  <2> QED
    BY <2>1, <2>2, TxFacts DEF UpdatesCore, TagsInv
\* A row of somebody else would be a third one's.
<1>2. ASSUME NEW p \in {a, b}, tx[p].stage = "insert" PROVE tags \subseteq tx[p].removed
  <2> SUFFICES ASSUME NEW row \in tags, row \notin tx[p].removed PROVE FALSE
    OBVIOUS
  <2>1. row \notin tx[p].found
    BY <1>1, <1>2 DEF FoundOk
  <2>2. row[2] \in met[p]
    BY <1>1, <1>2, <2>1 DEF FoundOk, Retagging
  <2>3. row[2] \in Updaters /\ row[2] # Initial
    BY <1>1, <2>2, UpdatesConstants DEF UpdateTypes
  <2>4. tx[row[2]].stage = "committed" /\ tx[row[2]].kind.retag
    BY <1>1, <2>3 DEF RowsInv
  <2>5. row[2] # a /\ row[2] # b /\ Retagging(row[2])
    BY <2>4 DEF Updates!Open, Updates!Ended, Retagging, Begun
  <2> QED
    BY <2>3, <2>5 DEF ThreeRetag
<1>3. \A p \in {a, b} : tx[p].removed \subseteq tags
  BY <1>1 DEF LocksOk
<1>4. ASSUME NEW p \in {a, b}, NEW q \in {a, b}, p # q, q \in Updates!Blockers(p), tx[p].stage = "insert"
      PROVE  /\ tx[q].stage = "insert"
             /\ \E row \in tx[q].added : row[1] = Updates!NextTag(p)
  <2>1. Updates!NextTag(p) \in Updates!Named(tx[q].added \cup tx[q].removed)
    BY <1>4 DEF Updates!Blockers
  <2>2. tx[q].removed = {}
    BY <1>1, <1>2, <1>3, <1>4 DEF Apart
  <2>3. \E row \in tx[q].added : row[1] = Updates!NextTag(p)
    BY <2>1, <2>2 DEF Updates!Named
  <2>4. tx[q].stage # "removing"
    BY <1>1, <2>3 DEF TxOk
  <2> QED
    BY <2>3, <2>4
<1>5. CASE tx[a].stage = "insert"
  <2>1. tx[b].stage = "insert"
    BY <1>4, <1>5
  <2>2. PICK inA \in tx[a].added : inA[1] = Updates!NextTag(b)
    BY <1>4, <2>1
  <2>3. PICK inB \in tx[b].added : inB[1] = Updates!NextTag(a)
    BY <1>4, <1>5
  <2>4. /\ Updates!NextTag(a) \in tx[a].missing /\ Updates!NextTag(b) \in tx[b].missing
        /\ tx[a].missing \subseteq Nat /\ tx[b].missing \subseteq Nat
    <3>1. \A p \in {a, b} : tx[p].missing \in SUBSET Tags /\ tx[p].missing # {}
      BY <1>1, <1>5, <2>1 DEF Transactions, TxOk
    <3> QED
      BY <3>1, NextTagIs, UpdatesConstants
  <2>5. inA[1] < Updates!NextTag(a) /\ inB[1] < Updates!NextTag(b)
    BY <1>1, <2>2, <2>3, <2>4 DEF TxOk
  <2> QED
    BY <2>2, <2>3, <2>4, <2>5
<1>6. CASE tx[b].stage = "insert"
  <2>1. tx[a].stage = "insert"
    BY <1>4, <1>6
  <2> QED
    BY <1>5, <2>1
<1>7. CASE tx[a].stage = "removing" /\ tx[b].stage = "removing"
  <2> DEFINE next(p) == Updates!NextRow(p)
  <2>1. /\ Updates!Left(a) # {} /\ next(a) \in tx[b].removed
        /\ Updates!Left(b) # {} /\ next(b) \in tx[a].removed
    BY <1>7 DEF Updates!Blockers
  <2>2. \A p \in {a, b} : /\ next(p) \in (tx[p].found \cap tags) \ tx[p].removed
                          /\ next(p)[1] \in Nat
    <3>1. \A p \in {a, b} : tx[p].found \in SUBSET Rows
      BY <1>1 DEF Transactions
    <3>2. \A p \in {a, b} : next(p) \in Updates!Left(p)
      BY <2>1, <3>1, NextRowIs
    <3> HIDE DEF next
    <3> QED
      BY <3>1, <3>2, UpdatesConstants DEF Updates!Left, Rows
  <2> HIDE DEF next
  <2>3. next(b)[1] <= next(a)[1] /\ next(a)[1] <= next(b)[1]
    BY <1>1, <1>7, <2>1, <2>2 DEF LocksOk
  <2>4. next(a)[1] = next(b)[1]
    BY <2>2, <2>3
  <2>5. next(a) = next(b)
    BY <1>1, <2>2, <2>4 DEF TagLocks
  <2> QED
    BY <2>1, <2>2, <2>5
<1> QED
  BY <1>5, <1>6, <1>7

\* A ring with nobody to spare has a deletion, or three updates of tags.
LEMMA RingsNeed ==
  ASSUME UpdatesInv, NEW a \in Updates!Actors, Updates!InDeadlock(a)
  PROVE  /\ a \in Updaters => DeletesBeside(a) \/ ThreeRetag
         /\ a = "consumer" => \E r \in Updaters : Begun(r) /\ tx[r].kind.delete
<1>1. PICK ring \in SUBSET Updates!Actors :
        a \in ring /\ Updates!Stuck(ring) /\ \A q \in ring : ~ Updates!Stuck(ring \ {q})
  BY DEF Updates!InDeadlock
<1>2. SUFFICES ASSUME \A r \in Updaters : Updates!Open(r) => ~ tx[r].kind.delete,
                      a \in Updaters => ~ ThreeRetag
               PROVE  FALSE
  <2>1. ASSUME NEW r \in Updaters, Updates!Open(r), tx[r].kind.delete
        PROVE  /\ a \in Updaters => DeletesBeside(a)
               /\ \E s \in Updaters : Begun(s) /\ tx[s].kind.delete
    <3>1. Begun(r)
      BY <2>1 DEF Begun, Updates!Open
    <3>2. ASSUME a \in Updaters PROVE DeletesBeside(a)
      <4>1. a # "consumer"
        BY <3>2, UpdatesConstants
      <4>2. Updates!Open(a)
        BY <4>1, Waiting
      <4>3. r = a \/ r \in met[a]
        BY <2>1, <3>2, <4>2 DEF UpdatesInv, UpdatesCore, BegunInv
      <4> QED
        BY <2>1, <4>3 DEF DeletesBeside
    <3> QED
      BY <2>1, <3>1, <3>2
  <2>2. a \in Updaters => a # "consumer"
    BY UpdatesConstants
  <2> QED
    BY <2>1, <2>2
<1>3. \A q \in ring : \E p \in ring \ {q} : q \in Updates!BlockersOf(p)
  BY <1>1 DEF Updates!Stuck
<1>4. ASSUME NEW p \in Updaters, Updates!Blockers(p) # {}
      PROVE  /\ tx[p].stage \in {"update", "removing", "insert"} /\ Updates!Open(p) /\ TxOk(p, tx[p])
             /\ tx[p].kind \in Kinds /\ ~ tx[p].kind.delete
  <2>1. tx[p].stage \in {"update", "removing", "insert", "refer", "delete", "cascade"}
    BY <1>4 DEF Updates!Blockers
  <2>2. Updates!Open(p) /\ TxOk(p, tx[p]) /\ tx[p].kind \in Kinds
    BY <2>1, TxFacts DEF UpdatesInv, Updates!Open, Updates!Ended, Begun
  <2>3. tx[p].stage # "refer"
    <3> SUFFICES ASSUME tx[p].stage = "refer" PROVE FALSE
      OBVIOUS
    <3>1. PICK s \in Updates!Others(p) : tx[s].lock = "delete"
      BY <1>4 DEF Updates!Blockers, Updates!Holders
    <3>2. s \in Updaters /\ Updates!Open(s) /\ TxOk(s, tx[s]) /\ OpenStage(tx[s]) /\ tx[s] \in Transactions
      BY TxFacts DEF UpdatesInv, Updates!Others
    <3>3. tx[s].stage \in {"update", "replace", "removing", "insert", "refer", "read", "readTags",
            "commit", "delete", "cascade", "deleted"}
      BY <3>2 DEF OpenStage, Transactions, UStages
    <3> QED
      BY <1>2, <3>1, <3>2, <3>3 DEF TxOk
  <2> QED
    BY <1>2, <2>1, <2>2, <2>3 DEF TxOk
<1>5. \A p \in Updaters : Updates!Blockers(p) \subseteq Updaters \cup {"consumer"}
  BY DEF Updates!Blockers, Updates!Holders, Updates!Others, Updates!CounterHolds, Updates!OptionsHeld
<1>6. "consumer" \notin ring
  <2> SUFFICES ASSUME "consumer" \in ring PROVE FALSE
    OBVIOUS
  <2>1. PICK p \in ring \ {"consumer"} : "consumer" \in Updates!BlockersOf(p)
    BY <1>3
  <2>2. p \in Updaters /\ "consumer" \in Updates!Blockers(p)
    BY <1>1, <2>1 DEF Updates!Actors, Updates!BlockersOf
  <2>3. tx[p].stage \in {"update", "removing", "insert"}
    BY <1>4, <2>2
  <2>4. consumer = "counted"
    BY <2>2, <2>3, UpdatesConstants DEF Updates!Blockers, Updates!Holders, Updates!Others, Updates!CounterHolds
  <2>5. Updates!BlockersOf("consumer") = {}
    BY <2>4 DEF Updates!BlockersOf, Updates!ConsumerBlockers
  <2> QED
    BY <1>1, <2>5 DEF Updates!Stuck
<1>7. /\ ring \subseteq Updaters
      /\ \A q \in ring : Updates!Blockers(q) \cap ring # {} /\ \E p \in ring \ {q} : q \in Updates!Blockers(p)
  <2>1. \A q \in ring : q \in Updaters /\ q # "consumer"
    BY <1>1, <1>6 DEF Updates!Actors
  <2>2. \A q \in ring : Updates!BlockersOf(q) = Updates!Blockers(q)
    BY <2>1 DEF Updates!BlockersOf
  <2>3. \A q \in ring : Updates!BlockersOf(q) \cap ring # {}
    BY <1>1 DEF Updates!Stuck
  <2> QED
    BY <1>3, <2>1, <2>2, <2>3
<1>8. ASSUME NEW q \in ring
      PROVE  /\ Updates!Open(q) /\ ~ tx[q].kind.delete /\ Retagging(q)
             /\ tx[q].stage \in {"removing", "insert"}
  <2>1. /\ tx[q].stage \in {"update", "removing", "insert"} /\ Updates!Open(q) /\ TxOk(q, tx[q])
        /\ tx[q].kind \in Kinds /\ ~ tx[q].kind.delete
    BY <1>4, <1>7
  <2>2. tx[q].stage # "update"
    <3> SUFFICES ASSUME tx[q].stage = "update" PROVE FALSE
      OBVIOUS
    <3>1. tx[q].lock = "none" /\ tx[q].removed = {} /\ tx[q].added = {}
      BY <2>1 DEF TxOk
    <3>2. PICK p \in ring \ {q} : q \in Updates!Blockers(p)
      BY <1>7
    <3>3. tx[p].stage \in {"update", "removing", "insert"}
      BY <1>4, <1>7, <3>2
    <3>4. q # "consumer"
      BY <1>6
    <3> QED
      BY <3>1, <3>2, <3>3, <3>4 DEF Updates!Blockers, Updates!Holders, Updates!CounterHolds, Updates!Named
  <2> QED
    BY <2>1, <2>2 DEF TxOk, TagStages, Retagging, Begun
<1>9. PICK b \in ring : b \in Updates!Blockers(a)
  BY <1>1, <1>7
<1>10. PICK c \in ring : c \in Updates!Blockers(b)
  BY <1>7
<1>11. \A p \in Updaters : p \notin Updates!Blockers(p)
  BY UpdatesConstants DEF Updates!Blockers, Updates!Holders, Updates!Others, Updates!CounterHolds, Updates!OptionsHeld
<1>12. a \in Updaters /\ b \in Updaters /\ c \in Updaters /\ a # b /\ b # c
  BY <1>1, <1>7, <1>9, <1>10, <1>11
<1>13. ~ ThreeRetag
  BY <1>2, <1>12
<1>14. c = a
  BY <1>1, <1>8, <1>12, <1>13 DEF ThreeRetag
<1> QED
  BY <1>1, <1>8, <1>9, <1>10, <1>12, <1>13, <1>14, TwoDoNotWait

\* Kinds stay, and who was met was met.
LEMMA VictimsKeep ==
  ASSUME UpdatesInv, VictimsInv,
         \A s \in Updaters : Begun(s) => Begun(s)' /\ tx'[s].kind = tx[s].kind,
         \A s \in Updaters : Begun(s) => met[s] \subseteq met'[s],
         \A s \in Updaters : tx'[s].stage = "victim" =>
           Begun(s) /\ (tx[s].stage = "victim" \/ DeletesBeside(s) \/ ThreeRetag),
         consumer' = "stopped" => consumer = "stopped" \/ \E s \in Updaters : Begun(s) /\ tx[s].kind.delete
  PROVE  VictimsInv'
<1>1. ThreeRetag => ThreeRetag'
  BY DEF ThreeRetag, Retagging
<1>2. \A s \in Updaters : \A q \in met[s] : q \in Updaters /\ Begun(q)
  BY DEF UpdatesInv, UpdatesCore, UpdateTypes, BegunInv
<1>3. \A s \in Updaters : Begun(s) /\ DeletesBeside(s) => DeletesBeside(s)'
  BY <1>2 DEF DeletesBeside
<1>4. ASSUME NEW s \in Updaters, tx'[s].stage = "victim" PROVE DeletesBeside(s)' \/ ThreeRetag'
  BY <1>1, <1>3, <1>4 DEF VictimsInv
<1>5. consumer' = "stopped" => \E s \in Updaters : Begun(s)' /\ tx'[s].kind.delete
  BY DEF VictimsInv
<1> QED
  BY <1>4, <1>5 DEF VictimsInv

\* A transaction that goes on or ends.
LEMMA VictimsOfOne ==
  ASSUME UpdatesInv, VictimsInv, NEW r \in Updaters, NEW t, t.kind = tx[r].kind, Updates!Open(r), t.stage # "new",
         tx' = [tx EXCEPT ![r] = t], met' = met,
         t.stage = "victim" => DeletesBeside(r) \/ ThreeRetag,
         consumer' = consumer
  PROVE  VictimsInv'
<1>1. Begun(r) /\ tx'[r] = t /\ \A s \in Updaters \ {r} : tx'[s] = tx[s]
  BY DEF Begun, Updates!Open, UpdatesInv, UpdatesCore, UpdateTypes
<1>2. \A s \in Updaters : Begun(s) => Begun(s)' /\ tx'[s].kind = tx[s].kind
  BY <1>1 DEF Begun
<1>3. \A s \in Updaters : tx'[s].stage = "victim" =>
        Begun(s) /\ (tx[s].stage = "victim" \/ DeletesBeside(s) \/ ThreeRetag)
  BY <1>1 DEF Begun
<1> QED
  BY <1>2, <1>3, VictimsKeep

LEMMA VictimsOfNobody ==
  ASSUME UpdatesInv, VictimsInv, UNCHANGED <<tx, met>>,
         consumer' = "stopped" => consumer = "stopped" \/ \E s \in Updaters : Begun(s) /\ tx[s].kind.delete
  PROVE  VictimsInv'
<1>1. \A s \in Updaters : tx[s].stage = "victim" => Begun(s)
  BY DEF Begun
<1>2. \A s \in Updaters : Begun(s) => Begun(s)'
  BY DEF Begun
<1> QED
  BY <1>1, <1>2, VictimsKeep

LEMMA VictimsSteps ==
  ASSUME UpdatesInv, VictimsInv, [Updates!Next]_Updates!vars
  PROVE  VictimsInv'
<1>1. UpdatesCore /\ TagsInv
  BY DEF UpdatesInv
<1>2. ASSUME NEW r \in Updaters, \E t : Local(r, t), consumer' = consumer PROVE VictimsInv'
  <2>1. PICK t : Local(r, t)
    BY <1>2
  <2>2. /\ t.kind = tx[r].kind /\ Updates!Open(r) /\ t.stage # "new" /\ tx' = [tx EXCEPT ![r] = t] /\ met' = met
        /\ t.stage = "victim" => Updates!InDeadlock(r)
    BY <2>1 DEF Local, Solo
  <2>3. t.stage = "victim" => DeletesBeside(r) \/ ThreeRetag
    BY <2>2, RingsNeed DEF Updates!Actors
  <2> QED
    BY <1>2, <2>2, <2>3, VictimsOfOne
<1>3. ASSUME NEW r \in Updaters, Updates!CommitUpdate(r) \/ Updates!CommitDelete(r) PROVE VictimsInv'
  <2> DEFINE t == [tx[r] EXCEPT !.stage = "committed"]
  <2>1. /\ tx[r].stage \in {"commit", "deleted"} /\ tx' = [tx EXCEPT ![r] = t] /\ met' = met /\ consumer' = consumer
    BY <1>3 DEF Updates!CommitUpdate, Updates!CommitDelete, Updates!Step, Updates!historyVars
  <2>2. Updates!Open(r) /\ tx[r] \in Transactions
    BY <1>1, <2>1, TxFacts DEF Updates!Open, Updates!Ended
  <2>3. t.stage = "committed" /\ t.kind = tx[r].kind
    BY <2>2 DEF Transactions
  <2> HIDE DEF t
  <2> QED
    BY <2>1, <2>2, <2>3, VictimsOfOne
<1>4. ASSUME NEW r \in Updaters, Updates!Statement(r), ~ Updates!CommitUpdate(r), ~ Updates!CommitDelete(r)
      PROVE  VictimsInv'
  <2>1. consumer' = consumer
    BY <1>4 DEF Updates!Statement, Updates!UpdateByIDAndCreator, Updates!FindTags, Updates!RemoveTag,
        Updates!TagsRemoved, Updates!InsertTag, Updates!ReferToPoll, Updates!ReadPoll, Updates!ReadTags,
        Updates!DeleteByIDAndCreator, Updates!Cascade, Updates!Unchanged
  <2> QED
    BY <1>1, <1>2, <1>4, <2>1, UpdateStep, FindStep, RemoveStep, RemovedStep, InsertStep, ReferStep, ReadPollStep,
       ReadTagsStep, DeletePollStep, CascadeStep DEF Updates!Statement
<1>5. ASSUME NEW r \in Updaters, Updates!Abort(r) PROVE VictimsInv'
  <2>1. /\ Updates!Open(r) /\ tx' = [tx EXCEPT ![r] = [@ EXCEPT !.stage = "aborted"]]
        /\ consumer' = consumer
        /\ UNCHANGED <<live, question, tags, outbox, shown, began, met, last>>
    BY <1>5 DEF Updates!Abort, Updates!Unchanged, Updates!pollVars, Updates!historyVars
  <2> QED
    BY <1>1, <1>2, <2>1, EndStep
<1>6. ASSUME NEW a \in Updates!Actors, Updates!BreakDeadlock(a) PROVE VictimsInv'
  <2>1. UNCHANGED <<live, question, tags, outbox, shown, began, met, last>> /\ Updates!InDeadlock(a)
    BY <1>6 DEF Updates!BreakDeadlock, Updates!pollVars, Updates!historyVars
  <2>2. CASE a = "consumer"
    <3>1. tx' = tx /\ \E s \in Updaters : Begun(s) /\ tx[s].kind.delete
      BY <1>6, <2>1, <2>2, RingsNeed DEF Updates!BreakDeadlock
    <3> QED
      BY <2>1, <3>1, VictimsOfNobody
  <2>3. CASE a # "consumer"
    <3>1. a \in Updaters /\ tx' = [tx EXCEPT ![a] = [@ EXCEPT !.stage = "victim"]] /\ consumer' = consumer
      BY <1>6, <2>3 DEF Updates!BreakDeadlock, Updates!Actors
    <3>2. Updates!Open(a)
      BY <2>1, <2>3, Waiting
    <3> QED
      BY <1>1, <1>2, <2>1, <3>1, <3>2, EndStep
  <2> QED
    BY <2>2, <2>3
<1>7. ASSUME Updates!HandleVote \/ Updates!IncrementOptionVotes \/ Updates!UpdateTotalVotes \/ Updates!CommitVote
             \/ Updates!Flush \/ UNCHANGED Updates!vars
      PROVE  VictimsInv'
  <2>1. UNCHANGED <<tx, met>> /\ (consumer' = consumer \/ consumer' # "stopped")
    BY <1>7 DEF Updates!HandleVote, Updates!IncrementOptionVotes, Updates!UpdateTotalVotes, Updates!CommitVote,
        Updates!Consumer, Updates!Flush, Updates!vars, Updates!pollVars, Updates!historyVars
  <2> QED
    BY <2>1, VictimsOfNobody
<1>8. ASSUME NEW r \in Updaters, NEW kind \in Kinds, Updates!Begin(r, kind) PROVE VictimsInv'
  <2> DEFINE t == [Updates!New EXCEPT !.kind = kind,
                     !.stage = IF kind.delete THEN "delete" ELSE IF kind.question THEN "update" ELSE "replace"]
  <2>1. /\ tx[r].stage = "new" /\ tx' = [tx EXCEPT ![r] = t] /\ consumer' = consumer
        /\ met' = [s \in Updaters |-> IF s = r THEN Updates!Others(r)
                                      ELSE IF Updates!Open(s) THEN met[s] \cup {r} ELSE met[s]]
    BY <1>8 DEF Updates!Begin
  <2>2. t.stage \in {"delete", "update", "replace"}
    BY DEF Updates!New
  <2> HIDE DEF t
  <2>3. tx'[r] = t /\ \A s \in Updaters \ {r} : tx'[s] = tx[s]
    BY <1>1, <2>1 DEF UpdatesCore, UpdateTypes
  <2>4. \A s \in Updaters : Begun(s) => s # r /\ Begun(s)' /\ tx'[s].kind = tx[s].kind
    BY <2>1, <2>3 DEF Begun
  <2>5. \A s \in Updaters : Begun(s) => met[s] \subseteq met'[s]
    BY <2>1, <2>4
  <2>6. \A s \in Updaters : tx'[s].stage = "victim" => Begun(s) /\ tx[s].stage = "victim"
    BY <2>2, <2>3 DEF Begun
  <2> QED
    BY <2>1, <2>4, <2>5, <2>6, VictimsKeep
<1> QED
  BY <1>3, <1>4, <1>5, <1>6, <1>7, <1>8 DEF Updates!Next

-----------------------------------------------------------------------------
\* Whatever requests and events there are: what a transaction is at each of its
\* stages, what it may be beside others, and what is left when they are done.
THEOREM UpdatesInvCorrect == Updates!Spec => [](UpdatesInv /\ LockedLives /\ VictimsInv)
<1>1. Updates!Init => UpdatesInv /\ LockedLives /\ VictimsInv
  <2>1. Updates!Init => VictimsInv /\ LockedLives
    BY DEF Updates!Init, VictimsInv, LockedLives, Updates!New
  <2> QED
    BY <2>1, UpdatesBegin
<1>2. UpdatesInv /\ LockedLives /\ VictimsInv /\ [Updates!Next]_Updates!vars
        => (UpdatesInv /\ LockedLives /\ VictimsInv)'
  BY UpdatesSteps, LockedSteps, VictimsSteps
<1> QED
  BY <1>1, <1>2, PTL DEF Updates!Spec

\* An event shows the poll as its commit leaves it, if no transaction was open
\* beside it, or only such as waited for the row like itself (UpdatePoll reads the
\* poll and its tags back before it commits).
THEOREM EventsCorrectOfPoll == Updates!Spec => EventsShowPoll
<1>1. UpdatesInv /\ [Updates!Next]_Updates!vars =>
        [\A r \in Updaters : Updates!EventShowsPoll(r)]_Updates!vars
  <2> SUFFICES ASSUME UpdatesInv, [Updates!Next]_Updates!vars, NEW r \in Updaters,
                      last' = r, last # r, Alone(r)
               PROVE  tx[r].event = Updates!Content'
    BY DEF Updates!EventShowsPoll, Alone
  <2>1. Updates!CommitUpdate(r)
    <3>1. \E s \in Updaters : Updates!CommitUpdate(s)
      BY DEF Updates!Next, Updates!vars, Updates!historyVars, Updates!Begin, Updates!Statement,
          Updates!UpdateByIDAndCreator, Updates!FindTags, Updates!RemoveTag,
          Updates!TagsRemoved, Updates!InsertTag, Updates!ReferToPoll, Updates!ReadPoll, Updates!ReadTags,
          Updates!DeleteByIDAndCreator, Updates!Cascade, Updates!CommitDelete, Updates!Abort, Updates!Unchanged,
          Updates!HandleVote, Updates!IncrementOptionVotes, Updates!UpdateTotalVotes, Updates!CommitVote,
          Updates!Consumer, Updates!BreakDeadlock, Updates!Flush
    <3> QED
      BY <3>1 DEF Updates!CommitUpdate
  <2>2. tx[r].stage = "commit" /\ TxOk(r, tx[r]) /\ EventOk(r, tx[r]) /\ tx[r] \in Transactions
    BY <2>1, TxFacts DEF UpdatesInv, Updates!CommitUpdate, Updates!Step
  <2>3. /\ live /\ tx[r].event.question = (IF tx[r].kind.question THEN r ELSE question)
        /\ tx[r].event.tags = Updates!Named((tags \ tx[r].removed) \cup tx[r].added)
        /\ tx[r].event \in Shows2
    BY <2>2 DEF EventOk, Transactions
  <2>4. /\ question' = (IF tx[r].kind.question THEN r ELSE question)
        /\ tags' = (tags \ tx[r].removed) \cup tx[r].added
    BY <2>1, <2>3 DEF Updates!CommitUpdate, Updates!Sees
  <2> QED
    BY <2>3, <2>4 DEF Updates!Content, Shows2, Updates!Named
<1> QED
  BY <1>1, UpdatesInvCorrect, PTL DEF Updates!Spec, EventsShowPoll, Updates!EventsShowPoll

\* What the feed shows in the end, and whose tags the poll has, are the work of the
\* updates; of one alone, if nothing overlapped it.
THEOREM UpdatesKeptCorrect == Updates!Spec => []UpdatesAreKept
<1>1. UpdatesInv => UpdatesAreKept
  <2> SUFFICES ASSUME UpdatesInv PROVE Updates!LastAloneIsShown /\ Updates!TagsAreOfUpdates
    BY DEF UpdatesAreKept, Updates!UpdatesAreKept
  <2>1. Updates!LastAloneIsShown
    BY DEF UpdatesInv, ShownUpdates, Updates!LastAloneIsShown
  <2>2. Updates!TagsAreOfUpdates
    BY DEF UpdatesInv, TagsInv, RowsInv, GivenTags, Updates!TagsAreOfUpdates, Updates!Named
  <2> QED
    BY <2>1, <2>2
<1> QED
  BY <1>1, UpdatesInvCorrect, PTL

\* Transactions on one poll wait in a ring only if one of them deletes it or three
\* of them set its tags; the consumer of its votes only if one deletes it.
THEOREM DeadlockCorrect == Updates!Spec => []DeadlockNeedsDelete
<1>1. UpdatesInv /\ VictimsInv => DeadlockNeedsDelete
  <2> SUFFICES ASSUME UpdatesInv, VictimsInv PROVE Updates!DeadlockNeedsDelete
    BY DEF DeadlockNeedsDelete
  <2> DEFINE retagging == {s \in Updaters : tx[s].stage # "new" /\ tx[s].kind.retag}
  <2>1. ThreeRetag => Updates!Cardinality(retagging) > 2
    <3> SUFFICES ASSUME NEW a \in retagging, NEW b \in retagging, NEW c \in retagging, a # b, a # c, b # c
                 PROVE  Updates!Cardinality(retagging) > 2
      BY DEF ThreeRetag, Retagging, Begun
    <3>1. IsFiniteSet(retagging) /\ {a, b, c} \subseteq retagging
      BY UpdatesConstants, FS_Subset
    <3> HIDE DEF retagging
    <3>2. Cardinality({a}) = 1 /\ IsFiniteSet({a})
      BY FS_Singleton
    <3>3. Cardinality({a, b}) = 2 /\ IsFiniteSet({a, b})
      <4>1. {a, b} = {a} \cup {b} /\ b \notin {a}
        OBVIOUS
      <4> QED
        BY <3>2, <4>1, FS_AddElement
    <3>4. Cardinality({a, b, c}) = 3
      <4>1. {a, b, c} = {a, b} \cup {c} /\ c \notin {a, b}
        OBVIOUS
      <4> QED
        BY <3>3, <4>1, FS_AddElement
    <3>5. Cardinality({a, b, c}) <= Cardinality(retagging) /\ Cardinality(retagging) \in Nat
      BY <3>1, FS_Subset, FS_CardinalityType
    <3>6. Cardinality(retagging) = Updates!Cardinality(retagging)
      BY DEF Cardinality, Updates!Cardinality
    <3> QED
      BY <3>4, <3>5, <3>6
  <2> HIDE DEF retagging
  <2>2. \A r \in Updaters : tx[r].stage = "victim" =>
          \/ tx[r].kind.delete \/ \E s \in met[r] : tx[s].kind.delete
          \/ Updates!Cardinality(retagging) > 2
    BY <2>1 DEF VictimsInv, DeletesBeside
  <2>3. consumer = "stopped" => \E r \in Updaters : tx[r].kind.delete
    BY DEF VictimsInv
  <2> QED
    BY <2>2, <2>3 DEF Updates!DeadlockNeedsDelete, retagging
<1> QED
  BY <1>1, UpdatesInvCorrect, PTL
=============================================================================
