------------------------------ MODULE PollPage ------------------------------
(***************************************************************************)
(* The page of one poll in the browser of a reader who is logged in: what  *)
(* it shows of the reader's vote, and the vote the server has stored.      *)
(*                                                                         *)
(* A click shows the new vote at once and sends it.  It also puts the new  *)
(* counts into the state the pages share, of which mergePoll is made anew; *)
(* the effect that loads the page depends on mergePoll, so that the page   *)
(* is loaded again beside the request.  A click that fails takes back what *)
(* was shown, and so loads the page once more.                             *)
(*                                                                         *)
(* The counts themselves, the author and the statistics are left out.      *)
(***************************************************************************)
EXTENDS Naturals, FiniteSets

CONSTANTS
  Options,    \* the options of the poll
  MaxClicks,  \* how often the reader clicks or opens the page again
  None        \* of the vote: not known

VARIABLES
  stored,   \* the options the reader has voted for, in the vote service
  page,     \* the state of the page
  loads,    \* the loads of the page that are under way
  sent,     \* the vote requests that are under way
  clicks,   \* how many clicks there were
  recent    \* what was stored since the load of the page began (history)

vars == <<stored, page, loads, sent, clicks, recent>>

Vote == SUBSET Options

\* What a load has come to: the poll is asked for, then the vote.
Asked(id) == [id |-> id, stage |-> "poll", got |-> None]

Loading(p, id) == [p EXCEPT !.stage = "loading", !.load = id]

Init ==
  /\ stored \in Vote
  /\ page = [stage |-> "loading", load |-> 0, vote |-> None, busy |-> FALSE]
  /\ loads = {Asked(0)}
  /\ sent = {}
  /\ clicks = 0
  /\ recent = {stored}

-----------------------------------------------------------------------------
\* The effect runs again, with the page p: the load before it is no more the
\* active one.
Reload(p) ==
  LET id == page.load + 1
  IN /\ page' = Loading(p, id)
     /\ loads' = loads \cup {Asked(id)}
     /\ recent' = {stored}

\* setPollLive changes mergePoll, on which the effect depends.
SetPollLive(p) == Reload(p)

\* A click sends a request, with what the page showed before it.
Send(vote) ==
  /\ page.stage = "shown" /\ ~ page.busy /\ clicks < MaxClicks
  /\ clicks' = clicks + 1
  /\ sent' = sent \cup {[vote |-> vote, before |-> page.vote, click |-> clicks + 1,
                         served |-> FALSE, answer |-> None, here |-> TRUE]}
  /\ SetPollLive([page EXCEPT !.vote = vote, !.busy = TRUE])
  /\ UNCHANGED stored

SubmitVote == \E vote \in Vote \ {{}} : Send(vote)

RemoveVote == page.vote \notin {None, {}} /\ Send({})

\* The reader leaves the page and comes back: its requests go on, their answers
\* find a page of their own no more.
OpenAgain ==
  /\ clicks < MaxClicks
  /\ clicks' = clicks + 1
  /\ sent' = {[q EXCEPT !.here = FALSE] : q \in sent}
  /\ Reload([page EXCEPT !.vote = None, !.busy = FALSE])
  /\ UNCHANGED stored

-----------------------------------------------------------------------------
Becomes(set, old, new) == (set \ {old}) \cup {new}

\* What is left of a request the server has ended, if its answer can still come.
Ended(q, answer) ==
  IF q.answer = "taken" THEN sent \ {q}
  ELSE Becomes(sent, q, [q EXCEPT !.served = TRUE, !.answer = IF @ = None THEN answer ELSE @])

\* The vote service stores the vote, or does not.
ServeVote(q) ==
  /\ ~ q.served
  /\ \/ /\ stored' = q.vote
        /\ recent' = recent \cup {q.vote}
        /\ sent' = Ended(q, "saved")
     \/ /\ sent' = Ended(q, "error")
        /\ UNCHANGED <<stored, recent>>
  /\ UNCHANGED <<page, loads, clicks>>

\* The connection breaks, before the server has ended or after it.
Disconnect(q) ==
  /\ q.answer \in {None, "saved"}
  /\ sent' = Becomes(sent, q, [q EXCEPT !.answer = "error"])
  /\ UNCHANGED <<stored, page, loads, clicks, recent>>

\* What is left of a request whose answer came: the server may still be at it.
Answered(q) ==
  IF q.served THEN sent \ {q} ELSE Becomes(sent, q, [q EXCEPT !.answer = "taken"])

\* The vote is saved; the page stays as it is.
Saved(q) ==
  /\ q.answer = "saved"
  /\ sent' = Answered(q)
  /\ page' = IF q.here THEN [page EXCEPT !.busy = FALSE] ELSE page
  /\ UNCHANGED <<stored, loads, clicks, recent>>

\* revertVoteOptimistic: the vote and the shared state are put back.
RevertVote(q) ==
  /\ q.answer = "error"
  /\ sent' = Answered(q)
  /\ SetPollLive(IF q.here THEN [page EXCEPT !.vote = q.before, !.busy = FALSE] ELSE page)
  /\ UNCHANGED <<stored, clicks>>

-----------------------------------------------------------------------------
\* The poll is answered, or cannot be read.
ServePoll(l) ==
  /\ l.stage = "poll"
  /\ \E stage \in {"vote", "failed"} : loads' = Becomes(loads, l, [l EXCEPT !.stage = stage])
  /\ UNCHANGED <<stored, page, sent, clicks, recent>>

\* So is the vote; a page without it is shown all the same.
ServeUserVote(l) ==
  /\ l.stage = "vote"
  /\ \E got \in {stored, None} :
       loads' = Becomes(loads, l, [l EXCEPT !.stage = "loaded", !.got = got])
  /\ UNCHANGED <<stored, page, sent, clicks, recent>>

\* Mutant of Active: the effect has no cleanup.
AnyActive(l) == TRUE

Active(l) == l.id = page.load

\* The answers reach the page, if it still waits for them.
Show(l) ==
  /\ l.stage \in {"loaded", "failed"}
  /\ loads' = loads \ {l}
  /\ page' = IF ~ Active(l) THEN page
             ELSE IF l.stage = "loaded" THEN [page EXCEPT !.stage = "shown", !.vote = l.got]
             ELSE [page EXCEPT !.stage = "error"]
  /\ UNCHANGED <<stored, sent, clicks, recent>>

Next ==
  \/ SubmitVote
  \/ RemoveVote
  \/ OpenAgain
  \/ \E q \in sent : ServeVote(q) \/ Disconnect(q) \/ Saved(q) \/ RevertVote(q)
  \/ \E l \in loads : ServePoll(l) \/ ServeUserVote(l) \/ Show(l)

Spec == Init /\ [][Next]_vars

-----------------------------------------------------------------------------
Request == [vote : Vote, before : {None} \cup Vote, click : 1 .. MaxClicks, served : BOOLEAN,
            answer : {None, "saved", "error", "taken"}, here : BOOLEAN]
Load == [id : Nat, stage : {"poll", "vote", "loaded", "failed"}, got : {None} \cup Vote]

\* Each variable holds a value of its kind.
TypeOK ==
  /\ stored \in Vote
  /\ page \in [stage : {"loading", "shown", "error"}, load : Nat,
               vote : {None} \cup Vote, busy : BOOLEAN]
  /\ loads \subseteq Load
  /\ sent \subseteq Request
  /\ clicks \in 0 .. MaxClicks
  /\ recent \subseteq Vote

\* The vote a page shows was stored at some time since the load of the page
\* began: of the answers that were under way none from before the last click,
\* or before its failure, gets onto the page.  (It need not be what is stored
\* now: the load runs beside the request, and nothing loads the page again when
\* that is saved.)
ShownVoteIsRecent == page.stage = "shown" => page.vote \in {None} \cup recent
=============================================================================
