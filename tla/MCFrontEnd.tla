----------------------------- MODULE MCFrontEnd -----------------------------
(***************************************************************************)
(* Small instances of the front end for TLC: of the session the tabs share *)
(* (BrowserSession) and of the page of a poll (PollPage).  They have no    *)
(* state in common here, so a behaviour is one of either.                  *)
(***************************************************************************)
EXTENDS BrowserSession, TLC

CONSTANTS Options, MaxClicks, Unknown

VARIABLES
  part,                                              \* "session" or "poll page"
  vote, page, loads, votesSent, clicks, recent       \* of the poll page

pageVars == <<vote, page, loads, votesSent, clicks, recent>>

Poll == INSTANCE PollPage WITH None <- Unknown, stored <- vote, sent <- votesSent

\* The part that is not looked at stays at its beginning, one of them.
MCInit ==
  /\ part \in {"session", "poll page"}
  /\ Init /\ (part = "poll page" => stored = 0 /\ account)
  /\ Poll!Init /\ (part = "session" => vote = {})

MCNext ==
  \/ part = "session" /\ Next /\ UNCHANGED <<part, pageVars>>
  \/ part = "poll page" /\ Poll!Next /\ UNCHANGED <<part, vars>>

MCSpec == MCInit /\ [][MCNext]_<<part, vars, pageVars>>

\* What PollPage says of the vote that is shown.
ShownVoteIsRecent == Poll!ShownVoteIsRecent

Symmetry == Permutations(Requests) \union Permutations(Tabs) \union Permutations(Options)
=============================================================================
