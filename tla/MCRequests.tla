----------------------------- MODULE MCRequests -----------------------------
(***************************************************************************)
(* Small instances, for TLC, of what the user service and the poll service *)
(* do with the requests of their users: of the sessions (UserSessions), of *)
(* updates and deletions of one poll beside its consumer (PollUpdates) and *)
(* of the forms that create and edit polls (PollForms).  They have no      *)
(* state in common, so a behaviour is one of one of them.                  *)
(***************************************************************************)
EXTENDS UserSessions

CONSTANTS
  x, y, Tags,                                        \* of all polls
  q1, q2, q3, Updaters, Kinds, InitialTags, Votes, Initial,  \* of one poll
  asked, other, CreateForms, EditForms, First, Questions, MaxTags, Blank, Fields,
  MaxSubmits, MaxFaults                              \* of the forms

VARIABLES
  part,                                              \* one of Parts
  live, question, tags, tx, consumer, votes, outbox, shown, began, met, last,
  polls, stored, forms, calls, answers, faults, log

updateVars == <<live, question, tags, tx, consumer, votes, outbox, shown, began, met, last>>
formVars == <<polls, stored, forms, calls, answers, faults, log>>
mcVars == <<part, vars, updateVars, formVars>>

\* Updates of the question, of the tags and of both, and deletions.
SetQuestion == [delete |-> FALSE, question |-> TRUE, retag |-> FALSE, tags |-> {}, mine |-> TRUE]
SetTags(T) == [SetQuestion EXCEPT !.question = FALSE, !.retag = TRUE, !.tags = T]
MCKinds == {SetQuestion, [SetQuestion EXCEPT !.mine = FALSE], [SetTags({y}) EXCEPT !.question = TRUE],
            SetTags({x, y}), [SetQuestion EXCEPT !.question = FALSE, !.delete = TRUE]}

MCInitialTags == {{}}

\* Authors who fill in everything, who leave out the picture, the tags or the
\* question, and who change nothing.
Full == [question |-> asked, tags |-> {x}, file |-> TRUE, options |-> 2]
MCFields == {Full,
             [Full EXCEPT !.question = other, !.tags = {y}, !.file = FALSE],
             [Full EXCEPT !.question = Blank, !.tags = {}],
             [Full EXCEPT !.question = Blank, !.tags = {}, !.file = FALSE, !.options = 1]}
MCQuestions == {asked, other}

Updates == INSTANCE PollUpdates WITH Requests <- Updaters
Forms == INSTANCE PollForms

ASSUME RequestsAssumption ==
  Updates!UpdatesAssumption /\ Forms!FormsAssumption

Parts == {"sessions", "updates", "forms"}

AUser == CHOOSE u \in Users : TRUE

\* The parts that are not looked at stay at their beginning, one of them.
MCInit ==
  /\ part \in Parts
  /\ Init /\ (part # "sessions" => \A r \in Requests : user[r] = AUser)
  /\ Updates!Init
  /\ Forms!Init /\ polls[First].question = asked /\ polls[First].tags = {x}

\* The requests of a poll are interchangeable: each is named by its turn to
\* begin.  Of somebody who is not the creator, who changes nothing, one is
\* enough: the first.
InTurn ==
  /\ tx[q2].stage # "new" => tx[q1].stage # "new" /\ tx[q2].kind.mine
  /\ tx[q3].stage # "new" => tx[q2].stage # "new" /\ tx[q3].kind.mine

MCNext ==
  \/ part = "sessions" /\ Next /\ UNCHANGED <<part, updateVars, formVars>>
  \/ part = "updates" /\ Updates!Next /\ InTurn' /\ UNCHANGED <<part, vars, formVars>>
  \/ part = "forms" /\ Forms!Next /\ UNCHANGED <<part, vars, updateVars>>

MCSpec == MCInit /\ [][MCNext]_mcVars

\* What the modules say of their parts.
UpdatesAreKept == Updates!UpdatesAreKept
DeadlockNeedsDelete == Updates!DeadlockNeedsDelete
EventsShowPoll == Updates!EventsShowPoll
ImagesAreStored == Forms!ImagesAreStored
OnePollPerForm == Forms!OnePollPerForm
SavedAsShown == Forms!SavedAsShown
SavedTagsAsShown == Forms!SavedTagsAsShown
=============================================================================
