------------------------------ MODULE PollForms -----------------------------
(***************************************************************************)
(* The forms an author creates and edits polls with, from the page to the  *)
(* rows: the upload of a picture to the object store by a URL the poll     *)
(* service signs, the request that creates, updates or deletes the poll,   *)
(* answers that do not arrive, and the author who tries again.             *)
(*                                                                         *)
(* Every form is its author's (others are sent away when it loads).  A     *)
(* page that is left carries on with a submit it began, so leaving is not  *)
(* submitting again.                                                       *)
(***************************************************************************)
EXTENDS Naturals, Sequences, FiniteSets

CONSTANTS
  CreateForms, EditForms,  \* the pages that are opened
  First,                   \* a poll that is there from the start
  Questions, Tags,
  MaxTags,                 \* tags a form lets its author choose
  Blank,                   \* a question of spaces only: required accepts it
  Fields,                  \* what authors fill in, members of Field
  MaxSubmits,              \* submits of a form (bound)
  MaxFaults,               \* faults (bound)
  None

Forms == CreateForms \cup EditForms

TagSets == {T \in SUBSET Tags : Cardinality(T) <= MaxTags}

\* What an author fills in: whether there is a file, and how many texts of the
\* options the service tells apart: the page counts those that differ in case.
Field == [question : Questions \cup {Blank}, tags : TagSets, file : BOOLEAN, options : {1, 2}]

\* What the constants are (assumed where they get their values).
FormsAssumption ==
  /\ CreateForms \cap EditForms = {}
  /\ First \notin Forms \X Nat /\ None \notin {First} \cup Forms \X Nat
  /\ Fields \subseteq Field
  /\ IsFiniteSet(Tags) /\ MaxTags \in Nat
  /\ Blank \notin Questions
  /\ MaxSubmits \in Nat /\ MaxFaults \in Nat

VARIABLES
  polls,   \* [PollIds -> the poll, None when it is not there]
  stored,  \* the pictures in the object store
  forms,   \* [Forms -> the page]
  calls,   \* the requests on their way to the poll service
  answers, \* those on their way back
  faults,  \* the faults so far
  log      \* [PollIds -> the submits its content comes from, in order] (history)

vars == <<polls, stored, forms, calls, answers, faults, log>>

\* A submit is named by its form and its number; so are the poll that it
\* creates and the object its picture is stored as.
Submits == Forms \X (1..MaxSubmits)
PollIds == {First} \cup Submits
Poll == [question : Questions, tags : SUBSET Tags, image : Submits \cup {None, First}]

\* The page: the number of its last submit, its fields and the key of the
\* picture it uploaded while they matter, and the poll it edits or created.
NewForm == [stage |-> "loading", n |-> 0, fields |-> None, key |-> None, poll |-> None,
            deleting |-> FALSE, left |-> FALSE]

\* A request is the form as it was sent; edits and creations differ by form.
Call(f, page, what) == [what |-> what, of |-> <<f, page.n>>, poll |-> page.poll,
                        fields |-> IF what = "save" THEN page.fields ELSE None, key |-> page.key]

Init ==
  /\ polls \in {[p \in PollIds |-> IF p = First THEN [question |-> q, tags |-> T, image |-> First] ELSE None] :
                  q \in Questions, T \in TagSets}
  /\ stored = {First}
  /\ forms = [f \in Forms |-> IF f \in CreateForms THEN [NewForm EXCEPT !.stage = "filling"] ELSE NewForm]
  /\ calls = {}
  /\ answers = {}
  /\ faults = 0
  /\ log = [p \in PollIds |-> <<>>]

-----------------------------------------------------------------------------
\* The page that edits has loaded its poll.
Load(f) ==
  /\ f \in EditForms /\ forms[f].stage = "loading"
  /\ \E p \in PollIds :
       /\ polls[p] # None
       /\ forms' = [forms EXCEPT ![f].stage = "filling", ![f].poll = p]
  /\ UNCHANGED <<polls, stored, calls, answers, faults, log>>

\* A page from which a request goes out.
Send(f, page, what) ==
  /\ forms' = [forms EXCEPT ![f] = page]
  /\ calls' = calls \cup {Call(f, page, what)}

\* Mutant of the submit button: nothing disables it while the form is busy.
CanSubmitTwice(f) == forms[f].stage \in {"filling", "presign", "upload", "save"} /\ ~ forms[f].left
CanSubmit(f) == forms[f].stage = "filling" /\ ~ forms[f].left

\* handleSubmit: the picture first, if a file was chosen, else the request.
Submit(f) ==
  /\ CanSubmit(f) /\ forms[f].n < MaxSubmits
  /\ \E fields \in Fields :
       LET page == [forms[f] EXCEPT !.n = @ + 1, !.fields = fields, !.key = None] IN
         IF fields.file THEN forms' = [forms EXCEPT ![f] = [page EXCEPT !.stage = "presign"]] /\ UNCHANGED calls
         ELSE Send(f, [page EXCEPT !.stage = "save"], "save")
  /\ UNCHANGED <<polls, stored, answers, faults, log>>

\* The toast of an error; the form can be submitted again.
Refilled(page) == [page EXCEPT !.stage = "filling", !.fields = None, !.key = None]
Toasted(f) == forms' = [forms EXCEPT ![f] = Refilled(@)]

\* buildObjectKey: a key nobody had before.
NewKey(f) == <<f, forms[f].n>>

\* CreatePollImageUploadURL: an address for that key, unless the service
\* refuses the file (no image, too large) or fails.
Presign(f) ==
  /\ forms[f].stage = "presign"
  /\ \/ forms' = [forms EXCEPT ![f].stage = "upload", ![f].key = NewKey(f)]
     \/ Toasted(f)
  /\ UNCHANGED <<polls, stored, calls, answers, faults, log>>

\* The proxy puts the file under the key, at the signed address or, when that
\* one refuses it, at localhost.
Stores(f) == stored' = stored \cup {forms[f].key}

\* Mutant of uploadImage: the status of the upload is not looked at.
UploadUnchecked(f) ==
  /\ forms[f].stage = "upload"
  /\ Stores(f) \/ UNCHANGED stored
  /\ Send(f, [forms[f] EXCEPT !.stage = "save"], "save")
  /\ UNCHANGED <<polls, answers, faults, log>>

\* uploadImage: only an answer of success lets the request go out; the file may
\* be stored though the answer is another.
Upload(f) ==
  /\ forms[f].stage = "upload"
  /\ \/ Stores(f) /\ Send(f, [forms[f] EXCEPT !.stage = "save"], "save")
     \/ (Stores(f) \/ UNCHANGED stored) /\ Toasted(f) /\ UNCHANGED calls
  /\ UNCHANGED <<polls, answers, faults, log>>

\* The button that deletes is disabled while the form is busy, the one that
\* saves is not disabled while it deletes.
Delete(f) ==
  /\ f \in EditForms /\ CanSubmit(f) /\ ~ forms[f].deleting
  /\ Send(f, [forms[f] EXCEPT !.deleting = TRUE], "delete")
  /\ UNCHANGED <<polls, stored, answers, faults, log>>

-----------------------------------------------------------------------------
\* The page still waits for the answer to a call.
Waits(c) ==
  LET page == forms[c.of[1]] IN
    IF c.what = "delete" THEN page.deleting ELSE page.stage = "save" /\ page.n = c.of[2]

Answer(c, ok) ==
  /\ calls' = calls \ {c}
  /\ answers' = IF Waits(c) THEN answers \cup {[what |-> c.what, of |-> c.of, ok |-> ok]} ELSE answers

Fault == faults < MaxFaults /\ faults' = faults + 1

\* The transaction committed: the answer says so, unless the poll cannot be
\* read for it afterwards.
Committed(c) ==
  \/ Answer(c, TRUE) /\ UNCHANGED faults
  \/ Answer(c, FALSE) /\ Fault

\* An argument the service does not take.  Over gRPC a question without a
\* letter, a list without a tag and a missing picture are not provided.
Invalid(c) ==
  IF c.of[1] \in CreateForms THEN c.fields.question = Blank \/ c.fields.options < 2
  ELSE c.fields.question = Blank /\ c.fields.tags = {} /\ c.key = None

\* Mutant of ReplaceTags: the tags the poll had are kept.
UpdatedKeepingTags(poll, c) ==
  [poll EXCEPT !.question = IF c.fields.question = Blank THEN @ ELSE c.fields.question,
               !.tags = @ \cup c.fields.tags,
               !.image = IF c.key = None THEN @ ELSE c.key]

\* The patch of an update: what is not provided stays.
Updated(poll, c) ==
  [poll EXCEPT !.question = IF c.fields.question = Blank THEN @ ELSE c.fields.question,
               !.tags = IF c.fields.tags = {} THEN @ ELSE c.fields.tags,
               !.image = IF c.key = None THEN @ ELSE c.key]

CreatePoll(c) ==
  /\ c.what = "save" /\ c.of[1] \in CreateForms /\ ~ Invalid(c)
  /\ polls' = [polls EXCEPT ![c.of] = [question |-> c.fields.question, tags |-> c.fields.tags, image |-> c.key]]
  /\ log' = [log EXCEPT ![c.of] = <<c.of>>]
  /\ Committed(c)
  /\ UNCHANGED <<stored, forms>>

UpdatePoll(c) ==
  /\ c.what = "save" /\ c.of[1] \in EditForms /\ ~ Invalid(c) /\ polls[c.poll] # None
  /\ polls' = [polls EXCEPT ![c.poll] = Updated(@, c)]
  /\ log' = [log EXCEPT ![c.poll] = Append(@, c.of)]
  /\ Committed(c)
  /\ UNCHANGED <<stored, forms>>

DeletePoll(c) ==
  /\ c.what = "delete" /\ polls[c.poll] # None
  /\ polls' = [polls EXCEPT ![c.poll] = None]
  /\ Committed(c)
  /\ UNCHANGED <<stored, forms, log>>

\* A call that is refused, or whose transaction is rolled back.
Refuse(c) ==
  /\ \/ (c.what = "save" /\ Invalid(c)) /\ UNCHANGED faults
     \/ (c.poll # None /\ polls[c.poll] = None) /\ UNCHANGED faults
     \/ Fault
  /\ Answer(c, FALSE)
  /\ UNCHANGED <<polls, stored, forms, log>>

Handle(c) == CreatePoll(c) \/ UpdatePoll(c) \/ DeletePoll(c) \/ Refuse(c)

-----------------------------------------------------------------------------
\* What the page becomes when it hears of a save, or of a deletion, which takes
\* it to another page even if a submit is under way.
Heard(page, a) ==
  IF a.what = "save"
  THEN IF a.ok THEN [page EXCEPT !.stage = "saved", !.poll = IF @ = None THEN a.of ELSE @]
       ELSE Refilled(page)
  ELSE [page EXCEPT !.deleting = FALSE, !.left = @ \/ a.ok]

Receive(a) ==
  /\ forms' = [forms EXCEPT ![a.of[1]] = Heard(@, a)]
  /\ answers' = answers \ {a}
  /\ UNCHANGED <<polls, stored, calls, faults, log>>

\* The connection breaks while the page waits: it takes that for a failure,
\* and whatever becomes of the call, its answer is not heard.
Lose(f, what) ==
  /\ IF what = "save" THEN forms[f].stage = "save" ELSE forms[f].deleting
  /\ Fault
  /\ forms' = [forms EXCEPT ![f] = Heard(@, [what |-> what, of |-> <<f, @.n>>, ok |-> FALSE])]
  /\ answers' = {a \in answers : ~ (a.of[1] = f /\ a.what = what)}
  /\ UNCHANGED <<polls, stored, calls, log>>

Next ==
  \/ \E f \in Forms : Load(f) \/ Submit(f) \/ Presign(f) \/ Upload(f) \/ Delete(f)
  \/ \E c \in calls : Handle(c)
  \/ \E a \in answers : Receive(a)
  \/ \E f \in Forms, what \in {"save", "delete"} : Lose(f, what)

Spec == Init /\ [][Next]_vars

-----------------------------------------------------------------------------
TypeOK ==
  /\ polls \in [PollIds -> Poll \cup {None}]
  /\ stored \subseteq Submits \cup {First}
  /\ \A f \in Forms : forms[f].n \in 0..MaxSubmits /\ forms[f].poll \in PollIds \cup {None}
  /\ faults \in 0..MaxFaults

\* The picture of every poll is in the object store: uploads are made before
\* the request that names them, and a failed one is never named.
ImagesAreStored == \A p \in PollIds : polls[p] # None /\ polls[p].image # None => polls[p].image \in stored

\* However often its author presses the button, a form creates one poll, and
\* one more for each fault, which may have kept the news of the last one.
OnePollPerForm ==
  \A f \in CreateForms : Cardinality({n \in 1..MaxSubmits : log[<<f, n>>] # <<>>}) <= 1 + faults

\* The author of a saved form: its submit took effect, and as long as no other
\* submit changed the poll since, the poll has the picture that was uploaded,
\* the question unless it was blank, and the tags unless all were removed.
SavedAsShown ==
  \A f \in Forms : forms[f].stage = "saved" =>
    LET page == forms[f]
        past == log[page.poll] IN
      /\ \E i \in DOMAIN past : past[i] = <<f, page.n>>
      /\ past[Len(past)] = <<f, page.n>> /\ polls[page.poll] # None =>
           /\ page.fields.question # Blank => polls[page.poll].question = page.fields.question
           /\ page.fields.tags # {} => polls[page.poll].tags = page.fields.tags
           /\ page.key # None => polls[page.poll].image = page.key

\* What the editing page says ("Change the question, the tags or the picture",
\* then "The poll is updated"), of the tags: they are the ones it shows.
SavedTagsAsShown ==
  \A f \in EditForms : forms[f].stage = "saved" =>
    LET page == forms[f]
        past == log[page.poll] IN
      past[Len(past)] = <<f, page.n>> /\ polls[page.poll] # None => polls[page.poll].tags = page.fields.tags
=============================================================================
