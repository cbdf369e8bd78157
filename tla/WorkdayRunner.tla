---------------------------- MODULE WorkdayRunner ----------------------------
(***************************************************************************)
(* One supervised run on its way through the employer's form:              *)
(* SupervisedApplicationRunner.run with the WorkdayAdapter, up to the      *)
(* Review page.  The browser is visible: the human may use it at any       *)
(* time, also while a task does.  A page comes piece by piece, some time   *)
(* after the goto or the click that asked for it; a task reads what is     *)
(* there, waits, and acts on what it has read.                             *)
(*                                                                         *)
(* What happens on Review with a token, and the row of the run, are in     *)
(* SupervisedSubmission; here no task has a token, and the human may       *)
(* submit by hand.                                                         *)
(***************************************************************************)
EXTENDS Naturals

CONSTANTS
  Tasks,      \* calls of supervised_application_task for the run
  Steps,      \* pages of the form that come before Review
  Fields,     \* fields the adapter knows
  StepOf,     \* the page of each field
  Position,   \* its place in the layout of that page
  Sensitive,  \* the legally sensitive fields and the attestations
  Optional,   \* the fields the adapter does not require
  Uploads,    \* the fields of kind "file"
  MaxSteps,   \* MAX_STEPS
  None

ASSUME LayoutIsFixed ==
  /\ StepOf \in [Fields -> Steps]
  /\ Position \in [Fields -> Nat]
  /\ \A f, g \in Fields : StepOf[f] = StepOf[g] /\ Position[f] = Position[g] => f = g
ASSUME FieldKinds ==
  Sensitive \subseteq Fields /\ Optional \subseteq Fields /\ Uploads \subseteq Fields
ASSUME BoundIsPositive == MaxSteps \in Nat \ {0}
ASSUME NoMix ==
  /\ {"review", "confirmation", "unknown", None} \cap Steps = {}
  /\ {"empty", "human", None} \cap Tasks = {}
  /\ None \notin {"review", "confirmation", "unknown"}

VARIABLES
  launched,  \* each task opens a browser of its own; else the operator's is used
  shown,     \* the fields this posting shows
  answer,    \* the approved answer set and the files
  place,     \* the page the browser shows
  visible,   \* the fields that are there now
  wall,      \* it shows a login, CAPTCHA, MFA or identity check
  loading,   \* a goto or a click is not fully answered yet
  entered,   \* who filled a field of the form last
  accepted,  \* the employer has accepted the application
  pc, task   \* the tasks: where they are and what they remember

given == <<launched, shown, answer>>
page  == <<place, visible, wall, loading>>
vars  == <<given, page, entered, accepted, pc, task>>

-----------------------------------------------------------------------------

\* An approved answer is one whose confidence reaches the threshold; of an
\* upload without a path there is an answer and no file.
Answer == {"none", "unsure", "approved", "pathless"}

Places == Steps \cup {"review", "confirmation", "unknown"}

\* The fields a page has in the adapter, and those it asks in this posting.
Layout(where) == {f \in Fields : StepOf[f] = where}

Asked(where) == Layout(where) \cap shown

Reasons == {"wall", "no form", "sensitive", "missing", "unsure", "rejected"}

Result == Reasons \cup {"stopped_at_review", "submitted", "failed"}

\* step: the page it has read; unseen: the fields of its layout still to look
\* for; left: those it has found and not yet dealt with; moves: rounds of the
\* loop; stood: history, the page was all there when its step was read and
\* nobody has turned it since
Task == [step : Places \cup {None}, unseen : SUBSET Fields, left : SUBSET Fields,
         moves : 0..MaxSteps, result : Result \cup {None}, stood : BOOLEAN]

Starting == [step |-> None, unseen |-> {}, left |-> {}, moves |-> 0, result |-> None,
             stood |-> FALSE]

\* at_application_form, current_step and detect_interrupts read the markers
\* of the pages one after the other.  Each is one step here: of a page that
\* is replaced meanwhile they see the old one, the new one, or none.
AtForm == place # "unknown"

Interrupted == wall

Running == {t \in Tasks : pc[t] # "idle"}

Goto(t, where) == pc' = [pc EXCEPT ![t] = where]

\* A goto or a click: what it brings is still to come, and no page stands.
Turns(tasks) ==
  /\ loading' = TRUE
  /\ task' = [u \in Tasks |-> [tasks[u] EXCEPT !.stood = FALSE]]

\* The run is over with this result, which is not yet persisted.
Finish(t, result) ==
  /\ Goto(t, "answer")
  /\ task' = [task EXCEPT ![t] = [Starting EXCEPT !.result = result]]
  /\ UNCHANGED <<given, page, entered, accepted>>

\* A step that only reads.
Goes(t, where) == Goto(t, where) /\ UNCHANGED <<given, page, entered, accepted, task>>

-----------------------------------------------------------------------------
(* The site of the employer                                                *)

\* The confirmation page comes after a submission, and then no other page of
\* this application.
MayShow(where) == (where = "confirmation") = accepted \/ where = "unknown"

\* While it is loading the browser may show another page at any moment; a
\* page comes without its fields, which appear one by one, and may come to be
\* blocked by a wall.
Renders(to) ==
  /\ loading /\ MayShow(to)
  /\ place' = to /\ visible' = {} /\ wall' = FALSE
  /\ UNCHANGED <<given, loading, entered, accepted, pc, task>>

Appears(f) ==
  /\ loading /\ f \in Asked(place)
  /\ visible' = visible \cup {f}
  /\ UNCHANGED <<given, place, wall, loading, entered, accepted, pc, task>>

Blocks ==
  /\ loading
  /\ wall' = TRUE
  /\ UNCHANGED <<given, place, visible, loading, entered, accepted, pc, task>>

Rests ==
  /\ loading /\ visible = Asked(place)
  /\ loading' = FALSE
  /\ UNCHANGED <<given, place, visible, wall, entered, accepted, pc, task>>

-----------------------------------------------------------------------------
(* The human, in the visible browser                                       *)

Open == ~launched \/ \E t \in Tasks : pc[t] \notin {"idle", "closed"}

Uses == Open /\ UNCHANGED <<given, pc>>

HumanTypes(f) ==
  /\ Uses
  /\ f \in visible
  /\ entered' = [entered EXCEPT ![f] = "human"]
  /\ UNCHANGED <<page, accepted, task>>

HumanPassesWall ==
  /\ Uses
  /\ wall /\ wall' = FALSE
  /\ UNCHANGED <<place, visible, loading, entered, accepted, task>>

\* Follows a link, goes back, or clicks Next.
HumanMoves == Uses /\ Turns(task) /\ UNCHANGED <<place, visible, wall, entered, accepted>>

HumanSubmits ==
  /\ Uses
  /\ place = "review"
  /\ Turns(task)
  /\ accepted' = TRUE
  /\ UNCHANGED <<place, visible, wall, entered>>

-----------------------------------------------------------------------------
(* supervised_application_task                                             *)

\* A browser of its own begins and ends without a page.
BlankIfLaunched ==
  IF launched
  THEN place' = "unknown" /\ visible' = {} /\ wall' = FALSE /\ loading' = FALSE
  ELSE UNCHANGED page

\* _validate_binding refuses an answer set with a sensitive category.  Two
\* browsers cannot share a profile, two tasks can share the operator's page.
Begins(t) ==
  /\ pc[t] = "idle"
  /\ \A f \in Sensitive : answer[f] = "none"
  /\ launched => Running = {}
  /\ Goto(t, "opening")
  /\ task' = [task EXCEPT ![t] = Starting]
  /\ BlankIfLaunched
  /\ UNCHANGED <<given, entered, accepted>>

\* _navigate_to_form: goto, unless a form is already there
Opens(t) == pc[t] = "opening" /\ Goes(t, IF AtForm THEN "opened" ELSE "leaving")

Navigates(t) ==
  /\ pc[t] = "leaving"
  /\ place' = "unknown" /\ visible' = {} /\ wall' = FALSE
  /\ Turns(task)
  /\ Goto(t, "opened")
  /\ UNCHANGED <<given, entered, accepted>>

Detects(t) ==
  /\ pc[t] = "opened"
  /\ IF Interrupted THEN Finish(t, "wall") ELSE Goes(t, "arriving")

Arrives(t) ==
  /\ pc[t] = "arriving"
  /\ IF AtForm THEN Goes(t, "looking") ELSE Finish(t, "no form")

\* Mutant: one round too many.
ExhaustedLate(t) == task[t].moves > MaxSteps

Exhausted(t) == task[t].moves = MaxSteps

\* The head of _step_loop: first what interrupts, then the step.
Looks(t) ==
  /\ pc[t] = "looking"
  /\ \/ Exhausted(t) /\ Finish(t, "failed")
     \/ ~Exhausted(t) /\ Interrupted /\ Finish(t, "wall")
     \/ ~Exhausted(t) /\ ~Interrupted /\ Goes(t, "reading")

Reads(t) ==
  /\ pc[t] = "reading"
  /\ \/ place = "confirmation" /\ Finish(t, "submitted")
     \/ place = "review" /\ Goes(t, "reviewing")
     \/ /\ place \in Steps \cup {"unknown"}
        /\ task' = [task EXCEPT ![t].step = place, ![t].unseen = Layout(place),
                                ![t].stood = ~loading]
        /\ Goto(t, "listing")
        /\ UNCHANGED <<given, page, entered, accepted>>

\* _handle_review without a token: the guard may know of a submission, which
\* another task has recorded; then it looks for interrupts once more.
Reviews(t) ==
  /\ pc[t] = "reviewing"
  /\ \/ accepted /\ Finish(t, "submitted")
     \/ Finish(t, IF Interrupted THEN "wall" ELSE "stopped_at_review")

IsNext(f, fields) == f \in fields /\ \A g \in fields : Position[f] <= Position[g]

\* fields_for_step: it lists a field of the layout that is visible now.
Lists(t, f) ==
  /\ pc[t] = "listing" /\ IsNext(f, task[t].unseen)
  /\ task' = [task EXCEPT ![t].unseen = @ \ {f}, ![t].left = @ \cup ({f} \cap visible)]
  /\ UNCHANGED <<given, page, entered, accepted, pc>>

HasListed(t) == pc[t] = "listing" /\ task[t].unseen = {} /\ Goes(t, "filling")

\* Mutant: an optional field without an answer is skipped before anything else.
SkippedFirst(f) ==
  IF f \in Optional /\ answer[f] = "none" THEN "skip"
  ELSE IF f \in Sensitive THEN "sensitive"
  ELSE IF answer[f] = "none" THEN "missing"
  ELSE IF answer[f] = "unsure" THEN "unsure"
  ELSE IF answer[f] = "pathless" THEN "missing"
  ELSE "write"

\* Mutant: the confidence is not looked at.
AnyConfidence(f) ==
  IF f \in Sensitive THEN "sensitive"
  ELSE IF answer[f] = "none" THEN IF f \in Optional THEN "skip" ELSE "missing"
  ELSE IF answer[f] = "pathless" THEN "missing"
  ELSE "write"

\* What _fill_step and _write_field do about a field, in their order.
Treatment(f) ==
  IF f \in Sensitive THEN "sensitive"
  ELSE IF answer[f] = "none" THEN IF f \in Optional THEN "skip" ELSE "missing"
  ELSE IF answer[f] = "unsure" THEN "unsure"
  ELSE IF answer[f] = "pathless" THEN "missing"
  ELSE "write"

PausesAt(t, f) ==
  /\ pc[t] = "filling" /\ IsNext(f, task[t].left)
  /\ Treatment(f) \in Reasons
  /\ Finish(t, Treatment(f))

Skips(t, f) ==
  /\ pc[t] = "filling" /\ IsNext(f, task[t].left)
  /\ Treatment(f) = "skip"
  /\ task' = [task EXCEPT ![t].left = @ \ {f}]
  /\ UNCHANGED <<given, page, entered, accepted, pc>>

\* A field that is no longer visible cannot be written: Playwright raises.
Writes(t, f) ==
  /\ pc[t] = "filling" /\ IsNext(f, task[t].left)
  /\ Treatment(f) = "write"
  /\ f \in visible
  /\ entered' = [entered EXCEPT ![f] = t]
  /\ task' = [task EXCEPT ![t].left = @ \ {f}]
  /\ UNCHANGED <<given, page, accepted, pc>>

\* A click on Next, on whatever page is there now; Review has no such control.
Advances(t) ==
  /\ pc[t] = "filling" /\ task[t].left = {}
  /\ place \in Steps \cup {"unknown"}
  /\ Turns(task)
  /\ Goto(t, "checking")
  /\ UNCHANGED <<given, place, visible, wall, entered, accepted>>

\* Mutant: `while True`.
SameRound(n) == n

NextRound(n) == n + 1

\* _advance_with_validation: the same page still is a rejected input.
Checks(t) ==
  /\ pc[t] = "checking"
  /\ \/ place = task[t].step /\ Finish(t, "rejected")
     \/ /\ place # task[t].step
        /\ task' = [task EXCEPT ![t].step = None, ![t].moves = NextRound(@)]
        /\ Goto(t, "looking")
        /\ UNCHANGED <<given, page, entered, accepted>>

\* Its own browser closes when the run is over, and when the job timeout or
\* an exception of the page ends it.  The employer keeps what was typed.
Closes(t) ==
  /\ pc[t] \notin {"idle", "closed"}
  /\ Goto(t, "closed")
  /\ task' = IF pc[t] = "answer" THEN task ELSE [task EXCEPT ![t] = Starting]
  /\ BlankIfLaunched
  /\ UNCHANGED <<given, entered, accepted>>

\* Then a result is persisted, in the transaction of SupervisedSubmission;
\* without one, or if that fails, the transaction is rolled back.
Ends(t) ==
  /\ pc[t] = "closed"
  /\ Goto(t, "idle")
  /\ task' = [task EXCEPT ![t] = Starting]
  /\ UNCHANGED <<given, page, entered, accepted>>

-----------------------------------------------------------------------------

Init ==
  /\ launched \in BOOLEAN
  /\ shown \in SUBSET Fields
  /\ answer \in [Fields -> Answer]
  /\ \A f \in Fields \ Uploads : answer[f] # "pathless"
  /\ place = "unknown" /\ visible = {} /\ wall = FALSE /\ loading = FALSE
  /\ entered = [f \in Fields |-> "empty"]
  /\ accepted = FALSE
  /\ pc = [t \in Tasks |-> "idle"]
  /\ task = [t \in Tasks |-> Starting]

Human ==
  \/ \E f \in Fields : HumanTypes(f)
  \/ HumanPassesWall
  \/ HumanMoves
  \/ HumanSubmits

Site == (\E to \in Places : Renders(to)) \/ (\E f \in Fields : Appears(f)) \/ Blocks \/ Rests

Works(t) ==
  \/ Opens(t) \/ Navigates(t) \/ Detects(t) \/ Arrives(t)
  \/ Looks(t) \/ Reads(t) \/ Reviews(t)
  \/ \E f \in Fields : Lists(t, f) \/ PausesAt(t, f) \/ Skips(t, f) \/ Writes(t, f)
  \/ HasListed(t)
  \/ Advances(t) \/ Checks(t)
  \/ Closes(t) \/ Ends(t)

TaskSteps == \E t \in Tasks : Begins(t) \/ Works(t)

Next == Human \/ Site \/ TaskSteps

Spec == Init /\ [][Next]_vars

Fairness == \A t \in Tasks : WF_vars(Works(t))

FairSpec == Spec /\ Fairness

\* Nobody but the tasks uses the browser.
UnattendedSpec == Init /\ [][Site \/ TaskSteps]_vars /\ Fairness

-----------------------------------------------------------------------------

TypeOK ==
  /\ launched \in BOOLEAN
  /\ shown \subseteq Fields
  /\ answer \in [Fields -> Answer]
  /\ place \in Places
  /\ visible \subseteq Fields
  /\ wall \in BOOLEAN
  /\ loading \in BOOLEAN
  /\ entered \in [Fields -> {"empty", "human"} \cup Tasks]
  /\ accepted \in BOOLEAN
  /\ pc \in [Tasks -> {"idle", "opening", "leaving", "opened", "arriving", "looking", "reading",
                       "reviewing", "listing", "filling", "checking", "answer", "closed"}]
  /\ task \in [Tasks -> Task]

\* Whatever the human and other tasks do meanwhile, what a task has typed is
\* an approved answer to a question it may answer.
ApprovedValuesOnly ==
  \A f \in Fields : entered[f] \in Tasks => answer[f] = "approved" /\ f \notin Sensitive

\* Nothing on the page waits for the human: it asks nothing sensitive, and
\* what is empty is optional and without an approved answer.
Complete ==
  \A f \in visible :
    f \notin Sensitive /\ (entered[f] # "empty" \/ (f \in Optional /\ answer[f] = "none"))

Clicks(t) == pc[t] = "filling" /\ pc'[t] = "checking"

\* ADR 0008, the runner pauses on any missing answer and on any sensitive
\* question: it clicks Next on complete pages only.  The code breaks it.
PassesAreComplete == [][\A t \in Tasks : Clicks(t) => Complete]_vars

\* What the code does keep of it: Next is clicked on a complete page if that
\* page was all there when the task read which one it is, and nobody turned
\* it until the click.  The human, or other tasks, may have typed into it.
StandingPagesAreComplete ==
  [][\A t \in Tasks : Clicks(t) /\ task[t].stood => Complete]_vars

\* Every task ends, however the employer's pages follow each other.
TasksEnd == \A t \in Tasks : pc[t] # "idle" ~> pc[t] = "idle"

=============================================================================
