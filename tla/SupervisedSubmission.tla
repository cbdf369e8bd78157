------------------------ MODULE SupervisedSubmission ------------------------
(***************************************************************************)
(* One application, sent to the employer by supervised browser runs: the   *)
(* API issues one-time approval tokens, the worker drives a visible        *)
(* browser to the Review page and clicks Submit when a token authorises    *)
(* exactly what it sees.                                                   *)
(*                                                                         *)
(* supervised_application_task does all of its database work in one        *)
(* transaction around the whole browser run.  The click is not part of     *)
(* the transaction: a crash or the job timeout undoes the use of the       *)
(* token and leaves the click done.                                        *)
(***************************************************************************)
EXTENDS Naturals

CONSTANTS
  Runs,     \* browser_runs rows of the application
  Tokens,   \* token ids uuid4 may draw
  Pages,    \* fingerprints of Review pages
  Workers,  \* tasks the workers can run at the same time
  Clerks,   \* approval-token requests the API can serve at the same time
  None

VARIABLES
  allow,     \* initial_submission_mode = "allow_submit", of the API and of the worker
  approved,  \* the application has status "approved"
  run,       \* browser_runs: status, final_page_fingerprint, submitted
  token,     \* approval_tokens: browser_run_id, fingerprint, consumed; None if not issued
  clerk,     \* what an approval-token request has checked and not yet inserted
  pc, task,  \* the tasks: where they are, their arguments and their result
  received,  \* how many submissions the employer has accepted
  reviewed,  \* which pages of which runs were reported to the human
  clicks,    \* every Submit click: the run, the page it read, the token it used
  clicked,   \* how often a token has driven a click
  undone     \* how often a rollback forgot that a token had driven a click

database == <<approved, run, token>>
world    == <<received, reviewed, clicks, clicked, undone>>
vars     == <<allow, database, clerk, pc, task, world>>

-----------------------------------------------------------------------------

RunStatus == { "queued", "paused", "stopped_at_review", "submitted", "failed" }

RunRow == [status : RunStatus, page : Pages \cup {None}, submitted : BOOLEAN]

TokenRow == [run : Runs, page : Pages, consumed : BOOLEAN]

Approval == [run : Runs, page : Pages]

ASSUME NoneIsNothing ==
  None \notin Tokens \cup Pages \cup RunRow \cup TokenRow \cup Approval

Row(status, page, submitted) ==
  [status |-> status, page |-> page, submitted |-> submitted]

Task == [run : Runs \cup {None}, token : Tokens \cup {None}, page : Pages \cup {None},
         status : RunStatus \cup {None}, submitted : BOOLEAN]

NoTask == [run |-> None, token |-> None, page |-> None, status |-> None,
           submitted |-> FALSE]

Issued(t) == token[t] # None

\* POST .../browser-runs
StartRun(r) ==
  /\ approved
  /\ run[r] = None
  /\ run' = [run EXCEPT ![r] = Row("queued", None, FALSE)]
  /\ UNCHANGED <<allow, approved, token, clerk, pc, task, world>>

\* The application leaves "approved", or a request that had read an earlier
\* status brings it back: ApplicationLifecycle has both.
ApprovalChanges ==
  /\ approved' = ~approved
  /\ UNCHANGED <<allow, run, token, clerk, pc, task, world>>

-----------------------------------------------------------------------------
(* POST .../approval-token: issue_approval_token                           *)

\* Mutant: neither the status of the run nor its fingerprint is looked at.
AnyRunMayApprove(row) == ~row.submitted

MayApprove(row) ==
  /\ row.status = "stopped_at_review" /\ row.page # None
  /\ ~row.submitted

\* The body repeats the fingerprint the human saw; a stale one is refused.
IssueReads(c, r) ==
  /\ clerk[c] = None
  /\ allow.api /\ approved
  /\ run[r] # None /\ MayApprove(run[r])
  /\ \A t \in Tokens : Issued(t) => token[t].run # r
  /\ clerk' = [clerk EXCEPT ![c] = [run |-> r, page |-> run[r].page]]
  /\ UNCHANGED <<allow, database, pc, task, world>>

\* token_id is the only unique column, so nothing refuses a second token.
IssueCommits(c, t) ==
  /\ clerk[c] # None
  /\ ~Issued(t)
  /\ token' = [token EXCEPT ![t] =
       [run |-> clerk[c].run, page |-> clerk[c].page, consumed |-> FALSE]]
  /\ clerk' = [clerk EXCEPT ![c] = None]
  /\ UNCHANGED <<allow, approved, run, pc, task, world>>

IssueRollsBack(c) ==
  /\ clerk[c] # None
  /\ clerk' = [clerk EXCEPT ![c] = None]
  /\ UNCHANGED <<allow, database, pc, task, world>>

-----------------------------------------------------------------------------
(* supervised_application_task                                             *)

Goto(k, where, what) ==
  /\ pc' = [pc EXCEPT ![k] = where]
  /\ task' = [task EXCEPT ![k] = what]

\* The browser run is over; its result waits to be persisted.
Finish(k, what, status, submitted) ==
  Goto(k, "answer", [what EXCEPT !.status = status, !.submitted = submitted])

\* A task that is called with run r and token t.  Until it reaches Review it
\* touches nothing that others share, so its first step takes it there.
Called(k, r, t) ==
  /\ pc[k] = "idle"
  /\ run[r] # None
  /\ t # None => Issued(t)

Arguments(r, t) == [NoTask EXCEPT !.run = r, !.token = t]

\* A login wall, a CAPTCHA, a missing answer, a sensitive field or rejected
\* input on the way: RunPaused.
Pauses(k, r, t) ==
  /\ Called(k, r, t)
  /\ Finish(k, Arguments(r, t), "paused", FALSE)
  /\ UNCHANGED <<allow, database, clerk, world>>

\* MAX_STEPS pages and no Review.
GivesUp(k, r, t) ==
  /\ Called(k, r, t)
  /\ Finish(k, Arguments(r, t), "failed", FALSE)
  /\ UNCHANGED <<allow, database, clerk, world>>

\* The employer shows its confirmation page to a task that did not click.
FindsConfirmation(k, r, t) ==
  /\ Called(k, r, t)
  /\ received > 0
  /\ Finish(k, Arguments(r, t), "submitted", TRUE)
  /\ UNCHANGED <<allow, database, clerk, world>>

\* The employer shows no Review page for an application it has accepted.
ReachesReview(k, r, t, p) ==
  /\ Called(k, r, t)
  /\ received = 0
  /\ Goto(k, "guard", [Arguments(r, t) EXCEPT !.page = p])
  /\ UNCHANGED <<allow, database, clerk, world>>

\* DbSubmissionGuard.is_submitted
AlreadySubmitted == \E r \in Runs : run[r] # None /\ run[r].submitted

ReadsGuard(k) ==
  /\ pc[k] = "guard"
  /\ IF AlreadySubmitted THEN Finish(k, task[k], "submitted", TRUE)
     ELSE Goto(k, "gate", task[k])
  /\ UNCHANGED <<allow, database, clerk, world>>

\* A CAPTCHA or a login wall on the Review page itself.
PausesOnReview(k) ==
  /\ pc[k] = "gate"
  /\ Finish(k, task[k], "paused", FALSE)
  /\ UNCHANGED <<allow, database, clerk, world>>

MayTrySubmit(what) == allow.worker /\ what.token # None

StopsWithoutToken(k) ==
  /\ pc[k] = "gate"
  /\ ~MayTrySubmit(task[k])
  /\ Finish(k, task[k], "stopped_at_review", FALSE)
  /\ UNCHANGED <<allow, database, clerk, world>>

\* Mutant: the page is left out of the binding.
SignedForRun(what) == token[what.token].run = what.run

\* What the HMAC covers and the six facts leave free: the run and the page.
\* The resume and answer versions are read back from the token's own row.
Signed(what) ==
  /\ token[what.token].run = what.run
  /\ token[what.token].page = what.page

\* The row of an unconsumed token stays locked until its consumer's COMMIT
\* or ROLLBACK.
Locked(t) == \E k \in Workers : pc[k] \in {"click", "clicked"} /\ task[k].token = t

\* Mutant: `consumed IS false` is left out of the WHERE clause.
ConsumesAgain(t) == ~Locked(t)

Consumes(t) == ~Locked(t) /\ ~token[t].consumed

\* verify_and_consume; a task that meets the row lock waits.
IsRefused(k) ==
  LET what == task[k]
  IN  /\ pc[k] = "gate"
      /\ MayTrySubmit(what)
      /\ Signed(what) => ~Locked(what.token) /\ ~Consumes(what.token)
      /\ Finish(k, what, "stopped_at_review", FALSE)
      /\ UNCHANGED <<allow, database, clerk, world>>

IsAuthorised(k) ==
  LET what == task[k]
  IN  /\ pc[k] = "gate"
      /\ MayTrySubmit(what)
      /\ Signed(what) /\ Consumes(what.token)
      /\ Goto(k, "click", what)
      /\ UNCHANGED <<allow, database, clerk, world>>

\* Mutant: a click counts as a submission whatever the page shows.
ClickIsEnough(shown) == [status |-> "submitted", submitted |-> TRUE]

\* The page after the click is the confirmation page, or it is not.
ClickResult(shown) ==
  [status |-> IF shown THEN "submitted" ELSE "failed", submitted |-> shown]

\* _submit_once.  The employer may accept the application and be late to say
\* so, but confirms nothing that it has not accepted.
Clicks(k, accepted, shown) ==
  LET what == task[k] result == ClickResult(shown)
  IN  /\ pc[k] = "click"
      /\ received' = received + (IF accepted THEN 1 ELSE 0)
      /\ shown => received' > 0
      /\ clicks' = clicks \cup {[run |-> what.run, page |-> what.page, token |-> what.token]}
      /\ clicked' = [clicked EXCEPT ![what.token] = @ + 1]
      /\ Goto(k, "clicked", [what EXCEPT !.status = result.status,
                                         !.submitted = result.submitted])
      /\ UNCHANGED <<allow, database, clerk, reviewed, undone>>

\* persist_supervised_run_result and the COMMIT: the row is overwritten
\* whatever it said before, and a used token becomes a consumed one.
Persists(k) ==
  LET what == task[k]
  IN  /\ pc[k] \in {"answer", "clicked"}
      /\ run' = [run EXCEPT ![what.run] = Row(what.status, what.page, what.submitted)]
      /\ token' = IF pc[k] = "clicked"
                  THEN [token EXCEPT ![what.token].consumed = TRUE] ELSE token
      /\ reviewed' = IF what.status = "stopped_at_review"
                     THEN reviewed \cup {<<what.run, what.page>>} ELSE reviewed
      /\ Goto(k, "idle", NoTask)
      /\ UNCHANGED <<allow, approved, clerk, received, clicks, clicked, undone>>

\* A crash, the 600 s job timeout, or an exception of the page or the
\* database: the transaction rolls back.
RollsBack(k) ==
  /\ pc[k] # "idle"
  /\ undone' = IF pc[k] = "clicked" THEN [undone EXCEPT ![task[k].token] = @ + 1]
               ELSE undone
  /\ Goto(k, "idle", NoTask)
  /\ UNCHANGED <<allow, database, clerk, received, reviewed, clicks, clicked>>

-----------------------------------------------------------------------------

Init ==
  /\ allow \in [api : BOOLEAN, worker : BOOLEAN]
  /\ approved = TRUE
  /\ run = [r \in Runs |-> None]
  /\ token = [t \in Tokens |-> None]
  /\ clerk = [c \in Clerks |-> None]
  /\ pc = [k \in Workers |-> "idle"]
  /\ task = [k \in Workers |-> NoTask]
  /\ received = 0
  /\ reviewed = {}
  /\ clicks = {}
  /\ clicked = [t \in Tokens |-> 0]
  /\ undone = [t \in Tokens |-> 0]

Serves(c) ==
  \/ \E r \in Runs : IssueReads(c, r)
  \/ \E t \in Tokens : IssueCommits(c, t)
  \/ IssueRollsBack(c)

Works(k) ==
  \/ \E r \in Runs, t \in Tokens \cup {None} :
       \/ Pauses(k, r, t)
       \/ GivesUp(k, r, t)
       \/ FindsConfirmation(k, r, t)
       \/ \E p \in Pages : ReachesReview(k, r, t, p)
  \/ ReadsGuard(k)
  \/ PausesOnReview(k)
  \/ StopsWithoutToken(k)
  \/ IsRefused(k)
  \/ IsAuthorised(k)
  \/ \E accepted, shown \in BOOLEAN : Clicks(k, accepted, shown)
  \/ Persists(k)
  \/ RollsBack(k)

Next ==
  \/ \E r \in Runs : StartRun(r)
  \/ ApprovalChanges
  \/ \E c \in Clerks : Serves(c)
  \/ \E k \in Workers : Works(k)

Spec == Init /\ [][Next]_vars

-----------------------------------------------------------------------------

TypeOK ==
  /\ allow \in [api : BOOLEAN, worker : BOOLEAN]
  /\ approved \in BOOLEAN
  /\ run \in [Runs -> RunRow \cup {None}]
  /\ token \in [Tokens -> TokenRow \cup {None}]
  /\ clerk \in [Clerks -> Approval \cup {None}]
  /\ pc \in [Workers -> {"idle", "guard", "gate", "click", "clicked",
                         "answer"}]
  /\ task \in [Workers -> Task]
  /\ received \in Nat
  /\ reviewed \subseteq Runs \X (Pages \cup {None})
  /\ clicks \subseteq [run : Runs, page : Pages, token : Tokens]
  /\ clicked \in [Tokens -> Nat]
  /\ undone \in [Tokens -> Nat]

\* Submit is clicked only on a page that an earlier task of the same run had
\* reported to the human and that the human then issued a token for.
ClicksWereReviewed ==
  \A c \in clicks :
    /\ <<c.run, c.page>> \in reviewed
    /\ Issued(c.token) /\ token[c.token].run = c.run /\ token[c.token].page = c.page

\* Neither service can submit alone: the API has to be configured to issue
\* tokens and the worker to use them.
ClicksNeedBothModes == clicks # {} => allow.api /\ allow.worker

\* Unless a rollback forgets a use, a token drives one click, also when
\* several tasks present it at once.
OneClickPerCommit == \A t \in Tokens : clicked[t] <= 1 + undone[t]

\* A consumed token never drives a click again.
ConsumedTokenIsDead ==
  [][\A t \in Tokens :
       Issued(t) /\ token[t].consumed => clicked'[t] = clicked[t]]_vars

\* A run is recorded as submitted only if the employer accepted the application.
SubmittedIsReal == AlreadySubmitted => received > 0

-----------------------------------------------------------------------------
(* What the documents say and the code does not do.                        *)

\* approval.py: "A token authorises exactly one Submit click."
TokenDrivesOneClick == \A t \in Tokens : clicked[t] <= 1

\* ADR 0008: the same application cannot be submitted twice - here even when
\* no rollback has forgotten a click.
SubmittedOnce == (\A t \in Tokens : undone[t] = 0) => received <= 1

=============================================================================
