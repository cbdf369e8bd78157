----------------------------- MODULE AssistedRun -----------------------------
(***************************************************************************)
(* The assisted runs of one approved application in the mock ATS sandbox:  *)
(* a persisted plan and cursor that a human advances, pauses and resumes,  *)
(* and the receipt of the mock submission.                                 *)
(*                                                                         *)
(* As everywhere in the API a request is one READ COMMITTED transaction    *)
(* without row locks.  SQLAlchemy writes only the columns whose value      *)
(* differs from the one the request loaded, so two overlapping requests    *)
(* may each write a part of the row.                                       *)
(***************************************************************************)
EXTENDS Integers, Sequences

CONSTANTS
  Runs,        \* browser_runs rows of the application
  Handlers,    \* the requests the API can serve at the same time
  PlanLength,  \* planned steps of a run; the last one stops before submit
  MaxSteps,    \* what BrowserRunAdvanceRequest.steps allows
  None

ASSUME PlanAssumption == PlanLength \in Nat \ {0} /\ MaxSteps \in Nat \ {0}

VARIABLES
  approved,    \* the application has status "approved"
  run,         \* browser_runs: status, cursor, stopped_before_submit; or None
  steps,       \* browser_run_steps of each run, in commit order
  receipts,    \* mock_ats_submissions with the key of this packet: their runs
  recorded,    \* runs with a mock_ats_submission_recorded event
  pc,          \* where each request is
  subject,     \* the run a request is about
  seen,        \* what the request has read so far
  overlapped   \* runs that two requests have worked on at the same time

database == <<approved, run, steps, receipts, recorded>>
vars     == <<database, pc, subject, seen, overlapped>>

-----------------------------------------------------------------------------
(* assisted/runner.py                                                      *)

RunStatus == {"queued", "running", "paused", "stopped_before_submit"}

RunRow == [status : RunStatus, cursor : 0..PlanLength, stopped : BOOLEAN]

ASSUME NoneIsNothing == None \notin Runs \cup RunRow

StepRow == [sequence : Nat, index : 0..(PlanLength - 1)]

\* Mutant: a run counts as finished one step early.
FinishedEarly(cursor) ==
  IF cursor >= PlanLength - 1 THEN "stopped_before_submit" ELSE "running"

NextStatus(cursor) ==
  IF cursor >= PlanLength THEN "stopped_before_submit" ELSE "running"

MayAdvance(s) == s \in {"queued", "running"}

MayPause(s) == s \in {"queued", "running"}

MayResume(s) == s = "paused"

-----------------------------------------------------------------------------
(* Requests                                                                *)

\* The loaded row, where an advance is to get to, the first free sequence,
\* and whether the commit also stops the application or inserts the receipt.
Seen == [row : RunRow \cup {None}, goal : 0..PlanLength, sequence : Nat, also : BOOLEAN]

Loaded(row, goal) == [row |-> row, goal |-> goal, sequence |-> 0, also |-> FALSE]

NothingSeen == Loaded(None, 0)

Continue(h, where, read) ==
  /\ pc' = [pc EXCEPT ![h] = where]
  /\ seen' = [seen EXCEPT ![h] = read]
  /\ UNCHANGED <<subject, overlapped>>

Reply(h) ==
  /\ pc' = [pc EXCEPT ![h] = "idle"]
  /\ seen' = [seen EXCEPT ![h] = NothingSeen]
  /\ subject' = [subject EXCEPT ![h] = None]
  /\ UNCHANGED overlapped

\* A request about run r is accepted; one that a check refuses leaves no trace.
Begin(h, r, where, read) ==
  /\ pc[h] = "idle"
  /\ pc' = [pc EXCEPT ![h] = where]
  /\ seen' = [seen EXCEPT ![h] = read]
  /\ subject' = [subject EXCEPT ![h] = r]
  /\ overlapped' = IF \E g \in Handlers : subject[g] = r THEN overlapped \cup {r}
                   ELSE overlapped
  /\ UNCHANGED database

\* Mutant: the cursor is not saved.
CursorForgotten(row, loaded, new) ==
  [field \in DOMAIN row |-> IF field = "cursor" THEN row[field] ELSE new[field]]

\* A commit: only what differs from the loaded value is written.
Updated(row, loaded, new) ==
  [field \in DOMAIN row |-> IF new[field] = loaded[field] THEN row[field] ELSE new[field]]

Write(r, h, new) == run' = [run EXCEPT ![r] = Updated(@, seen[h].row, new)]

-----------------------------------------------------------------------------
(* POST .../browser-runs                                                   *)

StartReads(h, r) ==
  /\ run[r] = None
  /\ approved
  /\ \A g \in Handlers : subject[g] # r
  /\ Begin(h, r, "start", NothingSeen)

StartCommits(h) ==
  /\ pc[h] = "start"
  /\ run' = [run EXCEPT ![subject[h]] =
       [status |-> "queued", cursor |-> 0, stopped |-> FALSE]]
  /\ Reply(h)
  /\ UNCHANGED <<approved, steps, receipts, recorded>>

-----------------------------------------------------------------------------
(* POST .../advance                                                        *)

\* Mutant: the end of the plan is not looked at.
GoalBeyondPlan(cursor, requested) == cursor + requested

\* Where `executed < requested and cursor < len(plan)` ends.
Goal(cursor, requested) ==
  IF cursor + requested < PlanLength THEN cursor + requested ELSE PlanLength

\* (max or -1) + 1: a maximum of 0 is taken for "no rows".
NextSequence(rows) ==
  LET top == CHOOSE m \in {rows[i].sequence : i \in DOMAIN rows} :
               \A i \in DOMAIN rows : rows[i].sequence <= m
  IN  IF rows = <<>> \/ top = 0 THEN 0 ELSE top + 1

\* Mutant: the first step is skipped.
ExecutedLate(from, goal, sequence) ==
  [i \in 1..(goal - from - 1) |-> [sequence |-> sequence + i - 1, index |-> from + i]]

\* The rows of the planned steps from, ..., goal - 1.
Executed(from, goal, sequence) ==
  [i \in 1..(goal - from) |-> [sequence |-> sequence + i - 1, index |-> from + i - 1]]

AdvanceReads(h, r, requested) ==
  /\ run[r] # None
  /\ MayAdvance(run[r].status)
  /\ Begin(h, r, "advance", Loaded(run[r], Goal(run[r].cursor, requested)))

AdvanceReadsSteps(h) ==
  /\ pc[h] = "advance"
  /\ Continue(h, IF NextStatus(seen[h].goal) = "running" THEN "advanced" ELSE "stop",
              [seen[h] EXCEPT !.sequence = NextSequence(steps[subject[h]])])
  /\ UNCHANGED database

\* _stop_application_before_submit
AdvanceReadsApplication(h) ==
  /\ pc[h] = "stop"
  /\ Continue(h, "advanced", [seen[h] EXCEPT !.also = approved])
  /\ UNCHANGED database

AdvanceCommits(h) ==
  LET r == subject[h] loaded == seen[h].row goal == seen[h].goal
  IN  /\ pc[h] = "advanced"
      /\ steps' = [steps EXCEPT ![r] = @ \o Executed(loaded.cursor, goal, seen[h].sequence)]
      /\ Write(r, h, [status |-> NextStatus(goal), cursor |-> goal,
                      stopped |-> loaded.stopped \/ NextStatus(goal) # "running"])
      /\ approved' = (approved /\ ~seen[h].also)
      /\ Reply(h)
      /\ UNCHANGED <<receipts, recorded>>

-----------------------------------------------------------------------------
(* POST .../pause and POST .../resume                                      *)

PauseReads(h, r) ==
  /\ run[r] # None
  /\ MayPause(run[r].status)
  /\ Begin(h, r, "pause", Loaded(run[r], 0))

PauseCommits(h) ==
  /\ pc[h] = "pause"
  /\ Write(subject[h], h, [seen[h].row EXCEPT !.status = "paused"])
  /\ Reply(h)
  /\ UNCHANGED <<approved, steps, receipts, recorded>>

ResumeReads(h, r) ==
  /\ run[r] # None
  /\ MayResume(run[r].status)
  /\ Begin(h, r, "resume", Loaded(run[r], 0))

ResumeCommits(h) ==
  /\ pc[h] = "resume"
  /\ Write(subject[h], h, [seen[h].row EXCEPT !.status = "running"])
  /\ Reply(h)
  /\ UNCHANGED <<approved, steps, receipts, recorded>>

-----------------------------------------------------------------------------
(* POST .../submit-to-mock-ats                                             *)

\* Mutant: the status of the run is not looked at.
AnyMaySubmit(s) == TRUE

MaySubmit(s) == s = "stopped_before_submit"

SubmitReads(h, r) ==
  /\ run[r] # None
  /\ MaySubmit(run[r].status)
  /\ Begin(h, r, "select", Loaded(run[r], 0))

\* record_submission: the receipt of this key, if there is one.
SubmitSelects(h) ==
  /\ pc[h] = "select"
  /\ Continue(h, IF receipts = <<>> THEN "insert" ELSE "submit", seen[h])
  /\ UNCHANGED database

\* The unique index makes an INSERT wait for the transaction that has
\* inserted the same key and not yet ended.
InsertWaits == \E g \in Handlers : pc[g] = "submit" /\ seen[g].also

\* Mutant: the idempotency key is not unique.
NoUniqueKey(rows) == FALSE

IntegrityError(rows) == rows # <<>>

SubmitInserts(h) ==
  /\ pc[h] = "insert"
  /\ ~InsertWaits
  /\ IF IntegrityError(receipts) THEN Continue(h, "reselect", seen[h])
     ELSE Continue(h, "submit", [seen[h] EXCEPT !.also = TRUE])
  /\ UNCHANGED database

\* After the savepoint: the stored receipt, or the error is raised again.
SubmitReselects(h) ==
  /\ pc[h] = "reselect"
  /\ IF receipts # <<>> THEN Continue(h, "submit", seen[h]) ELSE Reply(h)
  /\ UNCHANGED database

SubmitCommits(h) ==
  /\ pc[h] = "submit"
  /\ receipts' = IF seen[h].also THEN Append(receipts, subject[h]) ELSE receipts
  /\ recorded' = recorded \cup {subject[h]}
  /\ Reply(h)
  /\ UNCHANGED <<approved, run, steps>>

-----------------------------------------------------------------------------

\* The human stops the application by hand.
StopApplication ==
  /\ approved
  /\ approved' = FALSE
  /\ UNCHANGED <<run, steps, receipts, recorded, pc, subject, seen, overlapped>>

RollBack(h) ==
  /\ pc[h] # "idle"
  /\ Reply(h)
  /\ UNCHANGED database

Init ==
  /\ approved = TRUE
  /\ run = [r \in Runs |-> None]
  /\ steps = [r \in Runs |-> <<>>]
  /\ receipts = <<>>
  /\ recorded = {}
  /\ pc = [h \in Handlers |-> "idle"]
  /\ subject = [h \in Handlers |-> None]
  /\ seen = [h \in Handlers |-> NothingSeen]
  /\ overlapped = {}

Accepts(h, r) ==
  \/ StartReads(h, r)
  \/ \E requested \in 1..MaxSteps : AdvanceReads(h, r, requested)
  \/ PauseReads(h, r)
  \/ ResumeReads(h, r)
  \/ SubmitReads(h, r)

Proceeds(h) ==
  \/ StartCommits(h)
  \/ AdvanceReadsSteps(h)
  \/ AdvanceReadsApplication(h)
  \/ AdvanceCommits(h)
  \/ PauseCommits(h)
  \/ ResumeCommits(h)
  \/ SubmitSelects(h)
  \/ SubmitInserts(h)
  \/ SubmitReselects(h)
  \/ SubmitCommits(h)
  \/ RollBack(h)

Next ==
  \/ \E h \in Handlers : Proceeds(h) \/ \E r \in Runs : Accepts(h, r)
  \/ StopApplication

Spec == Init /\ [][Next]_vars

-----------------------------------------------------------------------------
(* However requests overlap                                                *)

TypeOK ==
  /\ approved \in BOOLEAN
  /\ run \in [Runs -> RunRow \cup {None}]
  /\ steps \in [Runs -> Seq(StepRow)]
  /\ receipts \in Seq(Runs)
  /\ recorded \subseteq Runs
  /\ pc \in [Handlers -> {"idle", "start", "advance", "stop", "advanced", "pause", "resume",
                          "select", "insert", "reselect", "submit"}]
  /\ subject \in [Handlers -> Runs \cup {None}]
  /\ seen \in [Handlers -> Seen]
  /\ overlapped \subseteq Runs

Started(r) == run[r] # None

Done(r, index) == \E i \in DOMAIN steps[r] : steps[r][i].index = index

\* Every planned step before the cursor has its record: overlapping advances
\* may repeat a field of the form, they never skip one.
NoSkippedField ==
  \A r \in Runs : Started(r) => \A index \in 0..(run[r].cursor - 1) : Done(r, index)

\* A run that has ever stopped before submit has gone through the whole plan,
\* and its application is no longer approved.
StopIsComplete ==
  \A r \in Runs : Started(r) =>
    /\ run[r].status = "stopped_before_submit" => run[r].stopped
    /\ run[r].stopped => ~approved /\ \A index \in 0..(PlanLength - 1) : Done(r, index)

\* The packet is received once, whichever and however many runs deliver it,
\* and no delivery is recorded without the receipt.
OneReceipt == Len(receipts) = IF recorded = {} THEN 0 ELSE 1

\* The receipt and every delivery are of runs that filled the whole form.
DeliveriesAreComplete ==
  \A r \in Runs : (\E i \in DOMAIN receipts : receipts[i] = r) \/ r \in recorded =>
    Started(r) /\ run[r].stopped

-----------------------------------------------------------------------------
(* While no two requests about the run overlap                             *)

Alone(r) == r \notin overlapped /\ Started(r)

\* The records are the plan up to the cursor, each step once and in order,
\* and the run is stopped exactly at the end of the plan.
RecordsFollowPlan ==
  \A r \in Runs : Alone(r) =>
    /\ Len(steps[r]) = run[r].cursor
    /\ \A i \in DOMAIN steps[r] : steps[r][i].index = i - 1
    /\ run[r].status = "stopped_before_submit" <=> run[r].cursor = PlanLength

-----------------------------------------------------------------------------
(* What the documents say and the code does not do.                        *)

\* docs/architecture.md: steps are persisted in ordered tables; here, the
\* order of their sequence numbers is the order they were executed in.
StepsAreOrdered ==
  \A r \in Runs : \A i, j \in DOMAIN steps[r] :
    i < j => steps[r][i].sequence < steps[r][j].sequence

=============================================================================
