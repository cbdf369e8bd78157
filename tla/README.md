# CareerPilot: specifications, model checks and proofs

TLA+ models of the parts of CareerPilot in which requests, tasks and crashes
meet: the life of an application, its supervised submission to an employer, the
assisted runs in the mock ATS sandbox, the versioned rows of a candidate, the
discovery of jobs and their matching, and the filling of an employer's form.
Paths below are relative to the root of the repository.

## 1. The system

| Component | State it keeps | Operations | What makes it hard | What makes it correct |
|---|---|---|---|---|
| Application lifecycle, `services/api/app/api/v1/applications.py`, `state_machine/application.py` | `applications`, `application_events`, `application_materials` | create, generate materials, review, transition, stop | handlers check a row they do not lock and write it later | no submission, every audit record is grounded, versions and packet agree, nothing stops without approval, one application in flight |
| Supervised submission, `api/v1/browser_runs.py` (`issue_approval_token`), worker `queues/supervised.py`, `browser_worker/runner.py`, `browser_worker/approval.py`, `db.py` | `browser_runs`, `approval_tokens`, the page of the employer | issue token, run to Review, check guard, verify and consume token, click, confirm, persist | an external effect inside a transaction that may roll back; two runs; two tokens | every click was reviewed and signed, tokens are used up, "submitted" is true |
| Assisted sandbox run, `api/v1/browser_runs.py`, `assisted/` | `browser_runs` (plan, cursor, status), `browser_run_steps`, `browser_run_events`, `mock_ats_submissions` | start, advance, pause, resume, submit to mock ATS | overlapping requests merge into one row; repeated delivery | no field is skipped, a stopped run is complete, one receipt |
| Versioned rows, `api/v1/profiles.py`, `api/v1/answers.py` | `candidate_profiles`, `candidate_preferences`, `answer_library` | append a version | requests race for a number and retry | each series is an append-only log |
| Job discovery, worker `queues/discovery.py`, `queues/scheduler.py`, `db.py` | `discovery_runs`, `discovery_run_events`, `jobs` | start once per key, fetch, normalize, upsert each job, finish; cron cycle | crash or timeout between transactions, replay by key, overlapping runs | a key runs once, counts are honest, a run ends |
| ATS adapters, worker `adapters/` | none | fetch with retries, parse | retry loop against rate limits and errors | bounded retries, the error is told |
| Matching, `api/v1/matches.py`, `api/v1/jobs.py`, `matching/` | `matches` | refresh, refresh all, search; score with evidence | many unique inserts in one transaction, in different orders, of jobs that change meanwhile | a row per input, true counts, deadlocks only where an order is missing or ties |
| Workday form filling, worker `browser_worker/runner.py`, `workday.py`, `fields.py`, `pause.py` | the page, the growing result | fill a page, go on, pause for a human | pages that render late; the human and other tasks use the same browser; sensitive fields; a bound on the pages | only approved values, no incomplete page passed, an end |
| Legacy assisted worker, worker `browser_worker/worker.py`, `queues/browser_runs.py` | `browser_runs` | fill and stop | nothing calls it | never submits |
| Browser launcher, crawler boundary, worker `browser_worker/launcher.py`, `crawler/` | the browser of a task | open, close at the end of the task | a paused task closes the page it leaves to a human | one browser per profile |
| Dashboard, `apps/dashboard` | React state of the guided journey | API calls, buttons enabled by state | answers that arrive late or out of order | what is shown belongs to what is selected |
| Migrations, seeds, fixtures, `packages/`, `infra/` | schema, data, types | none at run time | - | - |

How they interact. The dashboard calls the API. The API and the worker share the
PostgreSQL database and nothing else: the worker reads runs, tokens and sources
and writes jobs, discovery runs and supervised results. The worker's cron asks
the API over HTTP to refresh the matches. The human is part of the system: the
approval of a packet, the reading of a Review page and the decision to issue a
token are theirs.

Two facts about the code shape every model:

- `get_db` (`services/api/app/database.py:17-24`) gives each API request one
  transaction, committed after the handler returns and rolled back if it raises.
  PostgreSQL's default READ COMMITTED applies and no handler locks a row. A
  handler is therefore modelled as one step for each SELECT whose answer it keeps
  and one step for its COMMIT; between them anything may commit. A handler that a
  check refuses, and a server that dies, leave nothing (`RollBack`).
- The worker's `get_connection` (`services/worker/app/db.py:176-179`) is one
  transaction per `async with`. `supervised_application_task` opens one around
  the whole browser run.

## 2. The modules

### ApplicationLifecycle (checked with MCLifecycle, proofs in ApplicationLifecycleProofs)

`status`, `job`, `packet`, `events` and `materials` are the columns and tables of
the same names; `packet` keeps the `resume_version` of the fingerprint (0 for
NULL) and a material stands for a résumé with its cover letter. `pc`, `subject`
and `seen` are the local variables of each request. Actions:

| Action | Code |
|---|---|
| `CreateReads`, `CreateCommits` | `create_application` |
| `GenerateReads`, `GenerateReadsPrevious`, `GenerateCommits` | `generate_materials` |
| `ReviewReads`, `ReviewReadsMaterials`, `ReviewCommits` | `review_application` |
| `TransitionReads`, `TransitionCommits` | `transition_application` |
| `StopReads`, `StopCommits` | `_stop_application_before_submit`, at the end of an assisted run |
| `RollBack` | an exception, a lost connection, a killed server |

`events[a]` is the audit log in the order of the commits. That order is history: the
table has only `created_at`, which is the start of the writing transaction
(`models/application.py:88-90`), so the records of one commit tie and those of
overlapping transactions may sort the other way. `seen[r].began` is how much of the
log was committed when the transaction of a request began; `older[a]` is the set of
applications for its job that the request which created `a` could have seen.

ADR 0002 calls the log replayable, and overlapping requests break that: a handler
writes a move computed from a status it read earlier. What is left is said by two
properties. Every record follows an edge and leaves a status the application really
had (`MovesAreGrounded`); and a transaction that began after all earlier records were
committed continues the log where it ends (`RecordsContinue`).

`OneActiveApplication` is likewise about every interleaving. Two overlapping creates
do make two applications in flight for a job, and a stale request may put a stopped
application back; the property says that there is no third way.

Left out: the texts of materials, job snapshot and profile pin (written once at
creation and never changed), answer versions of the fingerprint,
`authorize_submission` (never called).

### SupervisedSubmission (MCSupervised, SupervisedSubmissionProofs)

One approved application. `run` and `token` are the rows of `browser_runs` and
`approval_tokens`, `clerk` what a request of `issue_approval_token` has checked,
`pc` and `task` the running tasks with their arguments and result. `received` is
the employer, `reviewed`, `clicks`, `clicked` and `undone` are history: what was
reported to the human, what was clicked, and what a rollback forgot.

A task is one transaction with an external effect in the middle. Until it reaches
Review it touches nothing that others share, so its way there is one step with
four outcomes: it pauses (`Pauses`), runs out of steps (`GivesUp`), finds the
confirmation page (`FindsConfirmation`) or reaches Review (`ReachesReview`). Then
`ReadsGuard`, `PausesOnReview`, `StopsWithoutToken`, `IsRefused`/`IsAuthorised`
(signature, then the conditional UPDATE of `DbTokenStore.consume`, which waits for
the row lock), `Clicks` and `Persists` follow the code's order. `RollsBack` is a
crash, the 600 s `job_timeout` or an exception at any of these points; it undoes
the use of the token and not the click. The way to Review has a module of its
own, WorkdayRunner. The run row is overwritten by `Persists`
whatever it said before, as in `persist_supervised_run_result`.

Assumptions about what is outside `src/`:

- the employer shows no Review page once it has accepted the application, and
  confirms nothing that it has not accepted; it may accept and say so late;
- the human does not submit by hand in the visible browser;
- HMAC signatures are not forged. Of the six facts they bind, application and job
  are constant here and the versions are read back from the token's own row, so
  the binding is the run and the page;
- the page does not change between the reading of its fingerprint and the click.

`main.py` does not register `supervised_application_task` with the queue; an
operator calls it. The model lets it be called at any time, with any run and any
issued token.

### AssistedRun (MCAssisted, AssistedRunProofs)

The runs of one approved application and packet in the sandbox. `run` keeps
status, cursor and `stopped_before_submit`; `steps` the sequence number and the
planned step of every record; `receipts` the rows of `mock_ats_submissions` with
this packet's key; `recorded` the runs with a delivery event. `Updated` models
SQLAlchemy's unit of work: a commit writes only the columns whose value differs
from the one that was loaded, so overlapping requests merge into a row. The insert
of a receipt has its own steps (`SubmitSelects`, `SubmitInserts`,
`SubmitReselects`), because another transaction's uncommitted key makes it wait
and then fail, and the code selects again. `overlapped` is history: the runs that
two requests have worked on at once, for the properties that hold only without
overlap.

Left out: the content of the form, `completed_at` and `paused_at`, and the event
rows, which are numbered by the same function as the steps.

### MatchRefresh, MatchEngine (MCMatching, MatchRefreshProofs)

The requests that fill `matches`. `job` and `version` are what they read of `jobs`
and `candidate_profiles`, `match` the committed rows, each with all the columns of
`uq_match_input` and thus with what `input_fingerprint` hashes. `view`, `read`,
`todo`, `at`, `created` and `existing` are the locals of a request; `quiet` is
history: nothing it reads was written since it began.

| Action | Code |
|---|---|
| `NewestFirstReads`, `RefreshAllReads` | the profiles and constraints of `refresh_matches`, of `search_jobs`, and of `refresh_all_matches` |
| `ReadsJobs` | the SELECT of the jobs, `input_fingerprint` of each pair |
| `Starts`, `Inserts`, `FindsExisting` | `_score_jobs_for_profile` and `upsert_match`: INSERT ... ON CONFLICT DO NOTHING, which waits for an uncommitted row, and the SELECT after it |
| `Commits`, `RollsBack` | the end of `get_db`; a caller that gives up after its 60 s does not end the request |
| `IsVictim` | PostgreSQL aborts a member of a circle of waiting transactions |
| `StoreJob`, `SaveProfile` | what the worker and the candidate write meanwhile |

`discovered_at` is chosen once for every job and may be equal for several: the column
is not unique, `upsert_job` stamps the time of its transaction and every seeded job
has the same one (`db/seeds/fake_data.py:128`). `MayBeNext` takes tied jobs in any
order, since `ORDER BY discovered_at DESC` gives them none. `DeadlockNeedsATie` says
what the order is worth: requests that take the newest jobs first wait in a circle
only at jobs with one `discovered_at`; every other circle has a `refresh-all` in it,
which has no ORDER BY. Both kinds of circle are in the explored states.

`MatchEngine` holds `evaluate_match` and `build_evidence` as operators on sets of
tokens, in hundredths of a point. MCMatching compares them over all small texts:
the evidence adds up to the score but for rounding (`EvidenceAddsUp`), to know more
never lowers a score (`MoreSkillsNeverHurt`), to allow one more place excludes no
job (`MorePlacesAllowMore`). They are assumptions of the MC module, evaluated before
the run; MatchRefreshProofs proves the same of texts of any size.

Left out: the tokenizer, the wording of the evidence, `application_count`, the
listings. The answer of a request may be sent before its COMMIT; here both are one
step, `Commits`.

### WorkdayRunner (MCWorkday, WorkdayRunnerProofs)

One supervised run on its way to Review. `place`, `visible`, `wall` and `loading` are
what the browser shows: the page, those of its fields that are there, an interruption
(login, CAPTCHA, MFA, identity check), and whether more is to come. `entered` and
`accepted` are who typed each field and whether the employer has the application;
`launched`, `shown` and `answer` are chosen once: a browser of its own or the
operator's page, the fields of this posting, the approved answers. `task` keeps what
a task remembers across its awaits; its `stood` is history.

| Action | Code |
|---|---|
| `Begins` | `supervised_application_task`, `_validate_binding`, the launcher |
| `Opens`, `Navigates` | `_navigate_to_form`: is a form there, and if not, goto |
| `Detects`, `Arrives` | the interruptions, then again the form |
| `Looks`, `Reads` | the head of `_step_loop`: bound of steps and interruptions, then the step |
| `Reviews` | `_handle_review` without a token: the guard, the interruptions once more |
| `Lists`, `HasListed` | `fields_for_step`, one `is_visible` after the other |
| `PausesAt`, `Skips`, `Writes` | `_fill_step` and `_write_field`, field by field in the order of the layout |
| `Advances`, `Checks` | `_advance_with_validation`: the click on Next, and the look at what came |
| `Closes`, `Ends` | the launched browser closes, then the result is persisted or the transaction rolled back |
| `Renders`, `Appears`, `Blocks`, `Rests` | the site: another page without its fields, a field, a wall, nothing more |
| `HumanTypes`, `HumanPassesWall`, `HumanMoves`, `HumanSubmits` | the human in the visible browser |

`goto` returns at `domcontentloaded` and `click` right after the click
(`launcher.py:32-33, 57-58`), and no read waits. A goto or a click therefore only sets
`loading`; while it is set, the steps of the site come between any two reads of a
task. A late page is read as UNKNOWN or without some of its fields, and is passed
over; an old page that is still there counts as a rejected input; a form that comes
late counts as no form.

Outside of `src/` and assumed: the employer answers a click with any page; it shows
a confirmation exactly if it has accepted the application, and no other page of the
form afterwards; a page stays when it has come to rest, until a goto or a click; what
was typed stays in the form; a field that is not visible cannot be typed into
(Playwright raises, which is `Closes` without a result). Unlike in SupervisedSubmission
the human may submit by hand.

`ApprovedValuesOnly` holds whatever the site, the human and other tasks do. That
pages are complete when Next is clicked (`PassesAreComplete`, ADR 0008) is not true of
the code. `StandingPagesAreComplete` is what it keeps: a page that was all there when
its step was read, and that nobody turned until the click, has nothing left on it that
waits for the human, also when the human or another task has typed into it meanwhile.

Left out: screenshots, the texts of steps and events, the token (no task has one
here).

### VersionedAppend, AppendOnlyLog (MCVersioned, VersionedAppendProofs)

One series of `candidate_profiles`, `candidate_preferences` or `answer_library`
rows. A request reads the largest version, inserts the next in a savepoint, waits
for an uncommitted row with the same key, and after a refusal reads and tries
again, three times, then answers 409. `tries` counts the refusals of a request and
`others` what was committed over it. `AppendOnlyLog` is the promise: 1, 2, 3, ...,
growing at the end by one.

### DiscoveryPipeline, KeyedOnce (MCDiscovery, DiscoveryProofs, DiscoveryOutcomeProofs)

The worker's discovery tasks. A pair of ATS and company is one value, a source.
`runs`, `events` and `jobs` are the tables `discovery_runs`,
`discovery_run_events` and `jobs`; a run is found by its idempotency key, which is
a minute and a source for a cycle of the cron job and a source alone for a task of
the CLI. `jobs` keeps of a posting what `snapshot_hash` covers, title and
description. `pc`, `tick`, `todo`, `failed` and `work` are the local variables of
`scheduled_discovery`, `discover_source` and `run_discovery`. `written` and
`broken` are history.

| Action | Code |
|---|---|
| `Begin` | ARQ starts `scheduled_discovery`, at its minute or at startup, or `discover_jobs_task` |
| `Claim`, `ClaimFails` | `build_adapter` and the transaction of `create_discovery_run`, which answers a replay with the row it finds |
| `Mark`, `MarkFails` | the first transaction of `run_discovery`, outside of its `try` |
| `Unavailable`, `Unusable`, `Fetched` | `_fetch_with_retry` and `discover_jobs` of the adapters, then `normalize` |
| `Store`, `StoreFails` | one `upsert_job` transaction |
| `Complete`, `RecordFailure`, `RecordFails` | the last transaction and the two `except` clauses, with what the cycle then does |
| `Refresh` | `trigger_match_refresh`, whatever it answers |
| `Cancel` | job timeout, shutdown or crash: `CancelledError` is no `Exception` and no handler runs |

Every `async with get_connection()` is one step. What a board shows is chosen
anew at every fetch. The postings are upserted in any order: the order of a board
is not known. Failures are possible everywhere; none is counted against a bound.

`KeyedOnce` is the abstract specification of an idempotency key: free, held,
closed; work is done under a held key only, and what is reported when it is closed
is the number of items done. The pipeline implements it (`RunsOnce`).

Left out: columns the hash does not cover, texts of errors, times, a board that
lists an id twice, and the waiting between attempts. A task that ARQ runs again
after a shutdown is one more `Begin`.

What the properties do not promise, because the code does not: a run that loses
its task stays `running` and its key is used up (`broken`); the newest content
wins only if runs of a source do not overlap (`LoneRunIsFresh`); a change of
location or remote flag alone is never stored.

## 3. The runs

Safety needs no fairness. Two runs have a liveness property and weak fairness of
what is under way, never of what starts, cancels or changes it:

- `discovery`: the next step of every started task. The event loop resumes a
  task whose await is over, every request has a timeout of 30 s and at most
  `_MAX_RETRIES` attempts, and a transaction ends with an error at the latest when
  its connection does.
- `workday_runner`: the steps of a running task (`Works`). Every call of Playwright
  ends within its 30 s, by an exception if need be (and a `job_timeout` of 600 s
  cancels what runs under ARQ); that is why `Closes` is one of them. `TasksEnd` still needs the
  bound of `_step_loop`: fairness alone lets a task go round for ever.

Properties are named with the run that checks them; each has a mutant of the code
(the operators commented "Mutant:") that breaks it.

| Run | Bounds | States | What it shows |
|---|---|---|---|
| `lifecycle_concurrent` | 2 applications of 1 job, 2 requests, 7 audit records | 164,525 | `MovesAreGrounded`, `StopFollowsApproval`, `ResumeVersionsContiguous`, `PacketNamesLatestResume`, `OneActiveApplication`, `RecordsContinue` in every interleaving |
| `lifecycle_approval_bypass` | 1 application, 1 request | violation | approval without review |
| `supervised` | 1 run, 2 tokens, 2 pages, 2 tasks, 2 token requests, 2 clicks | 385,554 | `ClicksWereReviewed`, `OneClickPerCommit`, `SubmittedIsReal`, `ConsumedTokenIsDead` |
| `supervised_token_reuse` | 1 run, 1 token | violation | a token that clicks twice |
| `supervised_twice` | 2 runs, 2 tokens, 2 tasks | violation | an application accepted twice |
| `assisted_concurrent` | 2 runs, plan of 3 steps, advances by 1 or 2, 2 requests, 4 records a run | 2,092,010 | `NoSkippedField`, `StopIsComplete`, `OneReceipt`, `DeliveriesAreComplete`; without overlap `RecordsFollowPlan` |
| `assisted_sequences` | 1 run, 1 request | violation | sequence numbers that do not order the steps |
| `versioned_appends` | 3 requests, 3 attempts, 5 rows | 417,586 | `RefusalsArePaid`, refinement of `AppendOnlyLog` |
| `discovery` | 2 tasks, 1 minute, a good source, listed and asked for by the CLI, a listed one of an unknown ATS, 2 jobs, 2 texts, 2 attempts | 297,235 | `OneExecutor`, `RowsTellTheTruth`, `LoneRunIsFresh`, `RefreshSeesWork`, `RunsEnd`, refinement of `KeyedOnce` |
| `match_refresh` | 2 requests, 2 jobs, 2 times, 2 contents, 1 profile with 2 versions | 179,524 | `CreatedOnce`, `AnswersAreTrue`, `QuietRefreshIsComplete`, `DeadlockNeedsATie`; the scores of all small texts |
| `workday_runner` | 1 task and the human, 3 fields on 2 pages, 2 postings, every answer set, 2 rounds | 699,026 | `ApprovedValuesOnly`, `StandingPagesAreComplete`, `TasksEnd` |
| `workday_late_page` | 1 task alone, 3 fields on 2 pages | violation | a sensitive question clicked past |

Every passing run also checks the types of its module.

Why the bounds are enough. Every hazard modelled is a race of two requests or
tasks (three for a retry loop whose limit is three), so two actors and one victim
of each kind show it. Seven audit records, with the eighth that is checked and not continued, reach the
end of the state machine and let a stale request go on from there; four step records let two overlapping
advances repeat a step of a plan of three; two clicks are one more than there
should be; five rows are more than the three attempts of a request. In `discovery` the
state space is finite without a bound: the two keys of the good source (the cycle's
and the CLI's) give two runs of one board that may overlap, and two cycles of one
minute compete for the same key; two attempts, for the code's three, show a first
and a last one. `match_refresh` is finite by its two versions; two requests and two
jobs are the smallest circle, and two times let the jobs tie or not. In `workday_runner` the human can do all that a second
task on the operator's page could do to the first one's page, so one task is enough
for the runs, and two rounds let the same page come back under another name
(`Postings` takes of the postings those that ask all three fields and those that ask
the required one only); the proofs take any number of all. The bounds of the other runs
are state constraints of the MC modules (`MaxMoves`, `MaxRecords`, `MaxClicks`,
`MaxRows`): a state beyond a bound is checked and not continued. Identifiers are
symmetric where no temporal property with a state-to-state identity is at stake.
Deadlock is checked except where the system may really stop: an application that
is stopped before any run was started (`Supervised*`, `Assisted*`), two requests
that are both answered (`Matching`), a posting whose answers `_validate_binding`
refuses, so that no task begins (`Workday`).

## 4. What is proved

TLAPS checks these for any values of the constants: any sets of applications,
jobs, runs, tokens, pages, requests, tasks and fields, and any number of attempts
and rounds. No theorem is restricted to some of the behaviours; the only assumptions are the named ASSUMEs of the modules: `None` and
the other marks are not values of the sets they are added to, applications and jobs
are different things, `Attempts`, `MaxAttempts`, `MaxSteps` and `PlanLength` are
positive numbers, every job is on one board, boards list finitely many jobs, the
CLI accepts only sources of a known ATS, discovery times are numbers, the default
constraints are constraints, and no two fields of a page have the same place in its
layout.

**ApplicationLifecycleProofs.** `TypeOK`, `NeverSubmitted`, `MovesAreGrounded`,
`StopFollowsApproval`, `ResumeVersionsContiguous`, `PacketNamesLatestResume`,
`OneActiveApplication`, and the action property `RecordsContinue`. None is inductive
alone, because what a handler commits was computed from an old read. The invariant
`IInv` adds what survives of one: the status a request remembers appears in the log
of its application after the records that were committed when its transaction began
(`Remembers`), logs only grow and end in the status, and a remembered résumé version
is at most the number of versions. From a status that appears in the log, one legal
edge gives a grounded record (`GoodLogGrows`); the unique constraint turns "at most"
into "exactly the next one" at the commit.

- `LogContinues`: if the log is as long at the commit as when the transaction began,
  the status that was read is the one the log ends in.
- `OneApplicationIsActive`: of the applications for its job that a create could see,
  none was in flight (`OldOnesStopped`), and one that is out of flight comes back only
  if it was stopped (`InactiveIsStopped`).

**SupervisedSubmissionProofs.** `TypeOK`, `ClicksWereReviewed`,
`ClicksNeedBothModes`, `OneClickPerCommit`, `SubmittedIsReal`, and the action
property `ConsumedTokenIsDead`. The invariant follows a token through its life: a
request that is about to insert a token, an issued token and a task past the gate
all name a page that was reported to the human; a token is held by at most one task
between its conditional UPDATE and its COMMIT, and the count of its clicks is one
for being consumed, plus one for a holder that has clicked, plus the rollbacks.

**AssistedRunProofs.** `TypeOK`, `NoSkippedField`, `StopIsComplete`, `OneReceipt`,
`DeliveriesAreComplete`, `RecordsFollowPlan`. A request may commit a row merged from
an old read and the present one, so the invariant holds for each column by itself:
the steps before any cursor a request has loaded are recorded (`LoadedInv`), a
request that will write a final status goes to the end of the plan, and
`stopped`, once loaded, is still there. It survives the steps of others because
records are only added, `stopped` is never taken back and the application is not
approved again (`Grows`; an assumption of this model, see section 5). Sequence numbers repeat, but are bounded, and that is all
that `_next_sequences` needs. For `OneReceipt`, the unique index lets one
transaction hold the key (`OneInserter`). For `RecordsFollowPlan`, a run outside of
`overlapped` has one request at a time, whose loaded row is the present one.

**MatchRefreshProofs.** `TypeOK`, `CreatedOnce`, `AnswersAreTrue`,
`QuietRefreshIsComplete`, `DeadlockNeedsATie`. Every input of a request is
to do, being inserted, created or existing (`PartsInv`). For the deadlocks, a
newest-first request has done no job that is older than one still before it
(`OrderInv`); in a circle of such requests without a tie the awaited jobs would then
become older without end, and a set of numbers has a least one (`SmallestExists`, by
well-founded induction on the numbers).

For the scores, three theorems about all postings of finitely many tokens and all
profiles. `ScoreIsItsEvidence`: a score is between 0 and 100 and differs from the sum
of its evidence by two hundredths at most. Over the common denominator of the four
ratios a score is rounded once (`RoundedBounds`) and the evidence eight times, four
of them with the weight of the part (`PointsAreTheShare`); the slacks come to less
than three hundredths (`SumsAreClose`). `MoreNeverLowersAScore`: larger sets of a
profile leave the denominators and enlarge what is found. `MorePlacesExcludeNoJob`
has the hypothesis that some place is listed already: an empty list allows every
place, so that the first one listed does exclude jobs.

**WorkdayRunnerProofs.** `TypeOK`, `ApprovedValuesOnly`, and the action property
`StandingPagesAreComplete`. The argument is one of interference: `StandInv` is what a
task knows of a page that stands (each of its fields is still to be looked for, still
to be dealt with, or settled), and every step of the site, the human or another task
either leaves the page as it is, but for fields that are filled, or ends `stood`, and
with it the promise (`Unaffected`). A page that stands is not loading, so the site
has no step on it.

**VersionedAppendProofs.** `TypeOK`, `RefusalsArePaid`, and
`ImplementsALog == Spec => IsALog`: initial states map to initial states and every
step is an append of `Len + 1` or a stutter. The invariant says that the rows are
1, 2, 3, ..., that at most one request has an uncommitted insert and it holds the
next number, and that the versions that appeared since a request's last SELECT are
commits of others it has not yet been refused for.

**DiscoveryProofs.** `TypeOK`, `OneExecutor`, `RowsTellTheTruth`, and
`KeysAreTakenOnce == Spec => RunsOnce`: a step maps to `Take`, `Do` or `Close` of
`KeyedOnce` or to a stutter. The invariant ties three things that the code never
compares: an executing task's `pc` and the status of its row, its local sets and
the jobs written under its key, and the row's status and its event log. That two
tasks never execute one run follows from the row alone: a key is claimed only when
it has no row, and no row is ever deleted. A store adds one job that was not
written before, so that the cardinalities in the last row are exact.

**DiscoveryOutcomeProofs.** `LoneRunIsFresh`, `RefreshSeesWork`, on top of the
invariant of DiscoveryProofs. Every run has ended, is written down as lost, or has an
executing task (`Accounted`), and a source that a cycle is done with has failed or
has a run (`CycleInv`); the cycle that asks for the refresh executes nothing itself,
so an unfinished run is another cycle's. For freshness, a lone task is the only one
of its source that stores (`StoresAlone`), and tasks of other sources write jobs of
other boards. A task that acts changes nothing of the others but their `lone`
(`Aside`).

Two properties are proved and have no run: `NeverSubmitted` and
`ClicksNeedBothModes` follow from the edges of the state machine and from two
guards.

Only model-checked: liveness under fairness (`RunsEnd`, `TasksEnd`), which is out of
the prover's reach, and the five counterexamples of section 5. Every other property of
a run is a theorem.

## 5. Where documents and code differ

Five runs end in a counterexample, each for a sentence of the documentation or of
a comment (PROJECT.json quotes them): approval without a review through the
generic transition endpoint; a token that authorises a second click after a crash
between click and commit; an application submitted by two runs that both found the
guard open; `(step_max or -1) + 1`, which numbers the second step 0 again; and a
form page that renders late and is clicked past with a sensitive question on it.

Three differences in discovery are facts of single lines and have no run of their
own. ADR 0004 (`docs/adr/0004-job-discovery-adapters.md:54-55`) speaks of up to
three retries and of none on a 4xx; `_fetch_with_retry` makes three attempts in all
and repeats a 429. The docstring of `compute_snapshot_hash` takes an unchanged hash
for an unchanged posting, and the hash covers title and description only. The
docstring of `discover_jobs_task` calls a missing key "auto-generated"; the default
is the same for every call with the same source, so that a second one never fetches.

More, met while modelling, without a run of their own:

- ADR 0002 (`docs/adr/0002-application-state-machine.md:19`) calls `from_status`
  "the status before the transition"; of two overlapping transitions the later
  one records the status it read, and the chronological order of the log (line 36) is
  by the start of transactions, with ties inside one. `MovesAreGrounded` and
  `RecordsContinue` are what remains.
- The comments at `services/api/app/api/v1/applications.py:229-230` and `252-253`
  promise one application in flight for a job. Two overlapping creates make two, for
  no constraint forbids it; `OneActiveApplication` names this way and the other one.
- An approval that was used up or taken back may be regained by a review or a
  transition that read the application before: nothing locks the row. In
  SupervisedSubmission `approved` may therefore come and go (`ApprovalChanges`);
  AssistedRun lets it only be lost, so that a run of an application approved again in
  this way is not in that model.
- Newest-first refreshes may deadlock with each other on jobs discovered at the same
  time, which all seeded jobs are; PostgreSQL aborts one of them.
- A pause for a validation error or a missing form may be false: the page had not come
  yet (`Checks`, `Arrives`).
- `browser_worker/pause.py:4-5` leaves a paused step to a human "who completes the
  step in the visible browser before the run is resumed"; a task that launched its
  browser closes it when it ends (`Closes`), so this holds of the operator's page only.
- `docs/architecture.md:242` speaks of ordered tables of steps, events and
  screenshots; the worker numbers them from 0 in every task of a run
  (`db.py:347`).
- The docstring of `build_evidence` gives each part the points it "contributed to
  the final score"; the score of an ineligible job is 0 and its parts keep theirs.
- The answer of a refresh is sent by the handler, and `get_db` commits afterwards: a
  caller may be told of rows whose COMMIT then fails.

## 6. What is not modelled

- Tailoring of materials, normalization of postings and the classification of a
  form's address are pure functions of text, and keep no state. Of the form adapters,
  which page has which fields is a constant of WorkdayRunner.
- The dashboard. `JourneyPanel.tsx` keeps React state across awaits and two answers
  may arrive in the wrong order; no document says what it shows meanwhile, and the
  API checks every call again. Stating a property would mean inventing the promise.
- The legacy worker of ADR 0007 (`browser_worker/worker.py`,
  `queues/browser_runs.py`): `main.py` does not register it and nothing calls it.
  It fills a fixed form in one pass and writes its run once; its safety is that it
  has no submit operation.
- In discovery and matching, the endpoints that list rows only read.
- Migrations, seeds, fixtures, contracts, UI components, infrastructure and crawler
  boundary: no behaviour to check beyond the constraints that the models of the
  tables already have.
- The browser between the reading of a fingerprint and the click, and whether
  SQL and Playwright do what they promise.

## 7. Plan

Done, in this order: `ApplicationLifecycle`, the status machine
that everything else hangs on; `SupervisedSubmission`, the one irreversible effect;
`AssistedRun`; `VersionedAppend` with `AppendOnlyLog`; `DiscoveryPipeline` with
`KeyedOnce`; `MatchRefresh` with `MatchEngine`; `WorkdayRunner`. Each has its proofs.

What would come next:

1. A composition of lifecycle, assisted run and token issue over one application,
   to replace the `approved` flag that AssistedRun and SupervisedSubmission keep
   of it. It would show what stale reviews do to the assisted runs.
2. Liveness of the append loop and of a task that waits for a token's row lock,
   given that requests do not roll back for ever.
3. `JourneyPanel`, once it is written down what the panel promises.
