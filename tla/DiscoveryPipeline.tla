-------------------------- MODULE DiscoveryPipeline --------------------------
(***************************************************************************)
(* Job discovery in the worker.  A task runs discover_source for one       *)
(* (source, company) pair, or, as a cycle of the cron job, for every       *)
(* enabled pair and then asks the API for a match refresh.  A pair is      *)
(* called a source here.                                                   *)
(*                                                                         *)
(* Every `async with get_connection()` is one transaction and one step;    *)
(* the requests to the ATS and the loop over the jobs lie between them.    *)
(* Any transaction can fail, and a task can be cancelled or killed         *)
(* anywhere: CancelledError is no Exception, so no handler runs.           *)
(***************************************************************************)
EXTENDS Naturals, Sequences, FiniteSets

CONSTANTS
  Tasks,        \* what the worker can run at the same time: max_jobs
  Minutes,      \* values of strftime("%Y%m%dT%H%M")
  Listed,       \* the enabled rows of discovery_sources
  Age,          \* their created_at, which orders a cycle
  Asked,        \* sources the CLI is asked to discover, of a known ATS
  Supported,    \* sources of a known ATS; the others are misconfigured rows
  Jobs,         \* external ids a board can list
  BoardOf,      \* the source whose board lists a job
  Texts,        \* title and description: what snapshot_hash covers
  MaxAttempts,  \* _MAX_RETRIES of the adapters
  None

Sources == Listed \cup Asked

ASSUME ValuesAssumption ==
  /\ Asked \subseteq Supported
  /\ MaxAttempts \in Nat \ {0}
  /\ BoardOf \in [Jobs -> Sources]
  /\ Age \in [Listed -> Nat]
  /\ IsFiniteSet(Jobs)
  /\ None \notin Minutes \cup Sources \cup Texts

VARIABLES
  runs,      \* discovery_runs by idempotency key
  events,    \* discovery_run_events of each run
  jobs,      \* the jobs table: the text stored for each job, or None
  pc,        \* where each task is
  tick,      \* the minute of a cycle, None for a discover_jobs_task
  todo,      \* sources the task has still to discover
  failed,    \* sources whose discovery raised: the counter `failures`
  work,      \* local variables of discover_source and run_discovery
  written,   \* history: jobs written under each key
  broken     \* history: keys that lost their task or a bookkeeping transaction

database == <<runs, events, jobs>>
history  == <<written, broken>>
local    == <<tick, todo, failed>>
vars     == <<database, pc, local, work, history>>

-----------------------------------------------------------------------------
(* Values                                                                  *)

\* f"sched:{cycle}:{source}:{company_id}", or the default f"{source}:{company_id}"
Keys == (Minutes \X Listed) \cup ({None} \X Asked)

KeyOf(t, s) == <<tick[t], s>>

IsCycle(t) == tick[t] # None

Status == {"pending", "running", "completed", "failed"}

RunRow == [status : Status, discovered : Nat, upserted : Nat, skipped : Nat]

ASSUME NoneIsNoRow == None \notin RunRow

Row(status, discovered, upserted, skipped) ==
  [status |-> status, discovered |-> discovered, upserted |-> upserted, skipped |-> skipped]

\* The normalized postings of one board: the text of each job it lists.
Batches(s) == UNION {[listed -> Texts] : listed \in SUBSET {j \in Jobs : BoardOf[j] = s}}

\* left: not yet upserted; wrote: upsert_job said "upserted", for the others
\* "skipped"; lone: history, no other task of the source stored meanwhile
Work == [source : Sources \cup {None}, attempt : 1..MaxAttempts,
         batch : UNION {[listed -> Texts] : listed \in SUBSET Jobs},
         left : SUBSET Jobs, wrote : SUBSET Jobs, lone : BOOLEAN]

NoPostings == [j \in {} |-> None]

Starting(s) == [source |-> s, attempt |-> 1, batch |-> NoPostings, left |-> {}, wrote |-> {},
                lone |-> FALSE]

Idle == Starting(None)

Key(t) == KeyOf(t, work[t].source)

Skipped(w) == (DOMAIN w.batch \ w.left) \ w.wrote

\* A task that works on the run of its key.
Executing(t) == pc[t] \in {"marking", "fetching", "storing", "failing"}

Finished(k) == runs[k] # None /\ runs[k].status \in {"completed", "failed"}

-----------------------------------------------------------------------------
(* Control                                                                 *)

Goto(t, where) == pc' = [pc EXCEPT ![t] = where]

\* A task is over; its slot is free.
End(t) ==
  /\ Goto(t, "idle")
  /\ tick' = [tick EXCEPT ![t] = None]
  /\ todo' = [todo EXCEPT ![t] = {}]
  /\ failed' = [failed EXCEPT ![t] = {}]

Proceed(t, where) == Goto(t, where) /\ UNCHANGED local

\* Mutant: an exception ends the loop of a cycle.
LoopUntilFailure(t, rest, bad) ==
  /\ Goto(t, IF rest # {} /\ ~bad THEN "claiming" ELSE "refresh")
  /\ UNCHANGED tick

\* The next round of the loop in scheduled_discovery.
LoopOn(t, rest, bad) ==
  /\ Goto(t, IF rest # {} THEN "claiming" ELSE "refresh")
  /\ UNCHANGED tick

\* discover_source of s has returned, or has raised when bad: a cycle counts
\* the failure and goes on, any other task is over.
Leave(t, s, bad) ==
  /\ work' = [work EXCEPT ![t] = Idle]
  /\ \/ /\ IsCycle(t)
        /\ todo' = [todo EXCEPT ![t] = @ \ {s}]
        /\ failed' = [failed EXCEPT ![t] = IF bad THEN @ \cup {s} ELSE @]
        /\ LoopOn(t, todo[t] \ {s}, bad)
     \/ ~IsCycle(t) /\ End(t)

\* ARQ starts a task.  A cycle, at a scheduled minute or at startup, reads the
\* enabled sources and has nothing to do when there are none.  A
\* discover_jobs_task names its source; the CLI enqueued it, or a shutdown
\* interrupted it before.
Begin(t) ==
  /\ pc[t] = "idle"
  /\ \/ \E minute \in Minutes :
          /\ Listed # {}
          /\ tick' = [tick EXCEPT ![t] = minute]
          /\ todo' = [todo EXCEPT ![t] = Listed]
     \/ \E s \in Asked :
          /\ todo' = [todo EXCEPT ![t] = {s}]
          /\ UNCHANGED tick
  /\ Goto(t, "claiming")
  /\ UNCHANGED <<database, failed, work, history>>

\* trigger_match_refresh answers, or fails and the failure is swallowed.
Refresh(t) ==
  /\ pc[t] = "refresh"
  /\ End(t)
  /\ UNCHANGED <<database, work, history>>

-----------------------------------------------------------------------------
(* discover_source: one run for one key                                    *)

\* Mutant: the task does not look at `created`.
AlwaysNew(t, s) == TRUE

\* Mutant: a failed run may be taken up again.
FailedRunsAgain(t, s) ==
  runs[KeyOf(t, s)] # None => runs[KeyOf(t, s)].status = "failed"

\* The INSERT went through, no row had the key.
Created(t, s) == runs[KeyOf(t, s)] = None

\* What the task takes up: the oldest of what is left.
Oldest(t) == {s \in todo[t] : IsCycle(t) => \A r \in todo[t] : Age[s] <= Age[r]}

\* create_discovery_run.  Under a key that has a row the task answers with
\* what the row says, whatever state its run is in.
Claim(t) ==
  /\ pc[t] = "claiming"
  /\ \E s \in Oldest(t) \cap Supported :
       \/ /\ Created(t, s)
          /\ runs' = [runs EXCEPT ![KeyOf(t, s)] = Row("pending", 0, 0, 0)]
          /\ work' = [work EXCEPT ![t] = Starting(s)]
          /\ Proceed(t, "marking")
       \/ /\ ~Created(t, s)
          /\ Leave(t, s, FALSE)
          /\ UNCHANGED runs
  /\ UNCHANGED <<events, jobs, history>>

\* build_adapter refuses the source, or the transaction raises: no row.
ClaimFails(t) ==
  /\ pc[t] = "claiming"
  /\ \E s \in Oldest(t) : Leave(t, s, TRUE)
  /\ UNCHANGED <<database, history>>

\* The first transaction of run_discovery.
Mark(t) ==
  /\ pc[t] = "marking"
  /\ runs' = [runs EXCEPT ![Key(t)].status = "running"]
  /\ events' = [events EXCEPT ![Key(t)] = Append(@, "run_started")]
  /\ Proceed(t, "fetching")
  /\ UNCHANGED <<jobs, work, history>>

\* It is outside of the try: nobody records the failure, the run stays pending.
MarkFails(t) ==
  /\ pc[t] = "marking"
  /\ Leave(t, work[t].source, TRUE)
  /\ broken' = broken \cup {Key(t)}
  /\ UNCHANGED <<database, written>>

-----------------------------------------------------------------------------
(* _fetch_with_retry and discover_jobs, alike in the three adapters        *)

\* Mutant: range(1, _MAX_RETRIES + 2)
OneAttemptMore(attempt) == attempt <= MaxAttempts

MayRetry(attempt) == attempt < MaxAttempts

\* 429, 5xx, a timeout or a network error; after the last attempt
\* RetryExhaustedError.
Unavailable(t) ==
  /\ pc[t] = "fetching"
  /\ IF MayRetry(work[t].attempt)
     THEN /\ work' = [work EXCEPT ![t].attempt = @ + 1]
          /\ Proceed(t, "fetching")
     ELSE Proceed(t, "failing") /\ UNCHANGED work
  /\ UNCHANGED <<database, history>>

\* Mutant: only RetryExhaustedError is caught.
Uncaught(t) ==
  /\ pc[t] = "fetching"
  /\ Leave(t, work[t].source, TRUE)
  /\ UNCHANGED <<database, history>>

\* Another 4xx, a body that is no JSON, or a posting that cannot be
\* normalized: the exception leaves the postings before it counted.
Unusable(t) ==
  /\ pc[t] = "fetching"
  /\ \E batch \in Batches(work[t].source) :
       work' = [work EXCEPT ![t].batch = batch, ![t].left = DOMAIN batch]
  /\ Proceed(t, "failing")
  /\ UNCHANGED <<database, history>>

Storing(s) == {u \in Tasks : pc[u] = "storing" /\ work[u].source = s}

\* The board as it is at this moment; a payload of an unexpected shape counts
\* as an empty board.
Fetched(t) ==
  /\ pc[t] = "fetching"
  /\ \E batch \in Batches(work[t].source) :
       work' = [u \in Tasks |->
         IF u = t
         THEN [work[t] EXCEPT !.batch = batch, !.left = DOMAIN batch,
                              !.lone = Storing(work[t].source) = {}]
         ELSE [work[u] EXCEPT !.lone = @ /\ work[u].source # work[t].source]]
  /\ Proceed(t, "storing")
  /\ UNCHANGED <<database, history>>

-----------------------------------------------------------------------------
(* upsert_job, once per posting                                            *)

\* Mutant: a job that is there is never updated.
OnlyNewJobs(j, text) == jobs[j] = None

\* The INSERT, or the DO UPDATE ... WHERE snapshot_hash != excluded.snapshot_hash
Writes(j, text) == jobs[j] = None \/ jobs[j] # text

Store(t) ==
  /\ pc[t] = "storing"
  /\ \E j \in work[t].left :
       LET text == work[t].batch[j] IN
       \/ /\ Writes(j, text)
          /\ jobs' = [jobs EXCEPT ![j] = text]
          /\ work' = [work EXCEPT ![t].left = @ \ {j}, ![t].wrote = @ \cup {j}]
          /\ written' = [written EXCEPT ![Key(t)] = @ \cup {j}]
       \/ /\ ~Writes(j, text)
          /\ work' = [work EXCEPT ![t].left = @ \ {j}]
          /\ UNCHANGED <<jobs, written>>
  /\ Proceed(t, "storing")
  /\ UNCHANGED <<runs, events, broken>>

\* A transaction of the loop, or the last one, raises.
StoreFails(t) ==
  /\ pc[t] = "storing"
  /\ Proceed(t, "failing")
  /\ UNCHANGED <<database, work, history>>

\* Mutant: what was skipped is reported as upserted.
SkippedAsUpserted(w, status) ==
  Row(status, Cardinality(DOMAIN w.batch), Cardinality(DOMAIN w.batch \ w.left), 0)

\* What update_discovery_run_status writes in the end.
FinalRow(w, status) ==
  Row(status, Cardinality(DOMAIN w.batch), Cardinality(w.wrote), Cardinality(Skipped(w)))

Complete(t) ==
  /\ pc[t] = "storing"
  /\ work[t].left = {}
  /\ runs' = [runs EXCEPT ![Key(t)] = FinalRow(work[t], "completed")]
  /\ events' = [events EXCEPT ![Key(t)] = @ \o <<"batch_discovered", "run_completed">>]
  /\ Leave(t, work[t].source, FALSE)
  /\ UNCHANGED <<jobs, history>>

\* The two except clauses; both raise again.
RecordFailure(t) ==
  /\ pc[t] = "failing"
  /\ runs' = [runs EXCEPT ![Key(t)] = FinalRow(work[t], "failed")]
  /\ events' = [events EXCEPT ![Key(t)] = Append(@, "run_failed")]
  /\ Leave(t, work[t].source, TRUE)
  /\ UNCHANGED <<jobs, history>>

\* The transaction of the except clause raises: the run stays running.
RecordFails(t) ==
  /\ pc[t] = "failing"
  /\ Leave(t, work[t].source, TRUE)
  /\ broken' = broken \cup {Key(t)}
  /\ UNCHANGED <<database, written>>

-----------------------------------------------------------------------------
(* ARQ                                                                     *)

\* job_timeout, shutdown or a crash.
Cancel(t) ==
  /\ pc[t] # "idle"
  /\ End(t)
  /\ work' = [work EXCEPT ![t] = Idle]
  /\ broken' = IF Executing(t) THEN broken \cup {Key(t)} ELSE broken
  /\ UNCHANGED <<database, written>>

-----------------------------------------------------------------------------

Init ==
  /\ runs = [k \in Keys |-> None]
  /\ events = [k \in Keys |-> <<>>]
  /\ jobs = [j \in Jobs |-> None]
  /\ pc = [t \in Tasks |-> "idle"]
  /\ tick = [t \in Tasks |-> None]
  /\ todo = [t \in Tasks |-> {}]
  /\ failed = [t \in Tasks |-> {}]
  /\ work = [t \in Tasks |-> Idle]
  /\ written = [k \in Keys |-> {}]
  /\ broken = {}

\* What a task does once it runs.
Runs(t) ==
  \/ Claim(t) \/ ClaimFails(t)
  \/ Mark(t) \/ MarkFails(t)
  \/ Unavailable(t) \/ Unusable(t) \/ Fetched(t)
  \/ Store(t) \/ StoreFails(t)
  \/ Complete(t)
  \/ RecordFailure(t) \/ RecordFails(t)
  \/ Refresh(t)

Next == \E t \in Tasks : Begin(t) \/ Runs(t) \/ Cancel(t)

Spec == Init /\ [][Next]_vars

\* The event loop resumes every task, and requests and transactions end, with
\* an error at the latest by their timeouts.
FairSpec == Spec /\ \A t \in Tasks : WF_vars(Runs(t))

-----------------------------------------------------------------------------

TypeOK ==
  /\ runs \in [Keys -> RunRow \cup {None}]
  /\ events \in [Keys -> Seq({"run_started", "batch_discovered", "run_completed", "run_failed"})]
  /\ jobs \in [Jobs -> Texts \cup {None}]
  /\ pc \in [Tasks -> {"idle", "claiming", "marking", "fetching", "storing", "failing",
                       "refresh"}]
  /\ tick \in [Tasks -> Minutes \cup {None}]
  /\ todo \in [Tasks -> SUBSET Sources]
  /\ failed \in [Tasks -> SUBSET Sources]
  /\ work \in [Tasks -> Work]
  /\ written \in [Keys -> SUBSET Jobs]
  /\ broken \subseteq Keys

\* A run has one task at most, although the cycles of one minute share their keys,
\* and so do all the tasks that name a source.
OneExecutor ==
  \A t, u \in Tasks : Executing(t) /\ Executing(u) /\ Key(t) = Key(u) => t = u

EventsOf(row) ==
  IF row = None THEN <<>>
  ELSE CASE row.status = "pending"   -> <<>>
         [] row.status = "running"   -> <<"run_started">>
         [] row.status = "completed" -> <<"run_started", "batch_discovered", "run_completed">>
         [] row.status = "failed"    -> <<"run_started", "run_failed">>

\* The event log is the one that leads to the status, and the counts of a run
\* are true: of a completed run every posting was upserted or skipped, and a
\* failed one has written exactly the jobs it reports, however far it got.
RowsTellTheTruth ==
  \A k \in Keys :
    /\ events[k] = EventsOf(runs[k])
    /\ Finished(k) =>
         /\ runs[k].upserted = Cardinality(written[k])
         /\ runs[k].upserted + runs[k].skipped <= runs[k].discovered
         /\ runs[k].status = "completed" =>
              runs[k].discovered = runs[k].upserted + runs[k].skipped

\* A run that no other run of its source overlapped while storing leaves every
\* posting it fetched in the table as it was fetched.
LoneRunIsFresh ==
  \A t \in Tasks :
    pc[t] = "storing" /\ work[t].left = {} /\ work[t].lone =>
      \A j \in DOMAIN work[t].batch : jobs[j] = work[t].batch[j]

\* When a cycle asks for the refresh, each of its sources was discovered, has
\* been counted as a failure, or lost its task; a run that is still going on
\* is another task's, whose cycle will ask for a refresh of its own.
RefreshSeesWork ==
  \A t \in Tasks : pc[t] = "refresh" =>
    \A s \in Listed :
      \/ s \in failed[t]
      \/ Finished(KeyOf(t, s))
      \/ KeyOf(t, s) \in broken
      \/ \E u \in Tasks \ {t} : IsCycle(u) /\ Executing(u) /\ Key(u) = KeyOf(t, s)

\* A run that was created ends, as completed or failed, unless its task is
\* cancelled or the transaction that marks it as running or failed is lost.
RunsEnd == \A k \in Keys : runs[k] # None ~> (Finished(k) \/ k \in broken)

\* The key of a run is taken up once, and its row ends with the number of
\* jobs that were written under it.
Phase(k) == IF runs[k] = None THEN "free" ELSE IF Finished(k) THEN "closed" ELSE "held"

Once == INSTANCE KeyedOnce WITH
  Items <- Jobs,
  Size <- Cardinality,
  Nothing <- 0,
  phase <- [k \in Keys |-> Phase(k)],
  done <- written,
  report <- [k \in Keys |-> IF Finished(k) THEN runs[k].upserted ELSE 0]

RunsOnce == Once!Spec

=============================================================================
