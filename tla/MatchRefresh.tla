---------------------------- MODULE MatchRefresh ----------------------------
(***************************************************************************)
(* The matches table and the API requests that fill it: refresh, search    *)
(* and refresh-all.  A request reads profiles and jobs first and then      *)
(* inserts one row after the other, all in one transaction; a row that     *)
(* another open transaction has inserted makes it wait for that one's end. *)
(* The worker changes the jobs meanwhile, the human the profiles.          *)
(*                                                                         *)
(* Requests take the jobs in the order of discovered_at, which is written  *)
(* once, when the job is inserted, and need not differ between two jobs:   *)
(* no constraint says so, and all jobs of the seeds have the same.         *)
(***************************************************************************)
EXTENDS Naturals

CONSTANTS
  Requests,    \* API requests, each served once
  Jobs,        \* ids of the jobs there may be
  Times,       \* values of discovered_at
  Contents,    \* what a match reads of a job
  Profiles,    \* ids of candidate profiles
  MaxVersion,  \* bound on the versions of a profile
  Settings,    \* values of MatchConstraints
  Default,     \* MatchConstraints()
  None

ASSUME TimesAreNumbers == Times \subseteq Nat
ASSUME BoundIsNumber == MaxVersion \in Nat
ASSUME DefaultIsSetting == Default \in Settings

VARIABLES
  job,      \* jobs: the content of each, None for a job not yet discovered
  discovered_at,  \* jobs: when each was discovered, or will be
  version,  \* candidate_profiles: the latest version of each, 0 for none
  match,    \* matches: the committed rows
  pc,       \* where a request is
  kind,     \* the order in which it takes the jobs
  view,     \* the profile versions and settings it scores for
  read,     \* the inputs it has computed from what it read
  todo,     \* those it has not come to
  at,       \* the row it is inserting, or None
  created,  \* the rows it has inserted and counts as created
  existing, \* the rows it has found and counts as existing
  quiet     \* history: nothing it reads was written since it began to read

tables == <<job, discovered_at, version>>
local  == <<view, read, todo, at, created, existing>>
vars   == <<tables, match, pc, kind, local, quiet>>

-----------------------------------------------------------------------------

View == [profile : Profiles, version : 1..MaxVersion, settings : Settings]

\* The columns of uq_match_input: what input_fingerprint covers, in full.
Input == [job : Jobs, content : Contents, profile : Profiles, version : 1..MaxVersion,
          settings : Settings]

ASSUME NoneIsNothing == None \notin Contents \cup Input

\* fingerprint_inputs: equal for equal inputs and for no others.
InputOf(j, content, v) ==
  [job |-> j, content |-> content, profile |-> v.profile, version |-> v.version,
   settings |-> v.settings]

Stored == {j \in Jobs : job[j] # None}

\* A request whose transaction is open.
Open(r) == pc[r] \in {"reading", "scoring"}

\* Mutant: no unique constraint, no one waits.
NeverHolds(s, k) == FALSE

\* The request has an uncommitted row with this key.
Holds(s, k) == Open(s) /\ k \in created[s]

WaitsFor(r, s) == pc[r] = "scoring" /\ at[r] # None /\ r # s /\ Holds(s, at[r])

-----------------------------------------------------------------------------
(* The rest of the system                                                  *)

Disturbed == quiet' = [r \in Requests |-> FALSE]

\* upsert_job of the worker: a new job, or new content for a known one.
StoreJob(j, content) ==
  /\ job[j] # content
  /\ job' = [job EXCEPT ![j] = content]
  /\ Disturbed
  /\ UNCHANGED <<discovered_at, version, match, pc, kind, local>>

\* A new version of a profile.
SaveProfile(p) ==
  /\ version[p] < MaxVersion
  /\ version' = [version EXCEPT ![p] = @ + 1]
  /\ Disturbed
  /\ UNCHANGED <<job, discovered_at, match, pc, kind, local>>

-----------------------------------------------------------------------------
(* What a request reads                                                    *)

Begins(r, what, views) ==
  /\ pc[r] = "idle"
  /\ pc' = [pc EXCEPT ![r] = "reading"]
  /\ kind' = [kind EXCEPT ![r] = what]
  /\ view' = [view EXCEPT ![r] = views]
  /\ quiet' = [quiet EXCEPT ![r] = TRUE]
  /\ UNCHANGED <<tables, match, read, todo, at, created, existing>>

\* Mutant: a profile without a version is taken for version 0.
ViewsFromZero(p, settings) ==
  {[profile |-> p, version |-> n, settings |-> settings] : n \in 0..version[p]}

Views(p, settings) ==
  {[profile |-> p, version |-> n, settings |-> settings] : n \in 1..version[p]}

\* POST /matches/refresh, with the constraints of its body, and POST
\* /jobs/search, with those of the latest preferences: for the named or the
\* latest version of one profile.
NewestFirstReads(r, p) ==
  \E settings \in Settings : \E v \in Views(p, settings) : Begins(r, "newest first", {v})

\* POST /matches/refresh-all: every profile at its latest version.
RefreshAllReads(r) ==
  Begins(r, "all", {[profile |-> p, version |-> version[p], settings |-> Default] :
                      p \in {q \in Profiles : version[q] > 0}})

\* Mutant: jobs that already have a row for the version are left out.
UnscoredJobs(r) ==
  {j \in Stored : \A v \in view[r] : \A m \in match :
     ~(m.job = j /\ m.profile = v.profile /\ m.version = v.version)}

AllJobs(r) == Stored

\* Which jobs: those of job_ids if given (404 if one is missing), those that
\* meet the keywords and the salary of a search, all for refresh-all.
ReadsJobs(r, js) ==
  /\ pc[r] = "reading"
  /\ js \subseteq Stored
  /\ kind[r] = "all" => js = AllJobs(r)
  /\ read' = [read EXCEPT ![r] = {InputOf(j, job[j], v) : j \in js, v \in view[r]}]
  /\ todo' = [todo EXCEPT ![r] = read'[r]]
  /\ pc' = [pc EXCEPT ![r] = "scoring"]
  /\ UNCHANGED <<tables, match, kind, view, at, created, existing, quiet>>

-----------------------------------------------------------------------------
(* _score_jobs_for_profile and upsert_match: one row after the other       *)

\* Mutant: the jobs of a refresh are not ordered.
AnyJob(r, k) == k \in todo[r]

\* ORDER BY discovered_at DESC, with equal ones in any order, except for
\* refresh-all: it has no ORDER BY, and finishes a profile before it turns to
\* the next.
MayBeNext(r, k) ==
  /\ k \in todo[r]
  /\ IF kind[r] = "all"
     THEN \A m \in read[r] \ todo[r] :
            m.profile # k.profile => \A n \in todo[r] : n.profile # m.profile
     ELSE \A m \in todo[r] : discovered_at[m.job] <= discovered_at[k.job]

Starts(r, k) ==
  /\ pc[r] = "scoring" /\ at[r] = None
  /\ MayBeNext(r, k)
  /\ at' = [at EXCEPT ![r] = k]
  /\ todo' = [todo EXCEPT ![r] = @ \ {k}]
  /\ UNCHANGED <<tables, match, pc, kind, view, read, created, existing, quiet>>

\* INSERT ... ON CONFLICT DO NOTHING with rowcount 1, and the SELECT.
Inserts(r) ==
  /\ pc[r] = "scoring" /\ at[r] # None
  /\ \A s \in Requests : ~WaitsFor(r, s)
  /\ at[r] \notin match
  /\ created' = [created EXCEPT ![r] = @ \cup {at[r]}]
  /\ at' = [at EXCEPT ![r] = None]
  /\ UNCHANGED <<tables, match, pc, kind, view, read, todo, existing, quiet>>

\* Mutant: a row that is not yet committed will do.
SeenAnywhere(r) == at[r] \in match \/ \E s \in Requests : WaitsFor(r, s)

Seen(r) == at[r] \in match

\* The same with rowcount 0: the SELECT finds the row of another request.
FindsExisting(r) ==
  /\ pc[r] = "scoring" /\ at[r] # None
  /\ Seen(r)
  /\ existing' = [existing EXCEPT ![r] = @ \cup {at[r]}]
  /\ at' = [at EXCEPT ![r] = None]
  /\ UNCHANGED <<tables, match, pc, kind, view, read, todo, created, quiet>>

\* The answer, with its counts, and the COMMIT of get_db.
Commits(r) ==
  /\ pc[r] = "scoring" /\ at[r] = None /\ todo[r] = {}
  /\ match' = match \cup created[r]
  /\ pc' = [pc EXCEPT ![r] = "done"]
  /\ view' = [view EXCEPT ![r] = {}]
  /\ UNCHANGED <<tables, kind, read, todo, at, created, existing, quiet>>

Undo(r) ==
  /\ pc' = [pc EXCEPT ![r] = "failed"]
  /\ kind' = [kind EXCEPT ![r] = None]
  /\ view' = [view EXCEPT ![r] = {}]
  /\ read' = [read EXCEPT ![r] = {}]
  /\ todo' = [todo EXCEPT ![r] = {}]
  /\ at' = [at EXCEPT ![r] = None]
  /\ created' = [created EXCEPT ![r] = {}]
  /\ existing' = [existing EXCEPT ![r] = {}]
  /\ quiet' = [quiet EXCEPT ![r] = FALSE]
  /\ UNCHANGED <<tables, match>>

\* A lost connection or a killed server.  A caller that gives up, like the
\* scheduler after its 60 s, does not stop the request.
RollsBack(r) == Open(r) /\ Undo(r)

Deadlocked(R) == R # {} /\ \A r \in R : \E s \in R : WaitsFor(r, s)

\* The members of R wait for each other in a circle.
Circle(R) == Deadlocked(R) /\ \A Q \in SUBSET R : Deadlocked(Q) => Q = R

\* PostgreSQL finds a circle after deadlock_timeout and aborts a member.
IsVictim(r) ==
  /\ \E R \in SUBSET Requests : r \in R /\ Circle(R)
  /\ Undo(r)

-----------------------------------------------------------------------------

Init ==
  /\ job = [j \in Jobs |-> None]
  /\ discovered_at \in [Jobs -> Times]
  /\ version = [p \in Profiles |-> 0]
  /\ match = {}
  /\ pc = [r \in Requests |-> "idle"]
  /\ kind = [r \in Requests |-> None]
  /\ view = [r \in Requests |-> {}]
  /\ read = [r \in Requests |-> {}]
  /\ todo = [r \in Requests |-> {}]
  /\ at = [r \in Requests |-> None]
  /\ created = [r \in Requests |-> {}]
  /\ existing = [r \in Requests |-> {}]
  /\ quiet = [r \in Requests |-> FALSE]

\* What the database and the event loop do for an open request.
Serves(r) ==
  \/ \E js \in SUBSET Jobs : ReadsJobs(r, js)
  \/ \E k \in todo[r] : Starts(r, k)
  \/ Inserts(r)
  \/ FindsExisting(r)
  \/ Commits(r)
  \/ IsVictim(r)

Next ==
  \/ \E j \in Jobs, c \in Contents : StoreJob(j, c)
  \/ \E p \in Profiles : SaveProfile(p)
  \/ \E r \in Requests :
       \/ \E p \in Profiles : NewestFirstReads(r, p)
       \/ RefreshAllReads(r)
       \/ Serves(r)
       \/ RollsBack(r)

Spec == Init /\ [][Next]_vars

-----------------------------------------------------------------------------

TypeOK ==
  /\ job \in [Jobs -> Contents \cup {None}]
  /\ discovered_at \in [Jobs -> Times]
  /\ version \in [Profiles -> 0..MaxVersion]
  /\ match \subseteq Input
  /\ pc \in [Requests -> {"idle", "reading", "scoring", "done", "failed"}]
  /\ kind \in [Requests -> {"newest first", "all", None}]
  /\ view \in [Requests -> SUBSET View]
  /\ read \in [Requests -> SUBSET Input]
  /\ todo \in [Requests -> SUBSET Input]
  /\ at \in [Requests -> Input \cup {None}]
  /\ created \in [Requests -> SUBSET Input]
  /\ existing \in [Requests -> SUBSET Input]
  /\ quiet \in [Requests -> BOOLEAN]

\* The counts of the answers add up: every row of the table was counted as
\* created by one request, and a request that failed has left none.
CreatedOnce ==
  /\ match = UNION {created[r] : r \in {s \in Requests : pc[s] = "done"}}
  /\ \A r, s \in Requests : r # s => created[r] \cap created[s] = {}

\* An answer counts every input it read, and as existing only rows that are
\* committed, whoever else was inserting them.
AnswersAreTrue ==
  \A r \in Requests :
    /\ existing[r] \subseteq match
    /\ pc[r] = "done" => created[r] \cup existing[r] = read[r]

\* When nothing was written since a refresh-all began to read, its commit
\* leaves a row for the present content of every job and the latest version
\* of every profile.
QuietRefreshIsComplete ==
  \A r \in Requests : pc[r] = "done" /\ kind[r] = "all" /\ quiet[r] =>
    \A j \in Stored, p \in Profiles : version[p] > 0 =>
      InputOf(j, job[j], [profile |-> p, version |-> version[p], settings |-> Default]) \in match

\* Requests that take the jobs newest first wait in a circle only at jobs that
\* were discovered at the same time: every other deadlock has a refresh-all
\* in it.
DeadlockNeedsATie ==
  \A R \in SUBSET Requests : Deadlocked(R) =>
    \/ \E r \in R : kind[r] = "all"
    \/ \E r, s \in R : /\ at[r].job # at[s].job
                       /\ discovered_at[at[r].job] = discovered_at[at[s].job]

=============================================================================
