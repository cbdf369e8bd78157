------------------------- MODULE MatchRefreshProofs -------------------------
(***************************************************************************)
(* For every number of requests, jobs and profiles: the counts of the      *)
(* answers are true, a quiet refresh-all is complete, and requests that    *)
(* take the jobs newest first deadlock only at jobs of the same time.      *)
(*                                                                         *)
(* ReqInv is what a request knows.  The others disturb it only by          *)
(* committing rows and by writing jobs and profiles, and the second makes  *)
(* an end of its `quiet`.                                                  *)
(*                                                                         *)
(* Then, for every posting and profile: a score is a percentage that its   *)
(* evidence adds up to, more of a profile never lowers it, and more places *)
(* listed never exclude a posting.                                         *)
(***************************************************************************)
EXTENDS MatchRefresh, MatchEngine, TLAPS, WellFoundedInduction, FiniteSetTheorems

\* The first conjunct of CreatedOnce, and the second.
TableIsCreated == match = UNION {created[r] : r \in {s \in Requests : pc[s] = "done"}}

NoRowTwice == \A r, s \in Requests : r # s => created[r] \cap created[s] = {}

\* A request that has begun has its order; one that has read no inputs has
\* done nothing with them.
EmptyInv(r) ==
  /\ pc[r] \in {"reading", "scoring", "done"} => kind[r] \in {"newest first", "all"}
  /\ pc[r] \in {"idle", "reading", "failed"} =>
       /\ read[r] = {} /\ todo[r] = {} /\ at[r] = None
       /\ created[r] = {} /\ existing[r] = {}

\* Every input is still to do, being inserted, created or existing.
PartsInv(r) ==
  /\ pc[r] \in {"scoring", "done"} =>
       read[r] = todo[r] \cup created[r] \cup existing[r] \cup ({at[r]} \ {None})
  /\ pc[r] = "done" => todo[r] = {} /\ at[r] = None

ExistingInv(r) == existing[r] \subseteq match

\* No row is created before its turn, or twice.
TurnsInv(r) ==
  /\ todo[r] \cap created[r] = {}
  /\ at[r] \notin todo[r] \cup created[r]

NotNewer(m, k) == discovered_at[m.job] <= discovered_at[k.job]

\* Newest first: what is to do is not newer than what is being inserted, and
\* that is not newer than what has been created.
OrderInv(r) ==
  kind[r] = "newest first" =>
    /\ \A v, w \in view[r] : v = w
    /\ \A k, m \in read[r] : k.job = m.job => k = m
    /\ \A m \in todo[r] :
         /\ at[r] # None => NotNewer(m, at[r])
         /\ \A k \in created[r] : NotNewer(m, k)
    /\ at[r] # None => \A k \in created[r] : NotNewer(at[r], k)

\* What a refresh-all reads while nothing is written.
LatestViews ==
  {[profile |-> p, version |-> version[p], settings |-> Default] :
     p \in {q \in Profiles : version[q] > 0}}

LatestInputs == {InputOf(j, job[j], v) : j \in Stored, v \in LatestViews}

QuietInv(r) ==
  quiet[r] /\ kind[r] = "all" =>
    /\ pc[r] = "reading" => view[r] = LatestViews
    /\ pc[r] \in {"scoring", "done"} => read[r] = LatestInputs

ReqInv(r) ==
  EmptyInv(r) /\ PartsInv(r) /\ ExistingInv(r) /\ TurnsInv(r) /\ OrderInv(r) /\ QuietInv(r)

IInv ==
  /\ TypeOK
  /\ TableIsCreated
  /\ NoRowTwice
  /\ \A r \in Requests : ReqInv(r)

\* The step leaves a request as it is.
SameRequest(r) ==
  /\ pc'[r] = pc[r] /\ kind'[r] = kind[r] /\ view'[r] = view[r] /\ read'[r] = read[r]
  /\ todo'[r] = todo[r] /\ at'[r] = at[r] /\ created'[r] = created[r]
  /\ existing'[r] = existing[r]

-----------------------------------------------------------------------------

\* What somebody else does leaves what a request knows, if it only adds rows
\* to the table, and writes jobs and profiles at the price of `quiet`.
LEMMA SameRequestKeeps ==
  ASSUME IInv, NEW r \in Requests, SameRequest(r), match \subseteq match',
         discovered_at' = discovered_at,
         \/ quiet'[r] = FALSE
         \/ quiet'[r] = quiet[r] /\ UNCHANGED tables
  PROVE  ReqInv(r)'
  <1>1. ReqInv(r)
    BY DEF IInv
  <1>2. EmptyInv(r)' /\ PartsInv(r)' /\ ExistingInv(r)' /\ TurnsInv(r)'
    BY <1>1 DEF ReqInv, EmptyInv, PartsInv, ExistingInv, TurnsInv, SameRequest
  <1>3. OrderInv(r)'
    BY <1>1 DEF ReqInv, OrderInv, NotNewer, SameRequest
  <1>4. QuietInv(r)'
    <2>1. CASE quiet'[r] = FALSE
      BY <2>1 DEF QuietInv
    <2>2. CASE quiet'[r] = quiet[r] /\ UNCHANGED tables
      <3>1. LatestViews' = LatestViews /\ LatestInputs' = LatestInputs
        BY <2>2 DEF tables, LatestViews, LatestInputs, Stored
      <3>q. QED
        BY <1>1, <2>2, <3>1 DEF ReqInv, QuietInv, SameRequest
    <2>q. QED
      BY <2>1, <2>2
  <1>q. QED
    BY <1>2, <1>3, <1>4 DEF ReqInv

\* What is left to show of a step of one request.
LEMMA RequestStepKeeps ==
  ASSUME IInv, NEW r \in Requests, UNCHANGED tables, match \subseteq match',
         \A s \in Requests \ {r} : SameRequest(s) /\ quiet'[s] = quiet[s],
         TypeOK',
         TableIsCreated',
         NoRowTwice',
         ReqInv(r)'
  PROVE  IInv'
  <1>1. ASSUME NEW s \in Requests PROVE ReqInv(s)'
    <2>1. CASE s = r
      BY <2>1
    <2>2. CASE s # r
      BY <2>2, SameRequestKeeps DEF tables
    <2>q. QED
      BY <2>1, <2>2
  <1>q. QED
    BY <1>1 DEF IInv

\* A step of an open request that neither commits nor creates a row.
LEMMA CreatesNothingKeeps ==
  ASSUME IInv, NEW r \in Requests, UNCHANGED <<tables, match>>,
         \A s \in Requests \ {r} : SameRequest(s) /\ quiet'[s] = quiet[s],
         pc[r] # "done",
         pc'[r] # "done",
         created'[r] \subseteq created[r],
         TypeOK',
         ReqInv(r)'
  PROVE  IInv'
  <1>1. TableIsCreated'
    <2>1. {s \in Requests : pc'[s] = "done"} = {s \in Requests : pc[s] = "done"}
      BY DEF SameRequest
    <2>2. \A s \in {q \in Requests : pc[q] = "done"} : created'[s] = created[s]
      BY DEF SameRequest
    <2>q. QED
      BY <2>1, <2>2 DEF IInv, TableIsCreated
  <1>2. NoRowTwice'
    <2>1. \A s \in Requests : created'[s] \subseteq created[s]
      BY DEF SameRequest
    <2>q. QED
      BY <2>1 DEF IInv, NoRowTwice
  <1>q. QED
    BY <1>1, <1>2, RequestStepKeeps

-----------------------------------------------------------------------------
(* The steps                                                               *)

LEMMA WritesKeep ==
  ASSUME IInv,
         \/ \E j \in Jobs, c \in Contents : StoreJob(j, c)
         \/ \E p \in Profiles : SaveProfile(p)
  PROVE  IInv'
  <1>1. /\ UNCHANGED <<discovered_at, match, pc, kind, local>>
        /\ quiet' = [r \in Requests |-> FALSE]
    BY DEF StoreJob, SaveProfile, Disturbed
  <1>2. job' \in [Jobs -> Contents \cup {None}] /\ version' \in [Profiles -> 0..MaxVersion]
    <2>1. CASE \E j \in Jobs, c \in Contents : StoreJob(j, c)
      BY <2>1 DEF StoreJob, IInv, TypeOK
    <2>2. ASSUME NEW p \in Profiles, SaveProfile(p)
          PROVE  job' = job /\ version' \in [Profiles -> 0..MaxVersion]
      <3>1. version[p] + 1 \in 0..MaxVersion /\ version' = [version EXCEPT ![p] = version[p] + 1]
        <4>1. version[p] \in 0..MaxVersion /\ version[p] < MaxVersion
          BY <2>2 DEF SaveProfile, IInv, TypeOK
        <4>2. version[p] + 1 \in 0..MaxVersion
          BY <4>1, BoundIsNumber
        <4>q. QED
          BY <2>2, <4>2 DEF SaveProfile
      <3>q. QED
        BY <2>2, <3>1 DEF SaveProfile, IInv, TypeOK
    <2>q. QED
      BY <2>1, <2>2 DEF IInv, TypeOK
  <1>3. TypeOK'
    BY <1>1, <1>2 DEF IInv, TypeOK, local
  <1>4. TableIsCreated' /\ NoRowTwice'
    BY <1>1 DEF IInv, TableIsCreated, NoRowTwice, local
  <1>5. ASSUME NEW r \in Requests PROVE ReqInv(r)'
    BY <1>1, SameRequestKeeps DEF SameRequest, local
  <1>q. QED
    BY <1>3, <1>4, <1>5 DEF IInv

LEMMA BeginsKeeps ==
  ASSUME IInv, NEW r \in Requests, NEW what \in {"newest first", "all"}, NEW views,
         Begins(r, what, views),
         views \subseteq View,
         what = "newest first" => \A v, w \in views : v = w,
         what = "all" => views = LatestViews
  PROVE  IInv'
  <1>1. /\ pc[r] = "idle"
        /\ pc' = [pc EXCEPT ![r] = "reading"]
        /\ kind' = [kind EXCEPT ![r] = what]
        /\ view' = [view EXCEPT ![r] = views]
        /\ quiet' = [quiet EXCEPT ![r] = TRUE]
        /\ UNCHANGED <<tables, match, read, todo, at, created, existing>>
    BY DEF Begins
  <1>2. TypeOK'
    BY <1>1 DEF IInv, TypeOK, tables
  <1>3. /\ pc'[r] = "reading" /\ kind'[r] = what /\ view'[r] = views
        /\ \A s \in Requests \ {r} : SameRequest(s) /\ quiet'[s] = quiet[s]
    BY <1>1 DEF IInv, TypeOK, SameRequest
  <1>4. /\ read'[r] = {} /\ todo'[r] = {} /\ at'[r] = None
        /\ created'[r] = {} /\ existing'[r] = {}
    BY <1>1 DEF IInv, ReqInv, EmptyInv
  <1>5. LatestViews' = LatestViews
    BY <1>1 DEF tables, LatestViews
  <1>6. ReqInv(r)'
    BY <1>3, <1>4, <1>5
    DEF ReqInv, EmptyInv, PartsInv, ExistingInv, TurnsInv, OrderInv, QuietInv
  <1>q. QED
    BY <1>1, <1>2, <1>3, <1>6, CreatesNothingKeeps

LEMMA ReadingKeeps ==
  ASSUME IInv, NEW r \in Requests
  PROVE  /\ \A p \in Profiles : NewestFirstReads(r, p) => IInv'
         /\ RefreshAllReads(r) => IInv'
  <1>1. ASSUME NEW p \in Profiles, NEW settings \in Settings, NEW v \in Views(p, settings),
               Begins(r, "newest first", {v})
        PROVE  IInv'
    <2>1. v \in View
      <3>1. PICK n \in 1..version[p] : v = [profile |-> p, version |-> n, settings |-> settings]
        BY DEF Views
      <3>2. version[p] \in 0..MaxVersion
        BY DEF IInv, TypeOK
      <3>3. n \in 1..MaxVersion
        BY <3>1, <3>2, BoundIsNumber
      <3>q. QED
        BY <3>1, <3>3 DEF View
    <2>q. QED
      BY <1>1, <2>1, BeginsKeeps
  <1>2. ASSUME RefreshAllReads(r) PROVE IInv'
    <2>1. Begins(r, "all", LatestViews)
      BY <1>2 DEF RefreshAllReads, LatestViews
    <2>2. LatestViews \subseteq View
      <3> SUFFICES ASSUME NEW p \in Profiles, version[p] > 0
                   PROVE  [profile |-> p, version |-> version[p], settings |-> Default] \in View
        BY DEF LatestViews
      <3>1. version[p] \in 0..MaxVersion
        BY DEF IInv, TypeOK
      <3>2. version[p] \in 1..MaxVersion
        BY <3>1, BoundIsNumber
      <3>q. QED
        BY <3>2, DefaultIsSetting DEF View
    <2>q. QED
      BY <2>1, <2>2, BeginsKeeps
  <1>q. QED
    BY <1>1, <1>2 DEF NewestFirstReads

LEMMA ReadsJobsKeeps ==
  ASSUME IInv, NEW r \in Requests, NEW js \in SUBSET Jobs, ReadsJobs(r, js)
  PROVE  IInv'
  <1> DEFINE inputs == {InputOf(j, job[j], v) : j \in js, v \in view[r]}
  <1>1. /\ pc[r] = "reading" /\ js \subseteq Stored
        /\ kind[r] = "all" => js = Stored
        /\ read' = [read EXCEPT ![r] = inputs]
        /\ todo' = [todo EXCEPT ![r] = read'[r]]
        /\ pc' = [pc EXCEPT ![r] = "scoring"]
        /\ UNCHANGED <<tables, match, kind, view, at, created, existing, quiet>>
    BY DEF ReadsJobs, AllJobs
  <1>2. inputs \subseteq Input
    <2> SUFFICES ASSUME NEW j \in js, NEW v \in view[r] PROVE InputOf(j, job[j], v) \in Input
      OBVIOUS
    <2>1. j \in Jobs /\ job[j] \in Contents
      BY <1>1 DEF Stored, IInv, TypeOK
    <2>2. v \in View
      BY DEF IInv, TypeOK
    <2>q. QED
      BY <2>1, <2>2 DEF InputOf, Input, View
  <1>6. \A k \in inputs : \E j \in js, v \in view[r] : k = InputOf(j, job[j], v)
    OBVIOUS
  <1>7. quiet[r] /\ kind[r] = "all" => inputs = LatestInputs'
    <2>1. LatestInputs' = LatestInputs
      BY <1>1 DEF tables, LatestInputs, LatestViews, Stored
    <2>q. QED
      BY <1>1, <2>1 DEF IInv, ReqInv, QuietInv, LatestInputs
  <1> HIDE DEF inputs
  <1>3. /\ read'[r] = inputs /\ todo'[r] = inputs /\ pc'[r] = "scoring"
        /\ kind'[r] = kind[r] /\ quiet'[r] = quiet[r] /\ view'[r] = view[r]
        /\ \A s \in Requests \ {r} : SameRequest(s) /\ quiet'[s] = quiet[s]
    BY <1>1 DEF IInv, TypeOK, SameRequest
  <1>4. TypeOK'
    BY <1>1, <1>2, <1>3 DEF IInv, TypeOK, tables
  <1>5. at'[r] = None /\ created'[r] = {} /\ existing'[r] = {}
    BY <1>1 DEF IInv, ReqInv, EmptyInv
  <1>8. EmptyInv(r)' /\ PartsInv(r)' /\ ExistingInv(r)' /\ TurnsInv(r)'
    BY <1>1, <1>2, <1>3, <1>5, NoneIsNothing
    DEF EmptyInv, PartsInv, ExistingInv, TurnsInv, IInv, ReqInv
  <1>9. OrderInv(r)'
    <2> SUFFICES ASSUME kind[r] = "newest first", NEW k \in inputs, NEW m \in inputs, k.job = m.job
                 PROVE  k = m
      BY <1>3, <1>5 DEF IInv, ReqInv, OrderInv
    <2>1. PICK i \in js, v \in view[r] : k = InputOf(i, job[i], v)
      BY <1>6
    <2>2. PICK j \in js, w \in view[r] : m = InputOf(j, job[j], w)
      BY <1>6
    <2>3. v = w
      BY DEF IInv, ReqInv, OrderInv
    <2>4. i = j
      BY <2>1, <2>2 DEF InputOf
    <2>q. QED
      BY <2>1, <2>2, <2>3, <2>4
  <1>10. QuietInv(r)'
    BY <1>3, <1>7 DEF QuietInv
  <1>q. QED
    BY <1>1, <1>3, <1>4, <1>5, <1>8, <1>9, <1>10, CreatesNothingKeeps DEF ReqInv

LEMMA StartsKeeps ==
  ASSUME IInv, NEW r \in Requests, NEW k \in todo[r], Starts(r, k)
  PROVE  IInv'
  <1>1. /\ pc[r] = "scoring" /\ at[r] = None
        /\ kind[r] = "newest first" => \A m \in todo[r] : NotNewer(m, k)
        /\ at' = [at EXCEPT ![r] = k]
        /\ todo' = [todo EXCEPT ![r] = @ \ {k}]
        /\ UNCHANGED <<tables, match, pc, kind, view, read, created, existing, quiet>>
    BY DEF Starts, MayBeNext, NotNewer
  <1>2. k \in Input /\ k # None /\ todo[r] \subseteq Input /\ created[r] \subseteq Input
    BY NoneIsNothing DEF IInv, TypeOK
  <1>3. /\ at'[r] = k /\ todo'[r] = todo[r] \ {k}
        /\ pc'[r] = pc[r] /\ kind'[r] = kind[r] /\ view'[r] = view[r] /\ read'[r] = read[r]
        /\ created'[r] = created[r] /\ existing'[r] = existing[r] /\ quiet'[r] = quiet[r]
        /\ \A s \in Requests \ {r} : SameRequest(s) /\ quiet'[s] = quiet[s]
    BY <1>1 DEF IInv, TypeOK, SameRequest
  <1>4. TypeOK'
    BY <1>1, <1>2 DEF IInv, TypeOK, tables
  <1>5. ReqInv(r)
    BY DEF IInv
  <1>6. EmptyInv(r)' /\ PartsInv(r)' /\ ExistingInv(r)' /\ TurnsInv(r)'
    BY <1>1, <1>2, <1>3, <1>5 DEF ReqInv, EmptyInv, PartsInv, ExistingInv, TurnsInv
  <1>7. OrderInv(r)'
    <2>1. \A m, c : NotNewer(m, c)' <=> NotNewer(m, c)
      BY <1>1 DEF NotNewer, tables
    <2> QED
      BY <1>1, <1>3, <1>5, <2>1 DEF ReqInv, OrderInv
  <1>8. QuietInv(r)'
    BY <1>1, <1>3, <1>5 DEF ReqInv, QuietInv, LatestInputs, LatestViews, Stored, tables
  <1>q. QED
    BY <1>1, <1>3, <1>4, <1>6, <1>7, <1>8, CreatesNothingKeeps DEF ReqInv

LEMMA InsertsKeeps ==
  ASSUME IInv, NEW r \in Requests, Inserts(r)
  PROVE  IInv'
  <1>1. /\ pc[r] = "scoring" /\ at[r] # None
        /\ \A s \in Requests : ~WaitsFor(r, s)
        /\ at[r] \notin match
        /\ created' = [created EXCEPT ![r] = created[r] \cup {at[r]}]
        /\ at' = [at EXCEPT ![r] = None]
        /\ UNCHANGED <<tables, match, pc, kind, view, read, todo, existing, quiet>>
    BY DEF Inserts, IInv, TypeOK
  <1>2. at[r] \in Input
    BY <1>1 DEF IInv, TypeOK
  <1>3. /\ at'[r] = None /\ created'[r] = created[r] \cup {at[r]}
        /\ pc'[r] = pc[r] /\ kind'[r] = kind[r] /\ view'[r] = view[r] /\ read'[r] = read[r]
        /\ todo'[r] = todo[r] /\ existing'[r] = existing[r] /\ quiet'[r] = quiet[r]
        /\ \A s \in Requests \ {r} : SameRequest(s) /\ quiet'[s] = quiet[s]
    BY <1>1 DEF IInv, TypeOK, SameRequest
  <1>4. TypeOK'
    BY <1>1, <1>2 DEF IInv, TypeOK, tables
  <1>5. ReqInv(r)
    BY DEF IInv
  <1>6. EmptyInv(r)' /\ PartsInv(r)' /\ ExistingInv(r)' /\ TurnsInv(r)' /\ OrderInv(r)'
    <2>1. EmptyInv(r)' /\ PartsInv(r)' /\ ExistingInv(r)'
      BY <1>1, <1>3, <1>5 DEF ReqInv, EmptyInv, PartsInv, ExistingInv
    <2>2. TurnsInv(r)'
      <3>1. None \notin Input /\ todo[r] \subseteq Input /\ created'[r] \subseteq Input
        BY <1>2, <1>3, NoneIsNothing DEF IInv, TypeOK
      <3>q. QED
        BY <1>3, <1>5, <3>1 DEF ReqInv, TurnsInv
    <2>3. \A m, c : NotNewer(m, c)' <=> NotNewer(m, c)
      BY <1>1 DEF NotNewer, tables
    <2>4. OrderInv(r)'
      BY <1>1, <1>3, <1>5, <2>3 DEF ReqInv, OrderInv
    <2> QED
      BY <2>1, <2>2, <2>4
  <1>7. QuietInv(r)'
    BY <1>1, <1>3, <1>5 DEF ReqInv, QuietInv, LatestInputs, LatestViews, Stored, tables
  <1>8. TableIsCreated'
    <2>1. \A s \in {q \in Requests : pc[q] = "done"} : created'[s] = created[s]
      BY <1>1, <1>3 DEF SameRequest
    <2>2. pc' = pc /\ match' = match
      BY <1>1
    <2>q. QED
      BY <2>1, <2>2 DEF IInv, TableIsCreated
  <1>9. ASSUME NEW s \in Requests \ {r} PROVE at[r] \notin created[s]
    <2>1. CASE Open(s)
      BY <1>1, <2>1 DEF WaitsFor, Holds
    <2>2. CASE pc[s] = "done"
      BY <1>1, <2>2 DEF IInv, TableIsCreated
    <2>3. CASE pc[s] \in {"idle", "failed"}
      BY <2>3 DEF IInv, ReqInv, EmptyInv
    <2>q. QED
      BY <2>1, <2>2, <2>3 DEF Open, IInv, TypeOK
  <1>10. NoRowTwice'
    BY <1>3, <1>9 DEF IInv, NoRowTwice, SameRequest
  <1>q. QED
    BY <1>1, <1>3, <1>4, <1>6, <1>7, <1>8, <1>10, RequestStepKeeps DEF ReqInv

LEMMA FindsExistingKeeps ==
  ASSUME IInv, NEW r \in Requests, FindsExisting(r)
  PROVE  IInv'
  <1>1. /\ pc[r] = "scoring" /\ at[r] # None /\ at[r] \in match
        /\ existing' = [existing EXCEPT ![r] = existing[r] \cup {at[r]}]
        /\ at' = [at EXCEPT ![r] = None]
        /\ UNCHANGED <<tables, match, pc, kind, view, read, todo, created, quiet>>
    BY DEF FindsExisting, Seen, IInv, TypeOK
  <1>2. at[r] \in Input
    BY <1>1 DEF IInv, TypeOK
  <1>3. /\ at'[r] = None /\ existing'[r] = existing[r] \cup {at[r]}
        /\ pc'[r] = pc[r] /\ kind'[r] = kind[r] /\ view'[r] = view[r] /\ read'[r] = read[r]
        /\ todo'[r] = todo[r] /\ created'[r] = created[r] /\ quiet'[r] = quiet[r]
        /\ \A s \in Requests \ {r} : SameRequest(s) /\ quiet'[s] = quiet[s]
    BY <1>1 DEF IInv, TypeOK, SameRequest
  <1>4. TypeOK'
    BY <1>1, <1>2 DEF IInv, TypeOK, tables
  <1>5. ReqInv(r)
    BY DEF IInv
  <1>6. EmptyInv(r)' /\ PartsInv(r)' /\ ExistingInv(r)' /\ TurnsInv(r)' /\ OrderInv(r)'
    <2>1. EmptyInv(r)' /\ PartsInv(r)' /\ ExistingInv(r)'
      BY <1>1, <1>3, <1>5 DEF ReqInv, EmptyInv, PartsInv, ExistingInv
    <2>2. TurnsInv(r)'
      <3>1. None \notin Input /\ todo[r] \subseteq Input /\ created'[r] \subseteq Input
        BY <1>2, <1>3, NoneIsNothing DEF IInv, TypeOK
      <3>q. QED
        BY <1>3, <1>5, <3>1 DEF ReqInv, TurnsInv
    <2>3. \A m, c : NotNewer(m, c)' <=> NotNewer(m, c)
      BY <1>1 DEF NotNewer, tables
    <2>4. OrderInv(r)'
      BY <1>1, <1>3, <1>5, <2>3 DEF ReqInv, OrderInv
    <2> QED
      BY <2>1, <2>2, <2>4
  <1>7. QuietInv(r)'
    BY <1>1, <1>3, <1>5 DEF ReqInv, QuietInv, LatestInputs, LatestViews, Stored, tables
  <1>q. QED
    BY <1>1, <1>3, <1>4, <1>6, <1>7, CreatesNothingKeeps DEF ReqInv

LEMMA CommitsKeeps ==
  ASSUME IInv, NEW r \in Requests, Commits(r)
  PROVE  IInv'
  <1>1. /\ pc[r] = "scoring" /\ at[r] = None /\ todo[r] = {}
        /\ match' = match \cup created[r]
        /\ pc' = [pc EXCEPT ![r] = "done"]
        /\ view' = [view EXCEPT ![r] = {}]
        /\ UNCHANGED <<tables, kind, read, todo, at, created, existing, quiet>>
    BY DEF Commits
  <1>2. /\ pc'[r] = "done" /\ view'[r] = {}
        /\ \A s \in Requests \ {r} : SameRequest(s) /\ quiet'[s] = quiet[s]
    BY <1>1 DEF IInv, TypeOK, SameRequest
  <1>3. TypeOK'
    BY <1>1 DEF IInv, TypeOK, tables
  <1>4. ReqInv(r)
    BY DEF IInv
  <1>5. EmptyInv(r)' /\ PartsInv(r)' /\ ExistingInv(r)' /\ TurnsInv(r)'
    BY <1>1, <1>2, <1>4 DEF ReqInv, EmptyInv, PartsInv, ExistingInv, TurnsInv
  <1>6. OrderInv(r)'
    BY <1>1, <1>2, <1>4 DEF ReqInv, OrderInv, NotNewer, tables
  <1>7. QuietInv(r)'
    BY <1>1, <1>2, <1>4 DEF ReqInv, QuietInv, LatestInputs, LatestViews, Stored, tables
  <1>8. TableIsCreated'
    <2>1. {s \in Requests : pc'[s] = "done"} = {s \in Requests : pc[s] = "done"} \cup {r}
      BY <1>1 DEF IInv, TypeOK
    <2>2. created' = created
      BY <1>1
    <2>q. QED
      BY <1>1, <2>1, <2>2 DEF IInv, TableIsCreated
  <1>9. NoRowTwice'
    BY <1>1 DEF IInv, NoRowTwice
  <1>q. QED
    BY <1>1, <1>2, <1>3, <1>5, <1>6, <1>7, <1>8, <1>9, RequestStepKeeps DEF ReqInv

LEMMA UndoKeeps ==
  ASSUME IInv, NEW r \in Requests, Open(r), Undo(r)
  PROVE  IInv'
  <1>1. pc[r] # "done" /\ UNCHANGED <<tables, match>>
    BY DEF Open, Undo
  <1>2. /\ pc'[r] = "failed" /\ kind'[r] = None /\ view'[r] = {} /\ read'[r] = {} /\ todo'[r] = {}
        /\ at'[r] = None /\ created'[r] = {} /\ existing'[r] = {} /\ quiet'[r] = FALSE
    BY DEF Undo, IInv, TypeOK
  <1>3. \A s \in Requests \ {r} : SameRequest(s) /\ quiet'[s] = quiet[s]
    BY DEF Undo, IInv, TypeOK, SameRequest
  <1>4. TypeOK'
    <2>1. /\ UNCHANGED <<tables, match>>
          /\ quiet' \in [Requests -> BOOLEAN]
          /\ pc' \in [Requests -> {"idle", "reading", "scoring", "done", "failed"}]
          /\ kind' \in [Requests -> {"newest first", "all", None}]
      BY DEF Undo, IInv, TypeOK
    <2>2. view' \in [Requests -> SUBSET View] /\ at' \in [Requests -> Input \cup {None}]
      BY DEF Undo, IInv, TypeOK
    <2>3. /\ read' \in [Requests -> SUBSET Input] /\ todo' \in [Requests -> SUBSET Input]
          /\ created' \in [Requests -> SUBSET Input] /\ existing' \in [Requests -> SUBSET Input]
      BY DEF Undo, IInv, TypeOK
    <2>q. QED
      BY <2>1, <2>2, <2>3 DEF IInv, TypeOK, tables
  <1>5. ReqInv(r)'
    BY <1>2, NoneIsNothing
    DEF ReqInv, EmptyInv, PartsInv, ExistingInv, TurnsInv, OrderInv, QuietInv
  <1>q. QED
    BY <1>1, <1>2, <1>3, <1>4, <1>5, CreatesNothingKeeps

-----------------------------------------------------------------------------
(* Deadlocks                                                               *)

\* A non-empty set of numbers has a smallest one.
LEMMA SmallestExists ==
  ASSUME NEW S \in SUBSET Nat, S # {}
  PROVE  \E m \in S : \A n \in S : ~(n < m)
  <1>1. \E m \in S : \A n \in S : ~(<<n, m>> \in OpToRel(<, Nat))
    BY WFMin, NatLessThanWellFounded, Zenon
  <1>q. QED
    BY <1>1, Zenon DEF OpToRel

\* Among requests that take the jobs newest first, look at the one that wants
\* the oldest row.  Who has created that row wants one that is not newer, and
\* another one: that is a tie.
LEMMA OnlyTiesBlock ==
  ASSUME IInv
  PROVE  DeadlockNeedsATie
  <1> SUFFICES ASSUME NEW R \in SUBSET Requests, R # {},
                      \A r \in R : \E s \in R : WaitsFor(r, s),
                      \A r \in R : kind[r] # "all"
               PROVE  \E r, s \in R : /\ at[r].job # at[s].job
                                      /\ discovered_at[at[r].job] = discovered_at[at[s].job]
    BY DEF DeadlockNeedsATie, Deadlocked
  <1> DEFINE time(r) == discovered_at[at[r].job]
  <1>1. ASSUME NEW r \in R
        PROVE  at[r] # None /\ time(r) \in Nat /\ pc[r] = "scoring"
    <2>1. pc[r] = "scoring" /\ at[r] # None
      BY DEF WaitsFor
    <2>2. at[r] \in Input
      BY <2>1 DEF IInv, TypeOK
    <2>3. time(r) \in Times
      BY <2>2 DEF IInv, TypeOK, Input
    <2>q. QED
      BY <2>1, <2>3, TimesAreNumbers
  <1> HIDE DEF time
  <1> DEFINE wanted == {time(r) : r \in R}
  <1>2. wanted \in SUBSET Nat /\ wanted # {}
    BY <1>1
  <1>3. PICK m \in wanted : \A n \in wanted : ~(n < m)
    <2> HIDE DEF wanted
    <2>q. QED
      BY <1>2, SmallestExists
  <1>4. PICK r \in R : m = time(r)
    OBVIOUS
  <1>5. PICK s \in R : WaitsFor(r, s)
    OBVIOUS
  <1>6. at[r] \in created[s]
    BY <1>5 DEF WaitsFor, Holds
  <1>7. kind[s] = "newest first" /\ ReqInv(s)
    BY <1>1 DEF IInv, ReqInv, EmptyInv
  <1>8. time(s) <= time(r)
    BY <1>1, <1>6, <1>7 DEF ReqInv, OrderInv, NotNewer, time
  <1>9. time(s) = time(r)
    <2>1. time(s) \in Nat /\ time(r) \in Nat /\ ~(time(s) < time(r))
      BY <1>1, <1>3, <1>4
    <2> HIDE DEF wanted
    <2>q. QED
      BY <1>8, <2>1
  <1>10. at[s].job # at[r].job
    <2>1. at[s] \in read[s] /\ at[r] \in read[s]
      BY <1>1, <1>6, <1>7 DEF ReqInv, PartsInv
    <2>2. at[s] # at[r]
      BY <1>6, <1>7 DEF ReqInv, TurnsInv
    <2>q. QED
      BY <1>7, <2>1, <2>2 DEF ReqInv, OrderInv
  <1>q. QED
    BY <1>9, <1>10 DEF time

-----------------------------------------------------------------------------
(* The theorems                                                            *)

\* The inductive invariant: what the requests know, and what is in the table.
THEOREM MatchInvariant == Spec => []IInv
  <1>1. Init => IInv
    <2> SUFFICES ASSUME Init PROVE IInv
      OBVIOUS
    <2>1. TypeOK
      BY BoundIsNumber DEF Init, TypeOK
    <2>2. TableIsCreated /\ NoRowTwice
      BY DEF Init, TableIsCreated, NoRowTwice
    <2>3. ASSUME NEW r \in Requests PROVE ReqInv(r)
      BY DEF Init, ReqInv, EmptyInv, PartsInv, ExistingInv, TurnsInv, OrderInv, QuietInv
    <2>q. QED
      BY <2>1, <2>2, <2>3 DEF IInv
  <1>2. IInv /\ [Next]_vars => IInv'
    <2> SUFFICES ASSUME IInv, [Next]_vars PROVE IInv'
      OBVIOUS
    <2>1. CASE UNCHANGED vars
      <3>1. \A r \in Requests : SameRequest(r) /\ quiet'[r] = quiet[r]
        BY <2>1 DEF vars, local, SameRequest
      <3>2. TypeOK' /\ TableIsCreated' /\ NoRowTwice'
        BY <2>1 DEF vars, tables, local, IInv, TypeOK, TableIsCreated, NoRowTwice
      <3>3. \A r \in Requests : ReqInv(r)'
        BY <2>1, <3>1, SameRequestKeeps DEF vars, tables
      <3>q. QED
        BY <3>2, <3>3 DEF IInv
    <2>2. CASE \/ \E j \in Jobs, c \in Contents : StoreJob(j, c)
               \/ \E p \in Profiles : SaveProfile(p)
      BY <2>2, WritesKeep
    <2>3. ASSUME NEW r \in Requests,
                 (\E p \in Profiles : NewestFirstReads(r, p)) \/ RefreshAllReads(r)
          PROVE  IInv'
      BY <2>3, ReadingKeeps
    <2>4. ASSUME NEW r \in Requests, Serves(r) PROVE IInv'
      <3>1. CASE \E js \in SUBSET Jobs : ReadsJobs(r, js)
        BY <3>1, ReadsJobsKeeps
      <3>2. CASE \E k \in todo[r] : Starts(r, k)
        BY <3>2, StartsKeeps
      <3>3. CASE Inserts(r) \/ FindsExisting(r) \/ Commits(r)
        BY <3>3, InsertsKeeps, FindsExistingKeeps, CommitsKeeps
      <3>4. CASE IsVictim(r)
        BY <3>4, UndoKeeps DEF IsVictim, Circle, Deadlocked, WaitsFor, Open
      <3>q. QED
        BY <2>4, <3>1, <3>2, <3>3, <3>4 DEF Serves
    <2>5. ASSUME NEW r \in Requests, RollsBack(r) PROVE IInv'
      BY <2>5, UndoKeeps DEF RollsBack
    <2>q. QED
      BY <2>1, <2>2, <2>3, <2>4, <2>5 DEF Next
  <1>q. QED
    BY <1>1, <1>2, PTL DEF Spec

\* Type correctness.
THEOREM MatchTypes == Spec => []TypeOK
  BY MatchInvariant, PTL DEF IInv

\* upsert_match: every row of the table was counted as created by one request,
\* whatever others were inserting at the same time.
THEOREM RowsAreCreatedOnce == Spec => []CreatedOnce
  <1>1. IInv => CreatedOnce
    BY DEF IInv, CreatedOnce, TableIsCreated, NoRowTwice
  <1>q. QED
    BY <1>1, MatchInvariant, PTL

\* RefreshResponse: an answer counts every input it read, and as existing only
\* what is committed.
THEOREM AnswersAreTrueAlways == Spec => []AnswersAreTrue
  <1>1. IInv => AnswersAreTrue
    BY DEF IInv, AnswersAreTrue, ReqInv, PartsInv, ExistingInv
  <1>q. QED
    BY <1>1, MatchInvariant, PTL

\* refresh-all leaves a row for every job and every profile, if nothing was
\* written since it began to read.
THEOREM RefreshIsComplete == Spec => []QuietRefreshIsComplete
  <1>1. IInv => QuietRefreshIsComplete
    <2> SUFFICES ASSUME IInv,
                        NEW r \in Requests, pc[r] = "done", kind[r] = "all", quiet[r],
                        NEW j \in Stored, NEW p \in Profiles, version[p] > 0
                 PROVE  InputOf(j, job[j], [profile |-> p, version |-> version[p],
                                            settings |-> Default]) \in match
      BY DEF QuietRefreshIsComplete
    <2>1. read[r] = LatestInputs
      BY DEF IInv, ReqInv, QuietInv
    <2>2. read[r] \subseteq match
      BY DEF IInv, ReqInv, PartsInv, ExistingInv, TableIsCreated
    <2>q. QED
      BY <2>1, <2>2 DEF LatestInputs, LatestViews
  <1>q. QED
    BY <1>1, MatchInvariant, PTL

\* _score_jobs_for_profile with ORDER BY discovered_at: a circle of waiting
\* transactions has a refresh-all in it or waits at jobs discovered at the
\* same time, however many transactions there are.
THEOREM OnlyTiesDeadlock == Spec => []DeadlockNeedsATie
  BY MatchInvariant, OnlyTiesBlock, PTL

-----------------------------------------------------------------------------
(* The score of a row                                                     *)

\* Rounded is the nearest integer of a ratio, and grows with it.
LEMMA RoundedBounds ==
  ASSUME NEW n \in Nat, NEW d \in Nat \ {0}
  PROVE  /\ Rounded(n, d) \in Nat
         /\ 2 * d * Rounded(n, d) <= 2 * n + d
         /\ 2 * n + d < 2 * d * (Rounded(n, d) + 1)
BY DEF Rounded

LEMMA RoundedGrows ==
  ASSUME NEW m \in Nat, NEW n \in Nat, NEW d \in Nat \ {0}, m <= n
  PROVE  Rounded(m, d) <= Rounded(n, d)
BY DEF Rounded

\* Products and quotients of the denominators.
LEMMA TimesGrows ==
  ASSUME NEW a \in Nat, NEW b \in Nat, NEW c \in Nat, a <= b
  PROVE  a * c <= b * c
OBVIOUS

LEMMA DividesExactly ==
  ASSUME NEW a \in Nat, NEW d \in Nat \ {0}
  PROVE  (a * d) \div d = a
OBVIOUS

\* A part of a posting: what is found is of what is looked for.
IsPart(part) == IsFiniteSet(part.of) /\ part.matched \subseteq part.of

\* The ratio of a part is at most 1 and its denominator is no zero.
LEMMA PartIsCounted ==
  ASSUME NEW part, IsPart(part)
  PROVE  /\ Size(part) \in Nat \ {0}
         /\ Cardinality(part.matched) \in Nat
         /\ Cardinality(part.matched) <= Size(part)
  <1>1. /\ Cardinality(part.of) \in Nat
        /\ part.of # {} => Cardinality(part.of) # 0
        /\ Cardinality(part.matched) \in Nat
        /\ Cardinality(part.matched) <= Cardinality(part.of)
    BY FS_CardinalityType, FS_EmptySet, FS_Subset DEF IsPart
  <1>2. part.of = {} => Cardinality(part.of) = 0
    BY FS_EmptySet
  <1> QED
    BY <1>1, <1>2 DEF Size

\* The points of one part are its share of the whole, but for half a
\* hundredth and the weight times half a ten-thousandth, and at most its
\* weight.
Agree(points, share, w, whole) ==
  /\ points \in Nat /\ share \in Nat
  /\ share <= 100 * w * whole
  /\ 200 * (whole * points) <= 200 * share + (w + 100) * whole
  /\ 200 * share < 200 * (whole * points) + (w + 100) * whole

\* build_evidence rounds the ratio of a part and then its points; evaluate_match
\* rounds neither.
LEMMA PointsAreTheShare ==
  ASSUME NEW part, IsPart(part), NEW w \in Nat, NEW k \in Nat \ {0},
         NEW whole, whole = k * Size(part)
  PROVE  /\ Share(part, w, whole) = 100 * w * Cardinality(part.matched) * k
         /\ Agree(Points(part, w), Share(part, w, whole), w, whole)
  <1> DEFINE s == Size(part)
             m == Cardinality(part.matched)
             a == Rounded(10000 * m, s)
             p == Points(part, w)
             share == Share(part, w, whole)
  <1>0. s \in Nat \ {0} /\ m \in Nat /\ m <= s
    BY PartIsCounted
  <1>a. a = Rounded(10000 * m, s)
    OBVIOUS
  <1>h. whole = k * s /\ share = 100 * w * m * (whole \div s) /\ p = Rounded(w * a, 100)
    BY DEF Share, Points
  <1> HIDE DEF s, m, a, p, share
  <1>1. a \in Nat /\ 2 * s * a <= 20000 * m + s /\ 20000 * m + s < 2 * s * (a + 1)
    <2> DEFINE n == 10000 * m
    <2>1. n \in Nat /\ n + n = 20000 * m
      BY <1>0
    <2>2. a = Rounded(n, s)
      BY <1>a
    <2> HIDE DEF n
    <2>3. a \in Nat /\ 2 * s * a <= 2 * n + s /\ 2 * n + s < 2 * s * (a + 1)
      BY <1>0, <2>1, <2>2, RoundedBounds
    <2> QED
      BY <1>0, <2>1, <2>3
  <1>2. p \in Nat /\ 200 * p <= 2 * (w * a) + 100 /\ 2 * (w * a) + 100 < 200 * (p + 1)
    <2>1. w * a \in Nat
      BY <1>1
    <2>2. /\ p \in Nat /\ 2 * 100 * p <= 2 * (w * a) + 100
          /\ 2 * (w * a) + 100 < 2 * 100 * (p + 1)
      <3>1. 100 \in Nat \ {0}
        OBVIOUS
      <3>2. p = Rounded(w * a, 100)
        BY <1>h
      <3> QED
        BY Zenon, <2>1, <3>1, <3>2, RoundedBounds
    <2> QED
      BY <2>2
  <1>3. /\ s * (200 * p) <= s * (2 * (w * a) + 100)
        /\ s * (2 * (w * a) + 100) < s * (200 * (p + 1))
    BY <1>0, <1>1, <1>2
  <1>4. /\ w * (2 * s * a) <= w * (20000 * m + s)
        /\ w * (20000 * m + s) <= w * (2 * s * (a + 1))
    BY <1>0, <1>1
  <1>5. /\ 200 * (s * p) <= 20000 * (w * m) + (w + 100) * s
        /\ 20000 * (w * m) < 200 * (s * p) + (w + 100) * s
    BY <1>0, <1>1, <1>2, <1>3, <1>4
  <1>6. /\ k * (200 * (s * p)) <= k * (20000 * (w * m) + (w + 100) * s)
        /\ k * (20000 * (w * m)) < k * (200 * (s * p) + (w + 100) * s)
    BY <1>0, <1>1, <1>2, <1>5
  <1>7. /\ 200 * (k * s * p) <= 200 * (100 * w * m * k) + (w + 100) * (k * s)
        /\ 200 * (100 * w * m * k) < 200 * (k * s * p) + (w + 100) * (k * s)
    BY <1>0, <1>1, <1>2, <1>6
  <1>8. 100 * w * m * k <= 100 * w * (k * s)
    <2>1. (w * k) * m <= (w * k) * s
      BY <1>0
    <2> QED
      BY <1>0, <2>1
  <1>9. share = 100 * w * m * k /\ share \in Nat
    BY <1>0, <1>h, DividesExactly
  <1>10. Agree(p, share, w, whole)
    <2>1. k * s = whole /\ 100 * w * m * k = share
      BY <1>h, <1>9
    <2> QED
      BY Zenon, <1>2, <1>7, <1>8, <1>9, <2>1 DEF Agree
  <1>11. m = Cardinality(part.matched) /\ p = Points(part, w) /\ share = Share(part, w, whole)
    BY DEF m, p, share
  <1> QED
    BY Zenon, <1>9, <1>10, <1>11

\* The tokens of a text are finitely many.
IsPosting(posting) ==
  /\ IsFiniteSet(posting.title) /\ IsFiniteSet(posting.requirements)
  /\ IsFiniteSet(posting.technologies)

\* Every denominator divides the common one.
LEMMA PartsAreParts ==
  ASSUME NEW posting, NEW profile, IsPosting(posting)
  PROVE  LET part == Parts(posting, profile)
             s == Size(part.skills)
             t == Size(part.title)
             e == Size(part.education)
         IN  /\ s \in Nat \ {0} /\ t \in Nat \ {0} /\ e \in Nat \ {0}
             /\ t * e \in Nat \ {0} /\ s * e \in Nat \ {0} /\ s * t \in Nat \ {0}
             /\ Whole(part) \in Nat \ {0}
             /\ IsPart(part.skills) /\ Whole(part) = (t * e) * Size(part.skills)
             /\ IsPart(part.title) /\ Whole(part) = (s * e) * Size(part.title)
             /\ IsPart(part.experience) /\ Whole(part) = (s * e) * Size(part.experience)
             /\ IsPart(part.education) /\ Whole(part) = (s * t) * Size(part.education)
  <1> DEFINE part == Parts(posting, profile)
             s == Size(part.skills)
             t == Size(part.title)
             e == Size(part.education)
  <1>1. IsFiniteSet(posting.requirements \cup posting.technologies)
    BY FS_Union DEF IsPosting
  <1>2. IsPart(part.skills) /\ IsPart(part.title) /\ IsPart(part.experience) /\ IsPart(part.education)
    BY <1>1 DEF Parts, IsPart, IsPosting
  <1>3. Size(part.experience) = t
    BY DEF Parts, Size
  <1>4. s \in Nat \ {0} /\ t \in Nat \ {0} /\ e \in Nat \ {0}
    BY <1>2, PartIsCounted
  <1>5. Whole(part) = s * t * e
    BY DEF Whole
  <1> HIDE DEF s, t, e
  <1>6. /\ t * e \in Nat \ {0} /\ s * e \in Nat \ {0} /\ s * t \in Nat \ {0}
    BY <1>4
  <1>8. s * t * e \in Nat \ {0}
    <2>1. \A x, y \in Nat \ {0} : x * y \in Nat \ {0}
      OBVIOUS
    <2> QED BY <1>4, <1>6, <2>1
  <1>7. /\ s * t * e = (t * e) * s /\ s * t * e = (s * e) * t /\ s * t * e = (s * t) * e
    BY <1>4
  <1> QED
    BY <1>2, <1>3, <1>4, <1>5, <1>6, <1>7, <1>8 DEF s, t, e

\* The four parts, one by one.
LEMMA SharesAndPoints ==
  ASSUME NEW posting, NEW profile, IsPosting(posting), NEW f \in DOMAIN Weight
  PROVE  LET part == Parts(posting, profile)[f]
             w == Weight[f]
             whole == Whole(Parts(posting, profile))
         IN  whole \in Nat \ {0} /\ Agree(Points(part, w), Share(part, w, whole), w, whole)
  <1> DEFINE part == Parts(posting, profile)
             whole == Whole(part)
             w == Weight[f]
  <1>1. whole \in Nat \ {0} /\ IsPart(part[f]) /\ \E k \in Nat \ {0} : whole = k * Size(part[f])
    <2>1. f \in {"skills", "title", "experience", "education"}
      BY DEF Weight
    <2> HIDE DEF part
    <2>2. CASE f = "skills"
      BY <2>2, PartsAreParts DEF part
    <2>3. CASE f = "title"
      BY <2>3, PartsAreParts DEF part
    <2>4. CASE f = "experience"
      BY <2>4, PartsAreParts DEF part
    <2>5. CASE f = "education"
      BY <2>5, PartsAreParts DEF part
    <2> QED
      BY <2>1, <2>2, <2>3, <2>4, <2>5
  <1>2. w \in Nat
    BY DEF Weight
  <1>3. PICK k \in Nat \ {0} : whole = k * Size(part[f])
    BY <1>1
  <1> HIDE DEF part, whole, w
  <1>4. IsPart(part[f])
    BY <1>1
  <1> QED
    BY <1>1, <1>2, <1>3, <1>4, PointsAreTheShare DEF part, whole, w

\* Products are compared by their factors.
LEMMA FactorDrops ==
  ASSUME NEW a \in Nat, NEW b \in Nat, NEW c \in Nat \ {0}, c * a < c * b
  PROVE  a < b
  <1> SUFFICES ASSUME ~(a < b) PROVE FALSE
    OBVIOUS
  <1>1. b <= a
    OBVIOUS
  <1>2. b * c <= a * c
    BY <1>1, TimesGrows
  <1> QED
    BY <1>2

\* The same of the four parts together.
AgreeInSum(total, sum, whole) ==
  /\ sum <= 10000 * whole
  /\ 200 * (whole * total) <= 200 * sum + 500 * whole
  /\ 200 * sum < 200 * (whole * total) + 500 * whole

\* A score in hundredths, and the points of its evidence.
Close(score, total) ==
  score \in 0..10000 /\ score <= total + 2 /\ total <= score + 2

\* The roundings of four parts and of the score come to less than three
\* hundredths.
LEMMA SumsAreClose ==
  ASSUME NEW whole \in Nat \ {0}, NEW sum \in Nat, NEW total \in Nat,
         AgreeInSum(total, sum, whole)
  PROVE  Close(Rounded(sum, whole), total)
  <1> DEFINE c == Rounded(sum, whole)
  <1>1. c \in Nat /\ 2 * whole * c <= 2 * sum + whole /\ 2 * sum + whole < 2 * whole * (c + 1)
    BY RoundedBounds
  <1> HIDE DEF c
  <1>2. /\ whole * c \in Nat /\ whole * total \in Nat
        /\ 2 * whole * c = 2 * (whole * c) /\ 2 * whole * (c + 1) = 2 * (whole * c) + 2 * whole
        /\ whole * 10001 = 10001 * whole
        /\ whole * (total + 3) = whole * total + 3 * whole
        /\ whole * (c + 3) = whole * c + 3 * whole
    BY <1>1
  <1> DEFINE x == whole * c
             y == whole * total
  <1>3. /\ x \in Nat /\ y \in Nat
        /\ 2 * x <= 2 * sum + whole /\ 2 * sum + whole < 2 * x + 2 * whole
        /\ sum <= 10000 * whole
        /\ 200 * y <= 200 * sum + 500 * whole /\ 200 * sum < 200 * y + 500 * whole
    BY <1>1, <1>2 DEF AgreeInSum
  <1> HIDE DEF x, y
  <1>4. x < 10001 * whole /\ x < y + 3 * whole /\ y < x + 3 * whole
    BY <1>3
  <1>5. whole * c < whole * 10001 /\ whole * c < whole * (total + 3) /\ whole * total < whole * (c + 3)
    BY <1>2, <1>4 DEF x, y
  <1>6. c \in Nat /\ c < 10001 /\ c < total + 3 /\ total < c + 3
    <2>1. 10001 \in Nat /\ total + 3 \in Nat /\ c + 3 \in Nat /\ c \in Nat
      BY <1>1
    <2> QED
      BY <1>5, <2>1, FactorDrops
  <1>7. Close(c, total)
    BY <1>6 DEF Close
  <1> QED
    BY <1>7 DEF c

\* evaluate_match and build_evidence: for every posting and profile a score is
\* between 0 and 100, and the points that explain it add up to it but for two
\* hundredths, though neither is computed from the other.
THEOREM ScoreIsItsEvidence ==
  ASSUME NEW posting, NEW profile, IsPosting(posting)
  PROVE  Close(Score(posting, profile), TotalPoints(posting, profile))
  <1> DEFINE part == Parts(posting, profile)
             whole == Whole(part)
             a(f) == Share(part[f], Weight[f], whole)
             p(f) == Points(part[f], Weight[f])
             sum == a("skills") + a("title") + a("experience") + a("education")
             total == p("skills") + p("title") + p("experience") + p("education")
  <1>1. Score(posting, profile) = Rounded(sum, whole) /\ TotalPoints(posting, profile) = total
    BY DEF Score, TotalPoints
  <1>2. /\ Weight["skills"] = 50 /\ Weight["title"] = 20
        /\ Weight["experience"] = 20 /\ Weight["education"] = 10
        /\ DOMAIN Weight = {"skills", "title", "experience", "education"}
    BY DEF Weight
  <1>3. \A f \in DOMAIN Weight : whole \in Nat \ {0} /\ Agree(p(f), a(f), Weight[f], whole)
    BY SharesAndPoints
  <1> HIDE DEF whole, a, p
  <1>4. /\ whole \in Nat \ {0}
        /\ Agree(p("skills"), a("skills"), 50, whole)
        /\ Agree(p("title"), a("title"), 20, whole)
        /\ Agree(p("experience"), a("experience"), 20, whole)
        /\ Agree(p("education"), a("education"), 10, whole)
    BY <1>2, <1>3
  <1>5. /\ sum \in Nat /\ total \in Nat /\ sum <= 10000 * whole
        /\ whole * total = whole * p("skills") + whole * p("title")
                         + whole * p("experience") + whole * p("education")
    BY <1>4 DEF Agree
  <1>6. AgreeInSum(total, sum, whole)
    BY <1>4, <1>5 DEF Agree, AgreeInSum
  <1>7. sum \in Nat /\ total \in Nat /\ whole \in Nat \ {0}
    BY <1>4, <1>5
  <1> HIDE DEF sum, total
  <1>8. Close(Rounded(sum, whole), total)
    BY <1>6, <1>7, SumsAreClose
  <1> QED
    BY <1>1, <1>8

\* A profile of more skills, experience and education never scores less for
\* the same posting: evaluate_match subtracts nothing.
THEOREM MoreNeverLowersAScore ==
  ASSUME NEW posting, NEW profile, NEW more, IsPosting(posting),
         profile.skills \subseteq more.skills,
         profile.experience \subseteq more.experience,
         profile.education \subseteq more.education
  PROVE  Score(posting, profile) <= Score(posting, more)
  <1> DEFINE part == Parts(posting, profile)
             parts == Parts(posting, more)
             whole == Whole(part)
             a(f) == Share(part[f], Weight[f], whole)
             b(f) == Share(parts[f], Weight[f], whole)
  <1>1. /\ part.skills.of = parts.skills.of /\ part.title.of = parts.title.of
        /\ part.experience.of = parts.experience.of /\ part.education.of = parts.education.of
    BY DEF Parts
  <1>2. Whole(parts) = whole
    BY <1>1 DEF Whole, Size
  <1>3. \A f \in DOMAIN Weight : a(f) \in Nat /\ b(f) \in Nat /\ whole \in Nat \ {0}
    BY <1>2, SharesAndPoints DEF Agree
  <1>4. ASSUME NEW f \in DOMAIN Weight PROVE a(f) <= b(f)
    <2> DEFINE m == Cardinality(part[f].matched)
               n == Cardinality(parts[f].matched)
               c == 100 * Weight[f]
               d == whole \div Size(part[f])
    <2>1. f \in {"skills", "title", "experience", "education"}
      BY DEF Weight
    <2>2. /\ IsPart(part[f]) /\ IsPart(parts[f]) /\ part[f].of = parts[f].of
          /\ part[f].matched \subseteq parts[f].matched
      <3>1. part[f].of = parts[f].of /\ part[f].matched \subseteq parts[f].matched
        <4> HIDE DEF part, parts
        <4>1. /\ part.skills.matched \subseteq parts.skills.matched
              /\ part.title.matched \subseteq parts.title.matched
              /\ part.experience.matched \subseteq parts.experience.matched
              /\ part.education.matched \subseteq parts.education.matched
          BY DEF part, parts, Parts
        <4> QED
          BY <1>1, <2>1, <4>1
      <3>2. IsPart(part[f]) /\ IsPart(parts[f])
        BY <2>1, PartsAreParts
      <3> QED
        BY <3>1, <3>2
    <2>3. m \in Nat /\ n \in Nat /\ m <= n
      BY <2>2, FS_Subset, FS_CardinalityType DEF IsPart
    <2>4. Size(part[f]) = Size(parts[f]) /\ Size(part[f]) \in Nat \ {0}
      BY <2>2, PartIsCounted DEF Size
    <2>5. d \in Nat /\ c \in Nat
      BY <1>3, <2>4 DEF Weight
    <2>6. a(f) = c * m * d /\ b(f) = c * n * d
      BY <2>4 DEF Share
    <2> HIDE DEF a, b, c, d, m, n
    <2>7. c * m <= c * n /\ c * m \in Nat /\ c * n \in Nat
      BY <2>3, <2>5
    <2> QED
      BY <2>5, <2>6, <2>7, TimesGrows
  <1>5. /\ Score(posting, profile) =
             Rounded(a("skills") + a("title") + a("experience") + a("education"), whole)
        /\ Score(posting, more) =
             Rounded(b("skills") + b("title") + b("experience") + b("education"), whole)
    BY <1>2 DEF Score
  <1>6. DOMAIN Weight = {"skills", "title", "experience", "education"}
    BY DEF Weight
  <1> HIDE DEF a, b, whole
  <1>7. a("skills") + a("title") + a("experience") + a("education")
          <= b("skills") + b("title") + b("experience") + b("education")
    BY <1>3, <1>4, <1>6
  <1>8. /\ a("skills") + a("title") + a("experience") + a("education") \in Nat
        /\ b("skills") + b("title") + b("experience") + b("education") \in Nat
        /\ whole \in Nat \ {0}
    BY <1>3, <1>6
  <1> QED
    BY Zenon, <1>5, <1>7, <1>8, RoundedGrows

\* location_allowed: where some places are listed, to list more excludes no
\* posting that was eligible, and gives no new reason against any.  The first
\* place listed does: an empty list allows every place.
THEOREM MorePlacesExcludeNoJob ==
  ASSUME NEW Places, NEW Types, NEW posting, NEW places \in SUBSET Places,
         NEW wishes \in [remoteOnly : BOOLEAN, locations : SUBSET Places,
                         employmentTypes : SUBSET Types],
         wishes.locations # {}
  PROVE  Reasons(posting, [wishes EXCEPT !.locations = @ \cup places])
           \subseteq Reasons(posting, wishes)
  <1> DEFINE wider == [wishes EXCEPT !.locations = @ \cup places]
  <1>1. /\ wider.locations = wishes.locations \cup places
        /\ wider.remoteOnly = wishes.remoteOnly /\ wider.employmentTypes = wishes.employmentTypes
    OBVIOUS
  <1> HIDE DEF wider
  <1>2. LocationAllowed(posting, wishes) => LocationAllowed(posting, wider)
    BY <1>1 DEF LocationAllowed
  <1>3. Reasons(posting, wider) \subseteq Reasons(posting, wishes)
    BY <1>1, <1>2 DEF Reasons
  <1> QED
    BY <1>3 DEF wider

=============================================================================
