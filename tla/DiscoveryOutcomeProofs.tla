----------------------- MODULE DiscoveryOutcomeProofs -----------------------
(***************************************************************************)
(* What discovery leaves behind, for any number of tasks, sources and      *)
(* jobs: a cycle asks for the refresh when its sources are accounted for,  *)
(* and a run that stored alone leaves the board as it was fetched.         *)
(*                                                                         *)
(* OutcomeInv goes on top of the invariant of DiscoveryProofs.  A task     *)
(* that acts changes of the others only their `lone`, and takes it away.   *)
(***************************************************************************)
EXTENDS DiscoveryProofs

\* A run has ended, has lost its task, or has one.
Accounted ==
  \A k \in Keys : runs[k] # None =>
    Finished(k) \/ k \in broken \/ \E u \in Tasks : Executing(u) /\ Key(u) = k

\* A source that a cycle is done with has failed or has a run.
CycleInv(t) ==
  /\ IsCycle(t) => \A s \in Listed \ todo[t] : s \in failed[t] \/ runs[KeyOf(t, s)] # None
  /\ pc[t] = "refresh" => IsCycle(t) /\ todo[t] = {}

StoresAlone(t) ==
  \A u \in Tasks \ {t} : pc[u] = "storing" => work[u].source # work[t].source

FreshInv(t) ==
  pc[t] = "storing" =>
    /\ \A j \in DOMAIN work[t].batch : BoardOf[j] = work[t].source
    /\ work[t].lone =>
         /\ StoresAlone(t)
         /\ \A j \in DOMAIN work[t].batch \ work[t].left : jobs[j] = work[t].batch[j]

OutcomeInv ==
  /\ Accounted
  /\ \A t \in Tasks : CycleInv(t) /\ FreshInv(t)

\* What no step takes back.
RunsGrow == (\A k \in Keys : runs[k] # None => runs'[k] # None) /\ broken \subseteq broken'

\* The step is of another task.
Aside(u) ==
  /\ Untouched(u)
  /\ failed'[u] = failed[u]
  /\ work'[u].lone => work[u].lone

\* The task goes on with its run.
Continues(t) ==
  /\ Executing(t) /\ Executing(t)'
  /\ work'[t].source = work[t].source
  /\ UNCHANGED <<local, broken>>
  /\ \A k \in Keys \ {Key(t)} : runs'[k] = runs[k]
  /\ runs'[Key(t)] # None

\* The task is done with a source.
Leaves(t, s, bad) ==
  /\ pc'[t] \in {"idle", "claiming", "refresh"}
  /\ IsCycle(t) =>
       /\ tick'[t] = tick[t]
       /\ todo'[t] = todo[t] \ {s}
       /\ failed[t] \subseteq failed'[t]
       /\ bad => s \in failed'[t]
       /\ pc'[t] = "refresh" => todo'[t] = {}
  /\ ~IsCycle(t) => tick'[t] = None /\ pc'[t] = "idle"

-----------------------------------------------------------------------------
(* The steps in outline                                                    *)

LEMMA EndIsAside ==
  ASSUME TypeOK, NEW t \in Tasks, End(t), work' = work \/ work' = [work EXCEPT ![t] = Idle]
  PROVE  /\ pc'[t] = "idle" /\ tick'[t] = None
         /\ \A u \in Tasks \ {t} : Aside(u)
BY DEF TypeOK, End, Goto, Aside, Untouched

LEMMA LeaveLeaves ==
  ASSUME TypeOK, NEW t \in Tasks, NEW s \in Sources, NEW bad \in BOOLEAN, Leave(t, s, bad)
  PROVE  Leaves(t, s, bad) /\ \A u \in Tasks \ {t} : Aside(u)
<1>1. work' = [work EXCEPT ![t] = Idle]
  BY DEF Leave
<1>2. CASE ~IsCycle(t)
  <2>1. End(t)
    BY <1>2 DEF Leave
  <2> QED
    BY <1>1, <1>2, <2>1, EndIsAside DEF Leaves
<1>3. CASE IsCycle(t)
  <2>1. /\ todo' = [todo EXCEPT ![t] = @ \ {s}]
        /\ failed' = [failed EXCEPT ![t] = IF bad THEN @ \cup {s} ELSE @]
        /\ pc' = [pc EXCEPT ![t] = IF todo[t] \ {s} # {} THEN "claiming" ELSE "refresh"]
        /\ tick' = tick
    BY <1>3 DEF Leave, LoopOn, Goto
  <2>2. Leaves(t, s, bad)
    BY <1>3, <2>1 DEF TypeOK, Leaves
  <2>3. \A u \in Tasks \ {t} : Aside(u)
    BY <1>1, <2>1 DEF TypeOK, Aside, Untouched
  <2> QED
    BY <2>2, <2>3
<1> QED
  BY <1>2, <1>3

LEMMA MarkContinues ==
  ASSUME IInv, NEW t \in Tasks, Mark(t)
  PROVE  Continues(t) /\ pc'[t] = "fetching" /\ \A u \in Tasks \ {t} : Aside(u)
<1>1. /\ pc[t] = "marking" /\ pc' = [pc EXCEPT ![t] = "fetching"]
      /\ runs' = [runs EXCEPT ![Key(t)].status = "running"]
      /\ UNCHANGED <<local, jobs, work, history>>
  BY DEF Mark, Proceed, Goto
<1>2. Executing(t) /\ Executing(t)' /\ pc'[t] = "fetching"
  BY <1>1 DEF IInv, TypeOK, Executing
<1>3. runs'[Key(t)] = [runs[Key(t)] EXCEPT !.status = "running"] /\ runs[Key(t)] \in RunRow
  BY <1>1, <1>2, ExecutingFacts DEF IInv, TypeOK
<1>4. runs'[Key(t)] # None
  BY <1>3, NoneIsNoRow DEF RunRow, Status
<1>5. \A k \in Keys \ {Key(t)} : runs'[k] = runs[k]
  BY <1>1 DEF IInv, TypeOK
<1>6. \A u \in Tasks \ {t} : Aside(u)
  BY <1>1 DEF IInv, TypeOK, Aside, Untouched, local
<1> QED
  BY <1>1, <1>2, <1>4, <1>5, <1>6 DEF Continues, history

\* The steps of an executing task that leave the row of its run alone.
LEMMA ContinuesAside ==
  ASSUME IInv, NEW t \in Tasks, Executing(t),
         NEW where \in {"fetching", "storing", "failing"}, Proceed(t, where),
         UNCHANGED <<runs, broken>>,
         work'[t].source = work[t].source,
         \A u \in Tasks \ {t} :
           /\ work'[u].source = work[u].source /\ work'[u].batch = work[u].batch
           /\ work'[u].left = work[u].left /\ work'[u].wrote = work[u].wrote
           /\ work'[u].lone => work[u].lone
  PROVE  Continues(t) /\ pc'[t] = where /\ \A u \in Tasks \ {t} : Aside(u)
<1>1. pc' = [pc EXCEPT ![t] = where] /\ UNCHANGED local
  BY DEF Proceed, Goto
<1>2. pc'[t] = where /\ Executing(t)'
  BY <1>1 DEF IInv, TypeOK, Executing
<1>3. runs'[Key(t)] # None
  BY DEF IInv, KnowsItsRun
<1>4. \A u \in Tasks \ {t} : Aside(u)
  BY <1>1 DEF IInv, TypeOK, Aside, Untouched, local
<1> QED
  BY <1>1, <1>2, <1>3, <1>4 DEF Continues

LEMMA FetchingContinues ==
  ASSUME IInv, NEW t \in Tasks, Unavailable(t) \/ Unusable(t)
  PROVE  Continues(t) /\ pc'[t] # "storing" /\ \A u \in Tasks \ {t} : Aside(u)
<1>1. Executing(t) /\ UNCHANGED <<database, history>>
  BY DEF Unavailable, Unusable, Executing
<1>2. PICK where \in {"fetching", "failing"} : Proceed(t, where)
  BY DEF Unavailable, Unusable
<1>3. PICK attempt, batch, left :
        work' = [work EXCEPT ![t] = [work[t] EXCEPT !.attempt = attempt, !.batch = batch, !.left = left]]
  <2>1. work[t] \in Work /\ work \in [Tasks -> Work]
    BY DEF IInv, TypeOK
  <2>2. CASE Unavailable(t) /\ MayRetry(work[t].attempt)
    <3>1. work' = [work EXCEPT ![t].attempt = @ + 1]
      BY <2>2 DEF Unavailable
    <3>2. work' = [work EXCEPT ![t] = [work[t] EXCEPT !.attempt = @ + 1,
                                                     !.batch = work[t].batch, !.left = work[t].left]]
      BY <2>1, <3>1 DEF Work
    <3> QED
      BY <3>2
  <2>3. CASE Unavailable(t) /\ ~MayRetry(work[t].attempt)
    <3>1. work' = work
      BY <2>3 DEF Unavailable
    <3>2. work' = [work EXCEPT ![t] = [work[t] EXCEPT !.attempt = work[t].attempt,
                                                     !.batch = work[t].batch, !.left = work[t].left]]
      BY <2>1, <3>1 DEF Work
    <3> QED
      BY <3>2
  <2>4. CASE Unusable(t)
    <3>1. PICK batch : work' = [work EXCEPT ![t].batch = batch, ![t].left = DOMAIN batch]
      BY <2>4 DEF Unusable
    <3>2. work' = [work EXCEPT ![t] = [work[t] EXCEPT !.attempt = work[t].attempt,
                                                     !.batch = batch, !.left = DOMAIN batch]]
      BY <2>1, <3>1 DEF Work
    <3> QED
      BY <3>2
  <2> QED
    BY <2>2, <2>3, <2>4
<1>4. /\ work'[t].source = work[t].source
      /\ \A u \in Tasks \ {t} : work'[u] = work[u]
  BY <1>3 DEF IInv, TypeOK, Work
<1> QED
  BY <1>1, <1>2, <1>4, ContinuesAside DEF database, history

\* The board that a fetch brings, and what it says of who else is storing.
LEMMA FetchedContinues ==
  ASSUME IInv, NEW t \in Tasks, Fetched(t)
  PROVE  /\ Continues(t) /\ pc'[t] = "storing" /\ pc[t] = "fetching"
         /\ \A u \in Tasks \ {t} : Aside(u)
         /\ \A u \in Tasks \ {t} : work'[u].lone => work[u].source # work[t].source
         /\ \A j \in DOMAIN work'[t].batch : BoardOf[j] = work[t].source
         /\ work'[t].left = DOMAIN work'[t].batch
         /\ work'[t].lone => Storing(work[t].source) = {}
         /\ jobs' = jobs
<1>1. /\ pc[t] = "fetching" /\ Executing(t) /\ Proceed(t, "storing")
      /\ UNCHANGED <<database, history>>
  BY DEF Fetched, Executing
<1>2. PICK batch \in Batches(work[t].source) :
        work' = [u \in Tasks |->
          IF u = t
          THEN [work[t] EXCEPT !.batch = batch, !.left = DOMAIN batch,
                               !.lone = Storing(work[t].source) = {}]
          ELSE [work[u] EXCEPT !.lone = @ /\ work[u].source # work[t].source]]
  BY DEF Fetched
<1>3. PICK listed \in SUBSET {j \in Jobs : BoardOf[j] = work[t].source} : batch \in [listed -> Texts]
  BY DEF Batches
<1>4. PICK alone \in BOOLEAN : alone = (Storing(work[t].source) = {})
  OBVIOUS
<1>5. work'[t] = [work[t] EXCEPT !.batch = batch, !.left = DOMAIN batch, !.lone = alone]
  BY <1>2, <1>4
<1>6. work \in [Tasks -> Work]
  BY DEF IInv, TypeOK
<1>7. /\ work'[t].source = work[t].source /\ work'[t].batch = batch
      /\ work'[t].left = DOMAIN batch /\ work'[t].lone = alone
  BY <1>5, <1>6 DEF Work
<1>8. ASSUME NEW u \in Tasks \ {t}
      PROVE  /\ work'[u].source = work[u].source /\ work'[u].batch = work[u].batch
             /\ work'[u].left = work[u].left /\ work'[u].wrote = work[u].wrote
             /\ work'[u].lone => work[u].lone /\ work[u].source # work[t].source
  <2>1. PICK b \in BOOLEAN : b = (work[u].lone /\ work[u].source # work[t].source)
    BY <1>6 DEF Work
  <2>2. work'[u] = [work[u] EXCEPT !.lone = b]
    BY <1>2, <2>1
  <2>3. work[u] \in Work
    BY <1>6
  <2> QED
    BY <2>1, <2>2, <2>3 DEF Work
<1>9. Continues(t) /\ pc'[t] = "storing" /\ \A u \in Tasks \ {t} : Aside(u)
  BY <1>1, <1>7, <1>8, ContinuesAside DEF database, history
<1> QED
  BY <1>1, <1>3, <1>4, <1>7, <1>8, <1>9 DEF database

\* One posting is in the table as it was fetched, and nothing else changed.
LEMMA StoreContinues ==
  ASSUME IInv, NEW t \in Tasks, Store(t)
  PROVE  /\ Continues(t) /\ pc'[t] = "storing" /\ pc[t] = "storing"
         /\ \A u \in Tasks \ {t} : Aside(u)
         /\ work'[t].batch = work[t].batch /\ (work'[t].lone => work[t].lone)
         /\ \E j \in DOMAIN work[t].batch :
              /\ work'[t].left = work[t].left \ {j}
              /\ jobs'[j] = work[t].batch[j]
              /\ \A i \in Jobs \ {j} : jobs'[i] = jobs[i]
<1>1. /\ pc[t] = "storing" /\ Executing(t) /\ Proceed(t, "storing")
      /\ UNCHANGED <<runs, events, broken>>
  BY DEF Store, Executing
<1>2. /\ work \in [Tasks -> Work] /\ jobs \in [Jobs -> Texts \cup {None}]
      /\ work[t].left \subseteq DOMAIN work[t].batch /\ work[t].left \subseteq Jobs
  BY <1>1 DEF IInv, TypeOK, KnowsItsRun, Work
<1>3. PICK j \in work[t].left :
        \/ /\ jobs' = [jobs EXCEPT ![j] = work[t].batch[j]]
           /\ work' = [work EXCEPT ![t].left = @ \ {j}, ![t].wrote = @ \cup {j}]
        \/ /\ jobs[j] = work[t].batch[j]
           /\ work' = [work EXCEPT ![t].left = @ \ {j}]
           /\ UNCHANGED jobs
  BY DEF Store, Writes
<1>4. /\ jobs'[j] = work[t].batch[j]
      /\ \A i \in Jobs \ {j} : jobs'[i] = jobs[i]
  BY <1>2, <1>3
<1>5. /\ work'[t].source = work[t].source /\ work'[t].batch = work[t].batch
      /\ work'[t].left = work[t].left \ {j} /\ work'[t].lone = work[t].lone
      /\ \A u \in Tasks \ {t} : work'[u] = work[u]
  <2>1. CASE work' = [work EXCEPT ![t].left = @ \ {j}, ![t].wrote = @ \cup {j}]
    <3>1. work' = [work EXCEPT ![t] = [work[t] EXCEPT !.left = @ \ {j}, !.wrote = @ \cup {j}]]
      BY <1>2, <2>1 DEF Work
    <3> QED
      BY <1>2, <3>1 DEF Work
  <2>2. CASE work' = [work EXCEPT ![t].left = @ \ {j}]
    BY <1>2, <2>2 DEF Work
  <2> QED
    BY <1>3, <2>1, <2>2
<1>6. Continues(t) /\ pc'[t] = "storing" /\ \A u \in Tasks \ {t} : Aside(u)
  BY <1>1, <1>5, ContinuesAside
<1> QED
  BY <1>1, <1>2, <1>4, <1>5, <1>6

LEMMA StoreFailsContinues ==
  ASSUME IInv, NEW t \in Tasks, StoreFails(t)
  PROVE  Continues(t) /\ pc'[t] = "failing" /\ \A u \in Tasks \ {t} : Aside(u)
BY ContinuesAside DEF StoreFails, Executing, database, history

-----------------------------------------------------------------------------
(* Runs and cycles                                                         *)

LEMMA KeyOfCycleTyped ==
  ASSUME TypeOK, NEW t \in Tasks, IsCycle(t), NEW s \in Listed
  PROVE  KeyOf(t, s) \in Keys
BY DEF TypeOK, IsCycle, KeyOf, Keys

LEMMA CycleOfAnother ==
  ASSUME TypeOK, NEW u \in Tasks, CycleInv(u), Aside(u), RunsGrow
  PROVE  CycleInv(u)'
<1>1. /\ pc'[u] = pc[u] /\ tick'[u] = tick[u] /\ todo'[u] = todo[u] /\ failed'[u] = failed[u]
      /\ IsCycle(u)' <=> IsCycle(u)
  BY DEF Aside, Untouched, IsCycle
<1>2. ASSUME IsCycle(u), NEW s \in Listed, runs[KeyOf(u, s)] # None
      PROVE  runs'[KeyOf(u, s)'] # None
  <2>1. KeyOf(u, s) \in Keys /\ KeyOf(u, s)' = KeyOf(u, s)
    BY <1>1, <1>2, KeyOfCycleTyped DEF KeyOf
  <2> QED
    BY <1>2, <2>1 DEF RunsGrow
<1> QED
  BY <1>1, <1>2 DEF CycleInv

LEMMA RunOfAnother ==
  ASSUME NEW u \in Tasks, Aside(u)
  PROVE  (Executing(u)' <=> Executing(u)) /\ Key(u)' = Key(u)
BY UntouchedTask DEF Aside

\* A task that goes on with its run accounts for it; the others do as before.
LEMMA ContinuesKeepsBooks ==
  ASSUME IInv, OutcomeInv, NEW t \in Tasks, Continues(t), \A u \in Tasks \ {t} : Aside(u)
  PROVE  Accounted' /\ \A u \in Tasks : CycleInv(u)'
<1>1. Key(t)' = Key(t) /\ tick' = tick /\ todo' = todo /\ failed' = failed
  BY DEF Continues, local, Key, KeyOf
<1>2. RunsGrow
  BY DEF Continues, RunsGrow
<1>3. ASSUME NEW k \in Keys, runs'[k] # None
      PROVE  Finished(k)' \/ k \in broken' \/ \E u \in Tasks : Executing(u)' /\ Key(u)' = k
  <2>1. CASE k = Key(t)
    BY <1>1, <2>1 DEF Continues
  <2>2. CASE k # Key(t)
    <3>1. runs'[k] = runs[k]
      BY <2>2 DEF Continues
    <3>2. CASE \E u \in Tasks : Executing(u) /\ Key(u) = k
      BY <2>2, <3>2, RunOfAnother
    <3>3. CASE Finished(k) \/ k \in broken
      BY <3>1, <3>3 DEF Finished, Continues
    <3> QED
      BY <1>3, <3>1, <3>2, <3>3 DEF OutcomeInv, Accounted
  <2> QED
    BY <2>1, <2>2
<1>4. CycleInv(t)'
  <2>1. pc'[t] # "refresh"
    BY DEF Continues, Executing
  <2>2. ASSUME IsCycle(t), NEW s \in Listed, runs[KeyOf(t, s)] # None
        PROVE  runs'[KeyOf(t, s)'] # None
    <3>1. KeyOf(t, s) \in Keys /\ KeyOf(t, s)' = KeyOf(t, s)
      BY <1>1, <2>2, KeyOfCycleTyped DEF KeyOf, IInv
    <3> QED
      BY <1>2, <2>2, <3>1 DEF RunsGrow
  <2>3. IsCycle(t)' <=> IsCycle(t)
    BY <1>1 DEF IsCycle
  <2> QED
    BY <1>1, <2>1, <2>2, <2>3 DEF OutcomeInv, CycleInv
<1>5. \A u \in Tasks \ {t} : CycleInv(u)'
  BY <1>2, CycleOfAnother DEF IInv, OutcomeInv
<1> QED
  BY <1>3, <1>4, <1>5 DEF Accounted

\* A step after which the task has no run: the one it had has ended or is
\* written down as lost.
LEMMA ReleaseKeepsBooks ==
  ASSUME IInv, OutcomeInv, NEW t \in Tasks, \A u \in Tasks \ {t} : Aside(u),
         RunsGrow,
         \A k \in Keys : ~(Executing(t) /\ k = Key(t)) => runs'[k] = runs[k],
         \A k \in Keys : Executing(t) /\ k = Key(t) => Finished(k)' \/ k \in broken',
         CycleInv(t)'
  PROVE  Accounted' /\ \A u \in Tasks : CycleInv(u)'
<1>1. ASSUME NEW k \in Keys, runs'[k] # None
      PROVE  Finished(k)' \/ k \in broken' \/ \E u \in Tasks : Executing(u)' /\ Key(u)' = k
  <2>1. CASE Executing(t) /\ k = Key(t)
    BY <2>1
  <2>2. CASE ~(Executing(t) /\ k = Key(t))
    <3>1. runs'[k] = runs[k]
      BY <2>2
    <3>2. CASE \E u \in Tasks : Executing(u) /\ Key(u) = k
      BY <2>2, <3>2, RunOfAnother
    <3>3. CASE Finished(k) \/ k \in broken
      BY <3>1, <3>3 DEF Finished, RunsGrow
    <3> QED
      BY <1>1, <3>1, <3>2, <3>3 DEF OutcomeInv, Accounted
  <2> QED
    BY <2>1, <2>2
<1>2. \A u \in Tasks \ {t} : CycleInv(u)'
  BY CycleOfAnother DEF IInv, OutcomeInv
<1> QED
  BY <1>1, <1>2 DEF Accounted

\* A cycle that is done with a source has counted a failure or has a run.
LEMMA CycleAfterLeaving ==
  ASSUME IInv, OutcomeInv, NEW t \in Tasks, NEW s \in Sources, NEW bad \in BOOLEAN,
         Leaves(t, s, bad), RunsGrow,
         bad \/ runs'[KeyOf(t, s)] # None
  PROVE  CycleInv(t)' /\ ~Executing(t)'
<1>1. ~Executing(t)'
  BY DEF Leaves, Executing
<1>2. CASE ~IsCycle(t)
  BY <1>1, <1>2 DEF Leaves, CycleInv, IsCycle
<1>3. CASE IsCycle(t)
  <2>1. /\ tick'[t] = tick[t] /\ todo'[t] = todo[t] \ {s}
        /\ failed[t] \subseteq failed'[t] /\ (bad => s \in failed'[t])
        /\ pc'[t] = "refresh" => todo'[t] = {}
        /\ IsCycle(t)'
    BY <1>3 DEF Leaves, IsCycle
  <2>2. ASSUME NEW r \in Listed \ todo'[t] PROVE r \in failed'[t] \/ runs'[KeyOf(t, r)'] # None
    <3>1. KeyOf(t, r) \in Keys /\ KeyOf(t, r)' = KeyOf(t, r)
      BY <1>3, <2>1, KeyOfCycleTyped DEF KeyOf, IInv
    <3>2. CASE r = s
      BY <2>1, <3>1, <3>2
    <3>3. CASE r # s
      <4>1. r \in failed[t] \/ runs[KeyOf(t, r)] # None
        BY <1>3, <2>1, <3>3 DEF OutcomeInv, CycleInv
      <4> QED
        BY <2>1, <3>1, <4>1 DEF RunsGrow
    <3> QED
      BY <3>2, <3>3
  <2>3. pc'[t] = "refresh" => todo'[t] = {}
    BY <2>1
  <2> QED
    BY <1>1, <2>1, <2>2, <2>3 DEF CycleInv
<1> QED
  BY <1>1, <1>2, <1>3

\* The board and the other storing tasks of a task that is not the one to act.
LEMMA StepKeepsFresh ==
  ASSUME OutcomeInv, NEW t \in Tasks, \A u \in Tasks \ {t} : Aside(u),
         jobs' = jobs, pc'[t] # "storing"
  PROVE  \A u \in Tasks : FreshInv(u)'
<1> SUFFICES ASSUME NEW u \in Tasks \ {t}, pc'[u] = "storing" PROVE FreshInv(u)'
  BY DEF FreshInv
<1>1. FreshInv(u) /\ Aside(u) /\ pc[u] = "storing"
  BY DEF OutcomeInv, Aside, Untouched
<1>2. work'[u].lone => StoresAlone(u)'
  <2> SUFFICES ASSUME work'[u].lone, NEW v \in Tasks \ {u}, pc'[v] = "storing"
               PROVE  work'[v].source # work'[u].source
    BY DEF StoresAlone
  <2>1. v # t /\ pc[v] = "storing" /\ work'[v].source = work[v].source
    BY DEF Aside, Untouched
  <2> QED
    BY <1>1, <2>1 DEF FreshInv, StoresAlone, Aside, Untouched
<1> QED
  BY <1>1, <1>2 DEF FreshInv, Aside, Untouched

-----------------------------------------------------------------------------
(* One lemma per kind of step                                              *)

LEMMA BeginKeepsOutcome ==
  ASSUME IInv, OutcomeInv, NEW t \in Tasks, Begin(t)
  PROVE  OutcomeInv'
<1>1. /\ pc[t] = "idle" /\ tick[t] = None /\ ~Executing(t)
      /\ pc' = [pc EXCEPT ![t] = "claiming"]
      /\ UNCHANGED <<database, failed, work, history>>
  BY DEF Begin, Goto, Executing, IInv, OwnsItsSources
<1>2. /\ pc'[t] = "claiming"
      /\ tick'[t] # None => todo'[t] = Listed
      /\ \A u \in Tasks \ {t} : Aside(u)
  <2>1. /\ tick \in [Tasks -> Minutes \cup {None}] /\ todo \in [Tasks -> SUBSET Sources]
        /\ pc'[t] = "claiming" /\ \A u \in Tasks \ {t} : pc'[u] = pc[u]
    BY <1>1 DEF IInv, TypeOK
  <2>2. CASE \E minute \in Minutes : /\ tick' = [tick EXCEPT ![t] = minute]
                                    /\ todo' = [todo EXCEPT ![t] = Listed]
    BY <1>1, <2>1, <2>2 DEF Aside, Untouched
  <2>3. CASE /\ \E s \in Asked : todo' = [todo EXCEPT ![t] = {s}]
             /\ tick' = tick
    BY <1>1, <2>1, <2>3 DEF Aside, Untouched
  <2> QED
    BY <2>2, <2>3 DEF Begin
<1>3. CycleInv(t)'
  BY <1>2 DEF CycleInv, IsCycle
<1>4. Accounted' /\ \A u \in Tasks : CycleInv(u)'
  BY <1>1, <1>2, <1>3, ReleaseKeepsBooks DEF RunsGrow, database, history
<1>5. \A u \in Tasks : FreshInv(u)'
  BY <1>1, <1>2, StepKeepsFresh DEF database
<1> QED
  BY <1>4, <1>5 DEF OutcomeInv

\* The end of a task, with a run or without.
LEMMA EndKeepsOutcome ==
  ASSUME IInv, OutcomeInv, NEW t \in Tasks, Refresh(t) \/ Cancel(t)
  PROVE  OutcomeInv'
<1>1. /\ End(t) /\ UNCHANGED database
      /\ work' = work \/ work' = [work EXCEPT ![t] = Idle]
      /\ broken' = IF Executing(t) THEN broken \cup {Key(t)} ELSE broken
  BY DEF Refresh, Cancel, Executing, history
<1>2. /\ pc'[t] = "idle" /\ tick'[t] = None
      /\ \A u \in Tasks \ {t} : Aside(u)
  BY <1>1, EndIsAside DEF IInv
<1>3. CycleInv(t)'
  BY <1>2 DEF CycleInv, IsCycle
<1>4. Accounted' /\ \A u \in Tasks : CycleInv(u)'
  BY <1>1, <1>2, <1>3, ReleaseKeepsBooks DEF RunsGrow, database
<1>5. \A u \in Tasks : FreshInv(u)'
  BY <1>1, <1>2, StepKeepsFresh DEF database
<1> QED
  BY <1>4, <1>5 DEF OutcomeInv

LEMMA FailuresKeepOutcome ==
  ASSUME IInv, OutcomeInv, NEW t \in Tasks, ClaimFails(t) \/ MarkFails(t) \/ RecordFails(t)
  PROVE  OutcomeInv'
<1>1. PICK s \in Sources : Leave(t, s, TRUE)
  BY ExecutingFacts, KeyTyped DEF ClaimFails, MarkFails, RecordFails, Oldest, Executing
<1>2. /\ UNCHANGED database
      /\ broken' = IF Executing(t) THEN broken \cup {Key(t)} ELSE broken
  BY DEF ClaimFails, MarkFails, RecordFails, Executing, history
<1>3. RunsGrow
  BY <1>2 DEF RunsGrow, database
<1>4. Leaves(t, s, TRUE) /\ \A u \in Tasks \ {t} : Aside(u)
  BY <1>1, LeaveLeaves DEF IInv
<1>5. CycleInv(t)' /\ ~Executing(t)'
  BY <1>3, <1>4, CycleAfterLeaving
<1>6. Accounted' /\ \A u \in Tasks : CycleInv(u)'
  BY <1>2, <1>3, <1>4, <1>5, ReleaseKeepsBooks DEF database
<1>7. \A u \in Tasks : FreshInv(u)'
  BY <1>2, <1>4, <1>5, StepKeepsFresh DEF database, Executing
<1> QED
  BY <1>6, <1>7 DEF OutcomeInv

LEMMA EndOfRunKeepsOutcome ==
  ASSUME IInv, OutcomeInv, NEW t \in Tasks, Complete(t) \/ RecordFailure(t)
  PROVE  OutcomeInv'
<1>1. PICK status \in {"completed", "failed"}, bad \in BOOLEAN :
        /\ runs' = [runs EXCEPT ![Key(t)] = FinalRow(work[t], status)]
        /\ Leave(t, work[t].source, bad)
  BY DEF Complete, RecordFailure
<1>2. Executing(t) /\ pc[t] \in {"storing", "failing"} /\ UNCHANGED <<jobs, history>>
  BY DEF Complete, RecordFailure, Executing
<1>3. /\ Key(t) \in Keys /\ work[t].source \in Sources
      /\ work[t] \in Work
      /\ work[t].left \subseteq DOMAIN work[t].batch
      /\ work[t].wrote \subseteq DOMAIN work[t].batch \ work[t].left
      /\ runs \in [Keys -> RunRow \cup {None}]
  BY <1>2, ExecutingFacts DEF IInv, KnowsItsRun, TypeOK
<1>4. FinalRow(work[t], status) \in RunRow /\ FinalRow(work[t], status).status = status
  BY <1>3, FinalRowIsTrue DEF Status
<1>5. /\ runs'[Key(t)] # None /\ runs'[Key(t)].status = status
      /\ \A k \in Keys \ {Key(t)} : runs'[k] = runs[k]
  BY <1>1, <1>3, <1>4, NoneIsNoRow
<1>6. RunsGrow
  BY <1>2, <1>5 DEF RunsGrow, history
<1>7. Leaves(t, work[t].source, bad) /\ \A u \in Tasks \ {t} : Aside(u)
  BY <1>1, <1>3, LeaveLeaves DEF IInv
<1>8. CycleInv(t)' /\ ~Executing(t)'
  BY <1>3, <1>5, <1>6, <1>7, CycleAfterLeaving DEF Key
<1>9. \A k \in Keys : k = Key(t) => Finished(k)'
  BY <1>5 DEF Finished
<1>10. Accounted' /\ \A u \in Tasks : CycleInv(u)'
  BY <1>5, <1>6, <1>7, <1>8, <1>9, <1>2, ReleaseKeepsBooks
<1>11. \A u \in Tasks : FreshInv(u)'
  BY <1>2, <1>7, <1>8, StepKeepsFresh DEF Executing
<1> QED
  BY <1>10, <1>11 DEF OutcomeInv

LEMMA ClaimKeepsOutcome ==
  ASSUME IInv, OutcomeInv, NEW t \in Tasks, Claim(t)
  PROVE  OutcomeInv'
<1>1. PICK s \in todo[t] :
        \/ /\ runs[KeyOf(t, s)] = None
           /\ runs' = [runs EXCEPT ![KeyOf(t, s)] = Row("pending", 0, 0, 0)]
           /\ work' = [work EXCEPT ![t] = Starting(s)]
           /\ Proceed(t, "marking")
        \/ /\ runs[KeyOf(t, s)] # None
           /\ Leave(t, s, FALSE)
           /\ UNCHANGED runs
  BY DEF Claim, Oldest, Created
<1>2. ~Executing(t) /\ UNCHANGED <<jobs, history>>
  BY DEF Claim, Executing
<1>3. s \in Sources /\ KeyOf(t, s) \in Keys
  BY KeyTyped
<1>4. CASE runs[KeyOf(t, s)] # None /\ Leave(t, s, FALSE) /\ UNCHANGED runs
  <2>1. Leaves(t, s, FALSE) /\ RunsGrow /\ \A u \in Tasks \ {t} : Aside(u)
    BY <1>2, <1>3, <1>4, LeaveLeaves DEF IInv, RunsGrow, history
  <2>2. CycleInv(t)' /\ ~Executing(t)'
    BY <1>3, <1>4, <2>1, CycleAfterLeaving
  <2>3. Accounted' /\ \A u \in Tasks : CycleInv(u)'
    BY <1>2, <1>4, <2>1, <2>2, ReleaseKeepsBooks
  <2>4. \A u \in Tasks : FreshInv(u)'
    BY <1>2, <2>1, <2>2, StepKeepsFresh DEF Executing
  <2> QED
    BY <2>3, <2>4 DEF OutcomeInv
<1>5. CASE /\ runs[KeyOf(t, s)] = None
           /\ runs' = [runs EXCEPT ![KeyOf(t, s)] = Row("pending", 0, 0, 0)]
           /\ work' = [work EXCEPT ![t] = Starting(s)]
           /\ Proceed(t, "marking")
  <2>1. /\ pc' = [pc EXCEPT ![t] = "marking"] /\ tick' = tick /\ todo' = todo /\ failed' = failed
        /\ pc \in [Tasks -> {"idle", "claiming", "marking", "fetching", "storing", "failing",
                             "refresh"}]
        /\ work \in [Tasks -> Work] /\ runs \in [Keys -> RunRow \cup {None}]
    BY <1>5 DEF Proceed, Goto, local, IInv, TypeOK
  <2>2. /\ pc'[t] = "marking" /\ Executing(t)' /\ work'[t].source = s
        /\ Key(t)' = KeyOf(t, s)
        /\ \A u \in Tasks \ {t} : Aside(u)
    BY <1>5, <2>1 DEF Executing, Starting, Key, KeyOf, Aside, Untouched
  <2>3. /\ runs'[KeyOf(t, s)] # None
        /\ \A k \in Keys \ {KeyOf(t, s)} : runs'[k] = runs[k]
    BY <1>3, <1>5, <2>1, NoneIsNoRow DEF Row, RunRow, Status
  <2>4. RunsGrow
    BY <1>2, <2>3 DEF RunsGrow, history
  <2>5. CycleInv(t)'
    <3>1. CycleInv(t) /\ (IsCycle(t)' <=> IsCycle(t)) /\ pc'[t] # "refresh"
      BY <2>1, <2>2 DEF OutcomeInv, IsCycle
    <3>2. ASSUME IsCycle(t), NEW r \in Listed, runs[KeyOf(t, r)] # None
          PROVE  runs'[KeyOf(t, r)'] # None
      <4>1. KeyOf(t, r) \in Keys /\ KeyOf(t, r)' = KeyOf(t, r)
        BY <2>1, <3>2, KeyOfCycleTyped DEF KeyOf, IInv
      <4> QED
        BY <2>4, <3>2, <4>1 DEF RunsGrow
    <3> QED
      BY <2>1, <3>1, <3>2 DEF CycleInv
  <2>6. ASSUME NEW k \in Keys, runs'[k] # None
        PROVE  Finished(k)' \/ k \in broken' \/ \E u \in Tasks : Executing(u)' /\ Key(u)' = k
    <3>1. CASE k = KeyOf(t, s)
      BY <2>2, <3>1
    <3>2. CASE k # KeyOf(t, s)
      <4>1. runs'[k] = runs[k]
        BY <2>3, <3>2
      <4>2. CASE \E u \in Tasks : Executing(u) /\ Key(u) = k
        BY <1>2, <2>2, <4>2, RunOfAnother
      <4>3. CASE Finished(k) \/ k \in broken
        BY <1>2, <4>1, <4>3 DEF Finished, history
      <4> QED
        BY <2>6, <4>1, <4>2, <4>3 DEF OutcomeInv, Accounted
    <3> QED
      BY <3>1, <3>2
  <2>7. \A u \in Tasks \ {t} : CycleInv(u)'
    BY <2>2, <2>4, CycleOfAnother DEF IInv, OutcomeInv
  <2>8. \A u \in Tasks : FreshInv(u)'
    BY <1>2, <2>2, StepKeepsFresh
  <2> QED
    BY <2>5, <2>6, <2>7, <2>8 DEF OutcomeInv, Accounted
<1> QED
  BY <1>1, <1>4, <1>5

\* The steps of an executing task that do not store.
LEMMA ContinuingKeepsOutcome ==
  ASSUME IInv, OutcomeInv, NEW t \in Tasks,
         Mark(t) \/ Unavailable(t) \/ Unusable(t) \/ StoreFails(t)
  PROVE  OutcomeInv'
<1>1. Continues(t) /\ pc'[t] # "storing" /\ \A u \in Tasks \ {t} : Aside(u)
  BY MarkContinues, FetchingContinues, StoreFailsContinues
<1>2. jobs' = jobs
  BY DEF Mark, Unavailable, Unusable, StoreFails, database
<1> QED
  BY <1>1, <1>2, ContinuesKeepsBooks, StepKeepsFresh DEF OutcomeInv

LEMMA FetchedKeepsOutcome ==
  ASSUME IInv, OutcomeInv, NEW t \in Tasks, Fetched(t)
  PROVE  OutcomeInv'
<1>1. /\ Continues(t) /\ pc'[t] = "storing" /\ pc[t] = "fetching"
      /\ \A u \in Tasks \ {t} : Aside(u)
      /\ \A u \in Tasks \ {t} : work'[u].lone => work[u].source # work[t].source
      /\ \A j \in DOMAIN work'[t].batch : BoardOf[j] = work[t].source
      /\ work'[t].left = DOMAIN work'[t].batch
      /\ work'[t].lone => Storing(work[t].source) = {}
      /\ jobs' = jobs
  BY FetchedContinues
<1>2. work'[t].source = work[t].source
  BY <1>1 DEF Continues
<1>3. FreshInv(t)'
  <2>1. work'[t].lone => StoresAlone(t)'
    <3> SUFFICES ASSUME work'[t].lone, NEW v \in Tasks \ {t}, pc'[v] = "storing"
                 PROVE  work'[v].source # work'[t].source
      BY DEF StoresAlone
    <3>1. pc[v] = "storing" /\ work'[v].source = work[v].source
      BY <1>1 DEF Aside, Untouched
    <3> QED
      BY <1>1, <1>2, <3>1 DEF Storing
  <2> QED
    BY <1>1, <1>2, <2>1 DEF FreshInv
<1>4. ASSUME NEW u \in Tasks \ {t}, pc'[u] = "storing" PROVE FreshInv(u)'
  <2>1. FreshInv(u) /\ Aside(u) /\ pc[u] = "storing"
    BY <1>1, <1>4 DEF OutcomeInv, Aside, Untouched
  <2>2. work'[u].lone => StoresAlone(u)'
    <3> SUFFICES ASSUME work'[u].lone, NEW v \in Tasks \ {u}, pc'[v] = "storing"
                 PROVE  work'[v].source # work'[u].source
      BY DEF StoresAlone
    <3>1. CASE v = t
      BY <1>1, <1>2, <2>1, <3>1 DEF Aside, Untouched
    <3>2. CASE v # t
      <4>1. pc[v] = "storing" /\ work'[v].source = work[v].source
        BY <1>1, <3>2 DEF Aside, Untouched
      <4> QED
        BY <2>1, <4>1 DEF FreshInv, StoresAlone, Aside, Untouched
    <3> QED
      BY <3>1, <3>2
  <2> QED
    BY <1>1, <2>1, <2>2 DEF FreshInv, Aside, Untouched
<1>5. \A u \in Tasks : FreshInv(u)'
  BY <1>3, <1>4 DEF FreshInv
<1> QED
  BY <1>1, <1>5, ContinuesKeepsBooks DEF OutcomeInv

LEMMA StoreKeepsOutcome ==
  ASSUME IInv, OutcomeInv, NEW t \in Tasks, Store(t)
  PROVE  OutcomeInv'
<1>1. /\ Continues(t) /\ pc'[t] = "storing" /\ pc[t] = "storing"
      /\ \A u \in Tasks \ {t} : Aside(u)
      /\ work'[t].batch = work[t].batch /\ (work'[t].lone => work[t].lone)
  BY StoreContinues
<1>2. PICK j \in DOMAIN work[t].batch :
        /\ work'[t].left = work[t].left \ {j}
        /\ jobs'[j] = work[t].batch[j]
        /\ \A i \in Jobs \ {j} : jobs'[i] = jobs[i]
  BY StoreContinues
<1>3. work'[t].source = work[t].source /\ FreshInv(t)
  BY <1>1 DEF Continues, OutcomeInv
<1>4. \A u \in Tasks : DOMAIN work[u].batch \subseteq Jobs
  BY DEF IInv, TypeOK, Work
<1>5. ASSUME NEW u \in Tasks, pc'[u] = "storing" PROVE FreshInv(u)'
  <2>1. /\ FreshInv(u) /\ pc[u] = "storing"
        /\ work'[u].source = work[u].source /\ work'[u].batch = work[u].batch
        /\ work'[u].lone => work[u].lone
    BY <1>1, <1>3, <1>5 DEF OutcomeInv, Aside, Untouched
  <2>2. work'[u].lone => StoresAlone(u)'
    <3>1. \A v \in Tasks : pc'[v] = pc[v] /\ work'[v].source = work[v].source
      BY <1>1, <1>3 DEF Aside, Untouched
    <3> QED
      BY <2>1, <3>1 DEF FreshInv, StoresAlone
  <2>3. ASSUME work'[u].lone, NEW i \in DOMAIN work[u].batch \ work'[u].left
        PROVE  jobs'[i] = work[u].batch[i]
    <3>1. CASE u = t /\ i = j
      BY <1>2, <3>1
    <3>2. CASE u = t /\ i # j
      BY <1>2, <1>4, <2>1, <2>3, <3>2 DEF FreshInv
    <3>3. CASE u # t
      <4>1. i # j
        <5>1. BoardOf[i] = work[u].source /\ BoardOf[j] = work[t].source
          BY <1>1, <1>3, <2>1 DEF FreshInv
        <5>2. work[u].source # work[t].source
          BY <1>1, <2>1, <2>3, <3>3 DEF FreshInv, StoresAlone
        <5> QED
          BY <5>1, <5>2
      <4>2. work'[u].left = work[u].left
        BY <1>1, <3>3 DEF Aside, Untouched
      <4> QED
        BY <1>2, <1>4, <2>1, <2>3, <4>1, <4>2 DEF FreshInv
    <3> QED
      BY <3>1, <3>2, <3>3
  <2> QED
    BY <2>1, <2>2, <2>3 DEF FreshInv
<1>6. \A u \in Tasks : FreshInv(u)'
  BY <1>5 DEF FreshInv
<1> QED
  BY <1>1, <1>6, ContinuesKeepsBooks DEF OutcomeInv

-----------------------------------------------------------------------------
(* The theorems                                                            *)

\* What the properties below rest on: every run is accounted for, every cycle
\* knows what became of its sources, and what a run that stores alone has
\* stored is in the table.
THEOREM OutcomeInvariance == Spec => []OutcomeInv
<1>1. Init => OutcomeInv
  BY DEF Init, OutcomeInv, Accounted, CycleInv, FreshInv, IsCycle
<1>2. IInv /\ OutcomeInv /\ [Next]_vars => OutcomeInv'
  <2> SUFFICES ASSUME IInv, OutcomeInv, [Next]_vars PROVE OutcomeInv'
    OBVIOUS
  <2>1. CASE UNCHANGED vars
    BY <2>1 DEF vars, database, local, history, OutcomeInv, Accounted, CycleInv, FreshInv,
       StoresAlone, Finished, Executing, Key, KeyOf, IsCycle
  <2>2. ASSUME NEW t \in Tasks, Begin(t) \/ Runs(t) \/ Cancel(t)
        PROVE  OutcomeInv'
    <3>1. CASE Begin(t)
      BY <3>1, BeginKeepsOutcome
    <3>2. CASE Refresh(t) \/ Cancel(t)
      BY <3>2, EndKeepsOutcome
    <3>3. CASE Claim(t)
      BY <3>3, ClaimKeepsOutcome
    <3>4. CASE ClaimFails(t) \/ MarkFails(t) \/ RecordFails(t)
      BY <3>4, FailuresKeepOutcome
    <3>5. CASE Mark(t) \/ Unavailable(t) \/ Unusable(t) \/ StoreFails(t)
      BY <3>5, ContinuingKeepsOutcome
    <3>6. CASE Fetched(t)
      BY <3>6, FetchedKeepsOutcome
    <3>7. CASE Store(t)
      BY <3>7, StoreKeepsOutcome
    <3>8. CASE Complete(t) \/ RecordFailure(t)
      BY <3>8, EndOfRunKeepsOutcome
    <3> QED
      BY <2>2, <3>1, <3>2, <3>3, <3>4, <3>5, <3>6, <3>7, <3>8 DEF Runs
  <2> QED
    BY <2>1, <2>2 DEF Next
<1> QED
  BY <1>1, <1>2, Invariance, PTL DEF Spec

\* run_discovery: a run that stored without another one of its source leaves
\* every posting in the table as it was fetched.
THEOREM LoneRunsAreFresh == Spec => []LoneRunIsFresh
<1>1. OutcomeInv => LoneRunIsFresh
  BY DEF OutcomeInv, FreshInv, LoneRunIsFresh
<1> QED
  BY <1>1, OutcomeInvariance, PTL

\* scheduled_discovery: when it asks for the refresh, each of its sources has
\* been discovered, has failed, has lost its task, or is with another cycle.
THEOREM RefreshesSeeWork == Spec => []RefreshSeesWork
<1>1. IInv /\ OutcomeInv => RefreshSeesWork
  <2> SUFFICES ASSUME IInv, OutcomeInv, NEW t \in Tasks, pc[t] = "refresh", NEW s \in Listed,
                      s \notin failed[t]
               PROVE  \/ Finished(KeyOf(t, s)) \/ KeyOf(t, s) \in broken
                      \/ \E u \in Tasks \ {t} : IsCycle(u) /\ Executing(u) /\ Key(u) = KeyOf(t, s)
    BY DEF RefreshSeesWork
  <2>1. IsCycle(t) /\ runs[KeyOf(t, s)] # None /\ ~Executing(t)
    BY DEF OutcomeInv, CycleInv, Executing
  <2>2. KeyOf(t, s) \in Keys
    BY <2>1, KeyOfCycleTyped DEF IInv
  <2>3. \A u \in Tasks : Key(u) = KeyOf(t, s) => IsCycle(u)
    BY <2>1 DEF Key, KeyOf, IsCycle
  <2> QED
    BY <2>1, <2>2, <2>3 DEF OutcomeInv, Accounted
<1> QED
  BY <1>1, Invariance, OutcomeInvariance, PTL

=============================================================================
