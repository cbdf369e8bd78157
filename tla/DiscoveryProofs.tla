--------------------------- MODULE DiscoveryProofs ---------------------------
(***************************************************************************)
(* Proofs about DiscoveryPipeline for any number of tasks, sources, jobs   *)
(* and attempts: a run belongs to one task, its row and its events tell    *)
(* what happened, and its key is taken up once.                            *)
(***************************************************************************)
EXTENDS DiscoveryPipeline, FiniteSetTheorems, SequenceTheorems, TLAPS

\* What a task may still be busy with.
OwnsItsSources(t) ==
  /\ IsCycle(t) => todo[t] \subseteq Listed
  /\ ~IsCycle(t) => todo[t] \subseteq Asked
  /\ Executing(t) => work[t].source \in todo[t]
  /\ pc[t] = "idle" => tick[t] = None

\* A task finds the row of its run as it left it, and its own counts are those
\* of the jobs it has written.
KnowsItsRun(t) ==
  Executing(t) =>
    /\ runs[Key(t)] # None
    /\ runs[Key(t)].status = IF pc[t] = "marking" THEN "pending" ELSE "running"
    /\ work[t].left \subseteq DOMAIN work[t].batch
    /\ work[t].wrote \subseteq DOMAIN work[t].batch \ work[t].left
    /\ written[Key(t)] = work[t].wrote
    /\ pc[t] \in {"marking", "fetching"} => work[t].wrote = {}

CountsOf(row, jobsWritten) ==
  row # None /\ row.status \in {"completed", "failed"} =>
    /\ row.upserted = Cardinality(jobsWritten)
    /\ row.upserted + row.skipped <= row.discovered
    /\ row.status = "completed" => row.discovered = row.upserted + row.skipped

RowOK(k) ==
  /\ events[k] = EventsOf(runs[k])
  /\ CountsOf(runs[k], written[k])
  /\ runs[k] = None => written[k] = {}

IInv ==
  /\ TypeOK
  /\ OneExecutor
  /\ \A t \in Tasks : OwnsItsSources(t) /\ KnowsItsRun(t)
  /\ \A k \in Keys : RowOK(k)

-----------------------------------------------------------------------------

LEMMA NoPostingsTyped == NoPostings \in [{} -> Texts] /\ DOMAIN NoPostings = {}
BY DEF NoPostings

LEMMA StartingTyped ==
  ASSUME NEW s \in Sources \cup {None}
  PROVE  Starting(s) \in Work
<1>1. NoPostings \in UNION {[listed -> Texts] : listed \in SUBSET Jobs}
  BY NoPostingsTyped
<1>2. 1 \in 1..MaxAttempts
  BY ValuesAssumption
<1> HIDE DEF NoPostings
<1> QED
  BY <1>1, <1>2 DEF Starting, Work

LEMMA KeyTyped ==
  ASSUME IInv, NEW t \in Tasks, NEW s \in todo[t]
  PROVE  KeyOf(t, s) \in Keys /\ s \in Sources
BY DEF IInv, TypeOK, OwnsItsSources, KeyOf, Keys, IsCycle, Sources

LEMMA ExecutingFacts ==
  ASSUME IInv, NEW t \in Tasks, Executing(t)
  PROVE  /\ Key(t) \in Keys
         /\ work[t].source \in todo[t]
         /\ work[t].source \in Sources
         /\ runs[Key(t)] \in RunRow
         /\ \A u \in Tasks \ {t} : Executing(u) => Key(u) # Key(t)
<1>1. work[t].source \in todo[t]
  BY DEF IInv, OwnsItsSources
<1>2. Key(t) \in Keys /\ work[t].source \in Sources
  BY <1>1, KeyTyped DEF Key
<1>3. runs[Key(t)] \in RunRow
  BY <1>2 DEF IInv, KnowsItsRun, TypeOK
<1>4. \A u \in Tasks \ {t} : Executing(u) => Key(u) # Key(t)
  BY DEF IInv, OneExecutor
<1> QED
  BY <1>1, <1>2, <1>3, <1>4

LEMMA InitHolds == Init => IInv
<1> SUFFICES ASSUME Init PROVE IInv
  OBVIOUS
<1>1. TypeOK
  <2>1. work \in [Tasks -> Work]
    BY StartingTyped DEF Init, Idle
  <2>2. events \in [Keys -> Seq({"run_started", "batch_discovered", "run_completed", "run_failed"})]
    BY DEF Init
  <2> QED
    BY <2>1, <2>2 DEF Init, TypeOK
<1>2. \A t \in Tasks : ~Executing(t)
  BY DEF Init, Executing
<1>3. OneExecutor
  BY <1>2 DEF OneExecutor
<1>4. \A t \in Tasks : OwnsItsSources(t) /\ KnowsItsRun(t)
  BY <1>2 DEF Init, OwnsItsSources, KnowsItsRun, IsCycle
<1>5. \A k \in Keys : RowOK(k)
  BY DEF Init, RowOK, EventsOf, CountsOf
<1> QED
  BY <1>1, <1>3, <1>4, <1>5 DEF IInv

-----------------------------------------------------------------------------
(* What a step of one task leaves to the others                            *)

Untouched(u) ==
  /\ pc'[u] = pc[u]
  /\ tick'[u] = tick[u]
  /\ todo'[u] = todo[u]
  /\ work'[u].source = work[u].source
  /\ work'[u].batch = work[u].batch
  /\ work'[u].left = work[u].left
  /\ work'[u].wrote = work[u].wrote

LEMMA UntouchedTask ==
  ASSUME NEW u, Untouched(u)
  PROVE  /\ Executing(u)' <=> Executing(u)
         /\ Key(u)' = Key(u)
         /\ OwnsItsSources(u) => OwnsItsSources(u)'
         /\ (/\ KnowsItsRun(u)
             /\ Executing(u) => /\ runs'[Key(u)] = runs[Key(u)]
                                /\ written'[Key(u)] = written[Key(u)])
              => KnowsItsRun(u)'
<1>1. (Executing(u)' <=> Executing(u)) /\ Key(u)' = Key(u)
  BY DEF Untouched, Executing, Key, KeyOf
<1>2. OwnsItsSources(u) => OwnsItsSources(u)'
  BY <1>1 DEF Untouched, OwnsItsSources, IsCycle
<1>3. ASSUME KnowsItsRun(u), Executing(u),
             runs'[Key(u)] = runs[Key(u)], written'[Key(u)] = written[Key(u)]
      PROVE  KnowsItsRun(u)'
  BY <1>1, <1>3 DEF Untouched, KnowsItsRun
<1>4. ~Executing(u) => KnowsItsRun(u)'
  BY <1>1 DEF KnowsItsRun
<1> QED
  BY <1>1, <1>2, <1>3, <1>4

\* A step that touches at most the run of key k, of which its task is the
\* only executor, has only that task and that row to answer for.
LEMMA StepOnOneKey ==
  ASSUME IInv, TypeOK',
         NEW t \in Tasks,
         NEW k,
         \A u \in Tasks \ {t} : Untouched(u) /\ (Executing(u) => Key(u) # k),
         \A q \in Keys \ {k} : /\ runs'[q] = runs[q]
                               /\ events'[q] = events[q]
                               /\ written'[q] = written[q],
         OwnsItsSources(t)', KnowsItsRun(t)', Executing(t)' => Key(t)' = k,
         k \in Keys => RowOK(k)'
  PROVE  IInv'
<1>1. \A u \in Tasks : OwnsItsSources(u)' /\ KnowsItsRun(u)'
  <2> SUFFICES ASSUME NEW u \in Tasks \ {t} PROVE OwnsItsSources(u)' /\ KnowsItsRun(u)'
    OBVIOUS
  <2>1. Executing(u) => /\ runs'[Key(u)] = runs[Key(u)]
                        /\ written'[Key(u)] = written[Key(u)]
    BY ExecutingFacts
  <2> QED
    BY <2>1, UntouchedTask DEF IInv
<1>2. OneExecutor'
  <2> SUFFICES ASSUME NEW u \in Tasks, NEW v \in Tasks,
                      Executing(u)', Executing(v)', Key(u)' = Key(v)'
               PROVE  u = v
    BY DEF OneExecutor
  <2>1. CASE u # t /\ v # t
    BY <2>1, UntouchedTask DEF IInv, OneExecutor
  <2>2. CASE u = t /\ v # t
    BY <2>2, UntouchedTask
  <2>3. CASE u # t /\ v = t
    BY <2>3, UntouchedTask
  <2> QED
    BY <2>1, <2>2, <2>3
<1>3. \A q \in Keys : RowOK(q)'
  <2> SUFFICES ASSUME NEW q \in Keys \ {k} PROVE RowOK(q)'
    OBVIOUS
  <2>1. RowOK(q)
    BY DEF IInv
  <2> QED
    BY <2>1 DEF RowOK
<1> QED
  BY <1>1, <1>2, <1>3 DEF IInv

\* A step that leaves the database alone and takes up no run.
LEMMA StepOnNoRun ==
  ASSUME IInv, TypeOK',
         NEW t \in Tasks,
         \A u \in Tasks \ {t} : Untouched(u),
         UNCHANGED <<runs, events, written>>,
         OwnsItsSources(t)', KnowsItsRun(t)',
         Executing(t)' => Executing(t) /\ Key(t)' = Key(t)
  PROVE  IInv'
<1>1. \A u \in Tasks : OwnsItsSources(u)' /\ KnowsItsRun(u)'
  BY UntouchedTask DEF IInv
<1>2. OneExecutor'
  BY UntouchedTask DEF OneExecutor, IInv
<1>3. \A q \in Keys : RowOK(q)'
  BY DEF RowOK, IInv
<1> QED
  BY <1>1, <1>2, <1>3 DEF IInv

-----------------------------------------------------------------------------
(* Steps that are not about a run                                          *)

\* The end of a task, or of one source of a cycle.
Released(t) ==
  /\ pc'[t] \in {"idle", "claiming", "refresh"}
  /\ pc'[t] = "idle" => tick'[t] = None
  /\ todo'[t] \subseteq todo[t]
  /\ \/ tick'[t] = tick[t]
     \/ tick'[t] = None /\ todo'[t] = {}

LocalTypes ==
  /\ pc \in [Tasks -> {"idle", "claiming", "marking", "fetching", "storing", "failing",
                       "refresh"}]
  /\ tick \in [Tasks -> Minutes \cup {None}]
  /\ todo \in [Tasks -> SUBSET Sources]
  /\ failed \in [Tasks -> SUBSET Sources]

LEMMA ReleasedIsConsistent ==
  ASSUME IInv, NEW t \in Tasks, Released(t)
  PROVE  OwnsItsSources(t)' /\ KnowsItsRun(t)' /\ ~Executing(t)'
<1>1. ~Executing(t)'
  BY DEF Released, Executing
<1>2. OwnsItsSources(t)'
  BY <1>1 DEF Released, OwnsItsSources, IsCycle, IInv
<1> QED
  BY <1>1, <1>2 DEF KnowsItsRun

LEMMA EndReleases ==
  ASSUME TypeOK, NEW t \in Tasks, End(t)
  PROVE  /\ LocalTypes'
         /\ Released(t)
         /\ \A u \in Tasks \ {t} : pc'[u] = pc[u] /\ tick'[u] = tick[u] /\ todo'[u] = todo[u]
BY DEF TypeOK, End, Goto, LocalTypes, Released

LEMMA LeaveReleases ==
  ASSUME TypeOK, NEW t \in Tasks, NEW s \in Sources, NEW bad \in BOOLEAN, Leave(t, s, bad)
  PROVE  /\ LocalTypes' /\ work' \in [Tasks -> Work]
         /\ Released(t)
         /\ \A u \in Tasks \ {t} : Untouched(u)
<1>1. work' = [work EXCEPT ![t] = Idle]
  BY DEF Leave
<1>2. work' \in [Tasks -> Work] /\ \A u \in Tasks \ {t} : work'[u] = work[u]
  BY <1>1, StartingTyped DEF TypeOK, Idle
<1>3. CASE ~IsCycle(t)
  <2>1. End(t)
    BY <1>3 DEF Leave
  <2> QED
    BY <1>2, <2>1, EndReleases DEF Untouched
<1>4. CASE IsCycle(t)
  <2>1. /\ todo' = [todo EXCEPT ![t] = @ \ {s}]
        /\ failed' = [failed EXCEPT ![t] = IF bad THEN @ \cup {s} ELSE @]
        /\ pc' = [pc EXCEPT ![t] = IF todo[t] \ {s} # {} THEN "claiming" ELSE "refresh"]
        /\ tick' = tick
    BY <1>4 DEF Leave, LoopOn, Goto
  <2>2. LocalTypes'
    BY <2>1 DEF TypeOK, LocalTypes
  <2>3. Released(t)
    BY <2>1 DEF TypeOK, Released
  <2>4. \A u \in Tasks \ {t} : pc'[u] = pc[u] /\ tick'[u] = tick[u] /\ todo'[u] = todo[u]
    BY <2>1 DEF TypeOK
  <2> QED
    BY <1>2, <2>2, <2>3, <2>4 DEF Untouched
<1> QED
  BY <1>3, <1>4

LEMMA ProceedTyped ==
  ASSUME TypeOK, NEW t \in Tasks,
         NEW where \in {"idle", "claiming", "marking", "fetching", "storing", "failing", "refresh"},
         Proceed(t, where)
  PROVE  /\ LocalTypes'
         /\ pc'[t] = where /\ tick' = tick /\ todo' = todo
         /\ \A u \in Tasks \ {t} : pc'[u] = pc[u]
BY DEF TypeOK, Proceed, Goto, local, LocalTypes

LEMMA BeginKeepsIInv ==
  ASSUME IInv, NEW t \in Tasks, Begin(t)
  PROVE  IInv'
<1>1. /\ pc[t] = "idle" /\ tick[t] = None
      /\ pc' = [pc EXCEPT ![t] = "claiming"]
      /\ UNCHANGED <<database, failed, work, history>>
  BY DEF Begin, Goto, IInv, OwnsItsSources
<1>2. /\ tick' \in [Tasks -> Minutes \cup {None}]
      /\ todo' \in [Tasks -> SUBSET Sources]
      /\ IF tick'[t] # None THEN todo'[t] = Listed ELSE \E s \in Asked : todo'[t] = {s}
      /\ \A u \in Tasks \ {t} : tick'[u] = tick[u] /\ todo'[u] = todo[u]
  <2>1. tick \in [Tasks -> Minutes \cup {None}] /\ todo \in [Tasks -> SUBSET Sources]
    BY DEF IInv, TypeOK
  <2>2. CASE \E minute \in Minutes : /\ tick' = [tick EXCEPT ![t] = minute]
                                    /\ todo' = [todo EXCEPT ![t] = Listed]
    BY <2>1, <2>2, ValuesAssumption DEF Sources
  <2>3. CASE /\ \E s \in Asked : todo' = [todo EXCEPT ![t] = {s}]
             /\ tick' = tick
    BY <1>1, <2>1, <2>3 DEF Sources
  <2> QED
    BY <2>2, <2>3 DEF Begin
<1>3. TypeOK'
  BY <1>1, <1>2 DEF IInv, TypeOK, database, history
<1>4. ~Executing(t)' /\ OwnsItsSources(t)' /\ KnowsItsRun(t)'
  BY <1>1, <1>2 DEF Executing, OwnsItsSources, KnowsItsRun, IsCycle, IInv, TypeOK
<1>5. \A u \in Tasks \ {t} : Untouched(u)
  BY <1>1, <1>2 DEF Untouched, IInv, TypeOK
<1> QED
  BY <1>1, <1>3, <1>4, <1>5, StepOnNoRun DEF database, history

LEMMA ReleasingKeepsIInv ==
  ASSUME IInv, NEW t \in Tasks,
         LocalTypes', work' \in [Tasks -> Work], Released(t),
         \A u \in Tasks \ {t} : Untouched(u),
         broken' \subseteq Keys,
         UNCHANGED <<runs, events, jobs, written>>
  PROVE  IInv'
<1>1. TypeOK'
  BY DEF IInv, TypeOK, LocalTypes
<1>2. OwnsItsSources(t)' /\ KnowsItsRun(t)' /\ ~Executing(t)'
  BY ReleasedIsConsistent
<1> QED
  BY <1>1, <1>2, StepOnNoRun

LEMMA RefreshKeepsIInv ==
  ASSUME IInv, NEW t \in Tasks, Refresh(t)
  PROVE  IInv'
<1>1. End(t) /\ UNCHANGED <<database, work, history>>
  BY DEF Refresh
<1>2. \A u \in Tasks \ {t} : Untouched(u)
  BY <1>1, EndReleases DEF IInv, Untouched
<1> QED
  BY <1>1, <1>2, EndReleases, ReleasingKeepsIInv DEF IInv, TypeOK, database, history

LEMMA CancelKeepsIInv ==
  ASSUME IInv, NEW t \in Tasks, Cancel(t)
  PROVE  IInv'
<1>1. /\ End(t) /\ UNCHANGED <<database, written>>
      /\ work' = [work EXCEPT ![t] = Idle]
      /\ broken' = IF Executing(t) THEN broken \cup {Key(t)} ELSE broken
  BY DEF Cancel
<1>2. work' \in [Tasks -> Work]
  BY <1>1, StartingTyped DEF Idle, IInv, TypeOK
<1>3. broken' \subseteq Keys
  BY <1>1, ExecutingFacts DEF IInv, TypeOK
<1>4. \A u \in Tasks \ {t} : Untouched(u)
  BY <1>1, EndReleases DEF IInv, TypeOK, Untouched
<1> QED
  BY <1>1, <1>2, <1>3, <1>4, EndReleases, ReleasingKeepsIInv DEF IInv, database

LEMMA FailuresKeepIInv ==
  ASSUME IInv, NEW t \in Tasks, ClaimFails(t) \/ MarkFails(t) \/ RecordFails(t)
  PROVE  IInv'
<1>1. PICK s \in todo[t] : Leave(t, s, TRUE)
  BY ExecutingFacts DEF ClaimFails, MarkFails, RecordFails, Oldest, Executing
<1>2. s \in Sources
  BY KeyTyped
<1>3. UNCHANGED <<database, written>> /\ broken' \subseteq Keys
  <2>1. CASE ClaimFails(t)
    BY <2>1 DEF ClaimFails, history, IInv, TypeOK
  <2>2. CASE MarkFails(t) \/ RecordFails(t)
    BY <2>2, ExecutingFacts DEF MarkFails, RecordFails, Executing, IInv, TypeOK
  <2> QED
    BY <2>1, <2>2
<1>4. /\ LocalTypes' /\ work' \in [Tasks -> Work]
      /\ Released(t)
      /\ \A u \in Tasks \ {t} : Untouched(u)
  BY <1>1, <1>2, LeaveReleases DEF IInv
<1> QED
  BY <1>3, <1>4, ReleasingKeepsIInv DEF database

-----------------------------------------------------------------------------
(* Steps of a task that works on a run                                     *)

LEMMA ClaimKeepsIInv ==
  ASSUME IInv, NEW t \in Tasks, Claim(t)
  PROVE  IInv'
<1>1. PICK s \in todo[t] :
        \/ /\ Created(t, s)
           /\ runs' = [runs EXCEPT ![KeyOf(t, s)] = Row("pending", 0, 0, 0)]
           /\ work' = [work EXCEPT ![t] = Starting(s)]
           /\ Proceed(t, "marking")
        \/ /\ Leave(t, s, FALSE)
           /\ UNCHANGED runs
  BY DEF Claim, Oldest
<1>2. UNCHANGED <<events, jobs, history>> /\ TypeOK
  BY DEF Claim, IInv
<1>3. s \in Sources /\ KeyOf(t, s) \in Keys
  BY KeyTyped
<1>4. CASE Leave(t, s, FALSE) /\ UNCHANGED runs
  BY <1>2, <1>3, <1>4, LeaveReleases, ReleasingKeepsIInv DEF history, TypeOK
<1>5. CASE /\ Created(t, s)
           /\ runs' = [runs EXCEPT ![KeyOf(t, s)] = Row("pending", 0, 0, 0)]
           /\ work' = [work EXCEPT ![t] = Starting(s)]
           /\ Proceed(t, "marking")
  <2>0. PICK k : k = KeyOf(t, s)
    OBVIOUS
  <2>1. runs[k] = None /\ written[k] = {} /\ events[k] = <<>>
    BY <2>0, <1>3, <1>5 DEF Created, IInv, RowOK, EventsOf
  <2>2. Row("pending", 0, 0, 0) \in RunRow /\ Starting(s) \in Work
    BY <1>3, StartingTyped DEF Row, RunRow, Status
  <2>3. /\ LocalTypes'
        /\ pc'[t] = "marking" /\ tick' = tick /\ todo' = todo
        /\ \A u \in Tasks \ {t} : pc'[u] = pc[u]
    BY <1>2, <1>5, ProceedTyped
  <2>4. runs' \in [Keys -> RunRow \cup {None}] /\ work' \in [Tasks -> Work]
    BY <1>2, <1>3, <1>5, <2>2 DEF TypeOK
  <2>5. TypeOK'
    BY <1>2, <2>3, <2>4 DEF TypeOK, history, LocalTypes
  <2>6. work'[t] = Starting(s) /\ runs'[k] = Row("pending", 0, 0, 0)
    BY <2>0, <1>2, <1>3, <1>5 DEF TypeOK
  <2>7. \A u \in Tasks \ {t} : Untouched(u) /\ (Executing(u) => Key(u) # k)
    <3>1. \A u \in Tasks \ {t} : Untouched(u)
      BY <1>2, <1>5, <2>3 DEF Untouched, TypeOK
    <3>2. \A u \in Tasks \ {t} : Executing(u) => Key(u) # k
      BY <2>1 DEF IInv, KnowsItsRun
    <3> QED
      BY <3>1, <3>2
  <2>8. Key(t)' = k
    BY <2>0, <2>3, <2>6 DEF Key, KeyOf, Starting
  <2>9. OwnsItsSources(t)'
    BY <2>3, <2>6 DEF OwnsItsSources, IsCycle, Executing, Starting, IInv
  <2>10. KnowsItsRun(t)'
    <3>1. runs'[k] # None /\ runs'[k].status = "pending"
      BY <2>2, <2>6, NoneIsNoRow DEF Row
    <3>2. work'[t].left = {} /\ work'[t].wrote = {}
      BY <2>6 DEF Starting
    <3>3. written'[k] = {}
      BY <1>2, <2>1 DEF history
    <3> QED
      BY <2>3, <2>8, <3>1, <3>2, <3>3 DEF KnowsItsRun
  <2>11. RowOK(k)'
    <3>1. runs'[k] # None /\ runs'[k].status = "pending"
      BY <2>2, <2>6, NoneIsNoRow DEF Row
    <3>2. EventsOf(runs'[k]) = <<>>
      BY <3>1 DEF EventsOf
    <3> QED
      BY <1>2, <2>1, <3>1, <3>2 DEF RowOK, CountsOf
  <2>12. \A q \in Keys \ {k} : runs'[q] = runs[q] /\ events'[q] = events[q]
                               /\ written'[q] = written[q]
    BY <2>0, <1>2, <1>5 DEF history, TypeOK
  <2> QED
    BY <2>5, <2>7, <2>8, <2>9, <2>10, <2>11, <2>12, StepOnOneKey
<1> QED
  BY <1>1, <1>4, <1>5

LEMMA MarkKeepsIInv ==
  ASSUME IInv, NEW t \in Tasks, Mark(t)
  PROVE  IInv'
<1>0. PICK k : k = Key(t)
  OBVIOUS
<1>1. /\ pc[t] = "marking" /\ Executing(t)
      /\ runs' = [runs EXCEPT ![k].status = "running"]
      /\ events' = [events EXCEPT ![k] = Append(@, "run_started")]
      /\ Proceed(t, "fetching")
      /\ UNCHANGED <<jobs, work, history>>
      /\ TypeOK
  BY <1>0 DEF Mark, Executing, IInv
<1>2. /\ k \in Keys /\ runs[k] \in RunRow /\ runs[k].status = "pending"
      /\ events[k] = <<>> /\ runs[k] # None
  <2>1. k \in Keys /\ runs[k] \in RunRow /\ runs[k] # None /\ runs[k].status = "pending"
    BY <1>0, <1>1, ExecutingFacts DEF IInv, KnowsItsRun
  <2>2. EventsOf(runs[k]) = <<>>
    BY <2>1 DEF EventsOf
  <2> QED
    BY <2>1, <2>2 DEF IInv, RowOK
<1>3. runs'[k] \in RunRow /\ runs'[k] # None /\ runs'[k].status = "running"
  BY <1>1, <1>2, NoneIsNoRow DEF TypeOK, RunRow, Status
<1>4. events'[k] = <<"run_started">>
  BY <1>1, <1>2 DEF TypeOK
<1>5. \A q \in Keys \ {k} : runs'[q] = runs[q] /\ events'[q] = events[q]
                            /\ written'[q] = written[q]
  BY <1>1 DEF history, TypeOK
<1>6. /\ LocalTypes'
      /\ pc'[t] = "fetching" /\ tick' = tick /\ todo' = todo
      /\ \A u \in Tasks \ {t} : pc'[u] = pc[u]
  BY <1>1, ProceedTyped
<1>7. TypeOK'
  <2>1. runs' \in [Keys -> RunRow \cup {None}]
    BY <1>1, <1>2, <1>3 DEF TypeOK
  <2>2. events' \in [Keys -> Seq({"run_started", "batch_discovered", "run_completed", "run_failed"})]
    BY <1>1, <1>2 DEF TypeOK
  <2> QED
    BY <1>1, <1>6, <2>1, <2>2 DEF TypeOK, LocalTypes, history
<1>8. Key(t)' = k /\ work' = work /\ written' = written
  BY <1>0, <1>1, <1>6 DEF Key, KeyOf, history
<1>9. \A u \in Tasks \ {t} : Untouched(u) /\ (Executing(u) => Key(u) # k)
  BY <1>1, <1>6, <1>0, ExecutingFacts DEF Untouched
<1>10. OwnsItsSources(t)'
  BY <1>1, <1>6 DEF OwnsItsSources, IsCycle, Executing, IInv
<1>11. KnowsItsRun(t)'
  BY <1>0, <1>1, <1>3, <1>6, <1>8 DEF KnowsItsRun, IInv
<1>12. RowOK(k)'
  <2>1. EventsOf(runs'[k]) = <<"run_started">>
    BY <1>3 DEF EventsOf
  <2> QED
    BY <1>3, <1>4, <1>8, <2>1 DEF RowOK, CountsOf
<1> QED
  BY <1>5, <1>7, <1>8, <1>9, <1>10, <1>11, <1>12, StepOnOneKey

-----------------------------------------------------------------------------
(* The fetch                                                               *)

Postings == UNION {[listed -> Texts] : listed \in SUBSET Jobs}

LEMMA BatchTyped ==
  ASSUME NEW s, NEW batch \in Batches(s)
  PROVE  batch \in Postings /\ DOMAIN batch \in SUBSET Jobs
<1>1. PICK listed \in SUBSET {j \in Jobs : BoardOf[j] = s} : batch \in [listed -> Texts]
  BY DEF Batches
<1> QED
  BY <1>1 DEF Postings

\* A step of an executing task that leaves the database alone.
LEMMA LocalStepKeepsIInv ==
  ASSUME IInv, NEW t \in Tasks, Executing(t),
         NEW where \in {"fetching", "storing", "failing"},
         pc[t] # "marking",
         Proceed(t, where),
         UNCHANGED <<database, history>>,
         work' \in [Tasks -> Work],
         \A u \in Tasks \ {t} : Untouched(u),
         work'[t].source = work[t].source,
         work'[t].wrote = work[t].wrote,
         work'[t].left \subseteq DOMAIN work'[t].batch,
         work'[t].wrote \subseteq DOMAIN work'[t].batch \ work'[t].left,
         where = "fetching" => work[t].wrote = {}
  PROVE  IInv'
<1>1. LocalTypes' /\ pc'[t] = where /\ tick' = tick /\ todo' = todo
  BY ProceedTyped DEF IInv
<1>2. TypeOK'
  BY <1>1 DEF IInv, TypeOK, LocalTypes, database, history
<1>3. Executing(t)' /\ Key(t)' = Key(t)
  BY <1>1 DEF Executing, Key, KeyOf
<1>4. OwnsItsSources(t)'
  BY <1>1 DEF OwnsItsSources, IsCycle, Executing, IInv
<1>5. KnowsItsRun(t)'
  BY <1>1, <1>3 DEF KnowsItsRun, IInv, database, history
<1> QED
  BY <1>2, <1>3, <1>4, <1>5, StepOnNoRun DEF database, history

LEMMA UnavailableKeepsIInv ==
  ASSUME IInv, NEW t \in Tasks, Unavailable(t)
  PROVE  IInv'
<1>1. /\ pc[t] = "fetching" /\ Executing(t) /\ TypeOK
      /\ UNCHANGED <<database, history>>
  BY DEF Unavailable, Executing, IInv
<1>2. PICK where \in {"fetching", "failing"} : Proceed(t, where)
  BY DEF Unavailable
<1>3. /\ work' \in [Tasks -> Work]
      /\ \A u \in Tasks \ {t} : work'[u] = work[u]
      /\ work'[t].source = work[t].source /\ work'[t].wrote = work[t].wrote
      /\ work'[t].batch = work[t].batch /\ work'[t].left = work[t].left
  <2>1. CASE MayRetry(work[t].attempt)
    <3>1. work' = [work EXCEPT ![t].attempt = @ + 1]
      BY <2>1 DEF Unavailable
    <3>2. work[t].attempt + 1 \in 1..MaxAttempts
      BY <1>1, <2>1, ValuesAssumption DEF MayRetry, TypeOK, Work
    <3> QED
      BY <1>1, <3>1, <3>2 DEF TypeOK, Work
  <2>2. CASE ~MayRetry(work[t].attempt)
    BY <1>1, <2>2 DEF Unavailable, TypeOK
  <2> QED
    BY <2>1, <2>2
<1>4. \A u \in Tasks \ {t} : Untouched(u)
  BY <1>1, <1>2, <1>3, ProceedTyped DEF Untouched
<1>5. /\ work[t].wrote = {}
      /\ work[t].left \subseteq DOMAIN work[t].batch
  BY <1>1 DEF IInv, KnowsItsRun
<1> QED
  BY <1>1, <1>2, <1>3, <1>4, <1>5, LocalStepKeepsIInv

LEMMA UnusableKeepsIInv ==
  ASSUME IInv, NEW t \in Tasks, Unusable(t)
  PROVE  IInv'
<1>1. /\ pc[t] = "fetching" /\ Executing(t) /\ TypeOK
      /\ Proceed(t, "failing")
      /\ UNCHANGED <<database, history>>
  BY DEF Unusable, Executing, IInv
<1>2. PICK batch \in Batches(work[t].source) :
        work' = [work EXCEPT ![t].batch = batch, ![t].left = DOMAIN batch]
  BY DEF Unusable
<1>3. /\ work' \in [Tasks -> Work]
      /\ \A u \in Tasks \ {t} : work'[u] = work[u]
      /\ work'[t].source = work[t].source /\ work'[t].wrote = work[t].wrote
      /\ work'[t].batch = batch /\ work'[t].left = DOMAIN batch
  <2>1. batch \in Postings /\ DOMAIN batch \in SUBSET Jobs
    BY BatchTyped
  <2> QED
    BY <1>1, <1>2, <2>1 DEF TypeOK, Work, Postings
<1>4. \A u \in Tasks \ {t} : Untouched(u)
  BY <1>1, <1>3, ProceedTyped DEF Untouched
<1>5. work[t].wrote = {}
  BY <1>1 DEF IInv, KnowsItsRun
<1> QED
  BY <1>1, <1>3, <1>4, <1>5, LocalStepKeepsIInv

LEMMA FetchedKeepsIInv ==
  ASSUME IInv, NEW t \in Tasks, Fetched(t)
  PROVE  IInv'
<1>1. /\ pc[t] = "fetching" /\ Executing(t) /\ TypeOK
      /\ Proceed(t, "storing")
      /\ UNCHANGED <<database, history>>
  BY DEF Fetched, Executing, IInv
<1>2. PICK batch \in Batches(work[t].source) :
        work' = [u \in Tasks |->
          IF u = t
          THEN [work[t] EXCEPT !.batch = batch, !.left = DOMAIN batch,
                               !.lone = Storing(work[t].source) = {}]
          ELSE [work[u] EXCEPT !.lone = @ /\ work[u].source # work[t].source]]
  BY DEF Fetched
<1>3. /\ work'[t] \in Work
      /\ work'[t].source = work[t].source /\ work'[t].wrote = work[t].wrote
      /\ work'[t].batch = batch /\ work'[t].left = DOMAIN batch
  <2>1. batch \in Postings /\ DOMAIN batch \in SUBSET Jobs
    BY BatchTyped
  <2>2. PICK alone \in BOOLEAN : alone = (Storing(work[t].source) = {})
    OBVIOUS
  <2>3. work'[t] = [work[t] EXCEPT !.batch = batch, !.left = DOMAIN batch, !.lone = alone]
    BY <1>2, <2>2
  <2>4. work[t] \in Work
    BY <1>1 DEF TypeOK
  <2> QED
    BY <2>1, <2>2, <2>3, <2>4 DEF Work, Postings
<1>4. ASSUME NEW u \in Tasks \ {t}
      PROVE  /\ work'[u] \in Work
             /\ work'[u].source = work[u].source /\ work'[u].wrote = work[u].wrote
             /\ work'[u].batch = work[u].batch /\ work'[u].left = work[u].left
  <2>1. work'[u] = [work[u] EXCEPT !.lone = @ /\ work[u].source # work[t].source]
    BY <1>2
  <2>2. work[u] \in Work
    BY <1>1 DEF TypeOK
  <2>3. (work[u].lone /\ work[u].source # work[t].source) \in BOOLEAN
    BY <2>2 DEF Work
  <2> QED
    BY <2>1, <2>2, <2>3 DEF Work
<1>5. work' \in [Tasks -> Work]
  <2>1. \A u \in Tasks : work'[u] \in Work
    BY <1>3, <1>4
  <2> QED
    BY <1>2, <2>1
<1>6. \A u \in Tasks \ {t} : Untouched(u)
  BY <1>1, <1>4, ProceedTyped DEF Untouched
<1>7. work[t].wrote = {}
  BY <1>1 DEF IInv, KnowsItsRun
<1> QED
  BY <1>1, <1>3, <1>5, <1>6, <1>7, LocalStepKeepsIInv

LEMMA StoreFailsKeepsIInv ==
  ASSUME IInv, NEW t \in Tasks, StoreFails(t)
  PROVE  IInv'
<1>1. /\ pc[t] = "storing" /\ Executing(t) /\ TypeOK
      /\ Proceed(t, "failing")
      /\ UNCHANGED <<database, work, history>>
  BY DEF StoreFails, Executing, IInv
<1>2. \A u \in Tasks \ {t} : Untouched(u)
  BY <1>1, ProceedTyped DEF Untouched
<1>3. /\ work[t].left \subseteq DOMAIN work[t].batch
      /\ work[t].wrote \subseteq DOMAIN work[t].batch \ work[t].left
  BY <1>1 DEF IInv, KnowsItsRun
<1>4. work' \in [Tasks -> Work]
  BY <1>1 DEF TypeOK
<1> QED
  BY <1>1, <1>2, <1>3, <1>4, LocalStepKeepsIInv

-----------------------------------------------------------------------------
(* Storing and the end of a run                                            *)

LEMMA StoreKeepsIInv ==
  ASSUME IInv, NEW t \in Tasks, Store(t)
  PROVE  IInv'
<1>0. PICK k : k = Key(t)
  OBVIOUS
<1>1. /\ pc[t] = "storing" /\ Executing(t) /\ TypeOK
      /\ Proceed(t, "storing")
      /\ UNCHANGED <<runs, events, broken>>
  BY DEF Store, Executing, IInv
<1>2. PICK j \in work[t].left :
        LET text == work[t].batch[j] IN
        \/ /\ jobs' = [jobs EXCEPT ![j] = text]
           /\ work' = [work EXCEPT ![t].left = @ \ {j}, ![t].wrote = @ \cup {j}]
           /\ written' = [written EXCEPT ![k] = @ \cup {j}]
        \/ /\ work' = [work EXCEPT ![t].left = @ \ {j}]
           /\ UNCHANGED <<jobs, written>>
  BY <1>0 DEF Store
<1>3. /\ k \in Keys /\ runs[k] \in RunRow /\ runs[k] # None /\ runs[k].status = "running"
      /\ work[t] \in Work
      /\ work[t].left \subseteq DOMAIN work[t].batch
      /\ work[t].wrote \subseteq DOMAIN work[t].batch \ work[t].left
      /\ written[k] = work[t].wrote
  BY <1>0, <1>1, ExecutingFacts DEF IInv, KnowsItsRun, TypeOK
<1>4. j \in Jobs /\ work[t].batch[j] \in Texts
  <2>1. PICK listed \in SUBSET Jobs : work[t].batch \in [listed -> Texts]
    BY <1>3 DEF Work
  <2> QED
    BY <1>2, <1>3, <2>1
<1>5. /\ jobs' \in [Jobs -> Texts \cup {None}]
      /\ written' \in [Keys -> SUBSET Jobs]
      /\ work' \in [Tasks -> Work]
      /\ \A u \in Tasks \ {t} : work'[u] = work[u]
      /\ \A q \in Keys \ {k} : written'[q] = written[q]
      /\ work'[t].source = work[t].source /\ work'[t].batch = work[t].batch
      /\ work'[t].left = work[t].left \ {j}
      /\ \/ work'[t].wrote = work[t].wrote /\ written'[k] = written[k]
         \/ work'[t].wrote = work[t].wrote \cup {j} /\ written'[k] = written[k] \cup {j}
  <2>1. CASE /\ jobs' = [jobs EXCEPT ![j] = work[t].batch[j]]
             /\ work' = [work EXCEPT ![t].left = @ \ {j}, ![t].wrote = @ \cup {j}]
             /\ written' = [written EXCEPT ![k] = @ \cup {j}]
    <3>1. jobs' \in [Jobs -> Texts \cup {None}]
      BY <1>1, <1>4, <2>1 DEF TypeOK
    <3>2. /\ written' \in [Keys -> SUBSET Jobs]
          /\ \A q \in Keys \ {k} : written'[q] = written[q]
          /\ written'[k] = written[k] \cup {j}
      BY <1>1, <1>3, <1>4, <2>1 DEF TypeOK
    <3>3. work' = [work EXCEPT ![t] = [work[t] EXCEPT !.left = @ \ {j}, !.wrote = @ \cup {j}]]
      BY <1>1, <1>3, <2>1 DEF TypeOK, Work
    <3>4. [work[t] EXCEPT !.left = @ \ {j}, !.wrote = @ \cup {j}] \in Work
      BY <1>3, <1>4 DEF Work
    <3>5. /\ work' \in [Tasks -> Work]
          /\ \A u \in Tasks \ {t} : work'[u] = work[u]
          /\ work'[t] = [work[t] EXCEPT !.left = @ \ {j}, !.wrote = @ \cup {j}]
      BY <1>1, <3>3, <3>4 DEF TypeOK
    <3> QED
      BY <1>3, <3>1, <3>2, <3>5 DEF Work
  <2>2. CASE /\ work' = [work EXCEPT ![t].left = @ \ {j}]
             /\ UNCHANGED <<jobs, written>>
    BY <1>1, <1>3, <2>2 DEF TypeOK, Work
  <2> QED
    BY <1>2, <2>1, <2>2
<1>6. /\ LocalTypes'
      /\ pc'[t] = "storing" /\ tick' = tick /\ todo' = todo
      /\ \A u \in Tasks \ {t} : pc'[u] = pc[u]
  BY <1>1, ProceedTyped
<1>7. TypeOK'
  BY <1>1, <1>5, <1>6 DEF TypeOK, LocalTypes
<1>8. Key(t)' = k
  BY <1>0, <1>5, <1>6 DEF Key, KeyOf
<1>9. \A u \in Tasks \ {t} : Untouched(u) /\ (Executing(u) => Key(u) # k)
  BY <1>0, <1>1, <1>5, <1>6, ExecutingFacts DEF Untouched
<1>10. OwnsItsSources(t)'
  BY <1>1, <1>5, <1>6 DEF OwnsItsSources, IsCycle, Executing, IInv
<1>11. KnowsItsRun(t)'
  BY <1>1, <1>2, <1>3, <1>5, <1>6, <1>8 DEF KnowsItsRun
<1>12. RowOK(k)'
  BY <1>1, <1>3 DEF RowOK, CountsOf, IInv
<1> QED
  BY <1>1, <1>5, <1>7, <1>8, <1>9, <1>10, <1>11, <1>12, StepOnOneKey

\* The counts of a final row, as numbers of postings.
LEMMA FinalRowIsTrue ==
  ASSUME NEW w \in Work, NEW status \in Status,
         w.left \subseteq DOMAIN w.batch,
         w.wrote \subseteq DOMAIN w.batch \ w.left
  PROVE  LET row == FinalRow(w, status) IN
         /\ row \in RunRow /\ row.status = status
         /\ row.upserted = Cardinality(w.wrote)
         /\ row.upserted + row.skipped <= row.discovered
         /\ w.left = {} => row.discovered = row.upserted + row.skipped
<1> DEFINE listed == DOMAIN w.batch
           tried == listed \ w.left
<1>1. IsFiniteSet(listed)
  <2>1. listed \in SUBSET Jobs
    BY DEF Work
  <2> QED
    BY <2>1, FS_Subset, ValuesAssumption
<1>2. tried \in SUBSET listed /\ w.wrote \in SUBSET tried
  OBVIOUS
<1>3. /\ IsFiniteSet(tried) /\ Cardinality(tried) <= Cardinality(listed)
      /\ IsFiniteSet(w.wrote)
  BY <1>1, <1>2, FS_Subset
<1>4. Cardinality(tried \ w.wrote) = Cardinality(tried) - Cardinality(tried \cap w.wrote)
  BY <1>3, FS_Difference
<1>5. tried \cap w.wrote = w.wrote
  BY <1>2
<1>6. IsFiniteSet(tried \ w.wrote)
  BY <1>3, FS_Difference
<1>7. /\ Cardinality(listed) \in Nat /\ Cardinality(tried) \in Nat
      /\ Cardinality(w.wrote) \in Nat /\ Cardinality(tried \ w.wrote) \in Nat
  BY <1>1, <1>3, <1>6, FS_CardinalityType
<1>8. Skipped(w) = tried \ w.wrote
  BY DEF Skipped
<1>9. w.left = {} => tried = listed
  OBVIOUS
<1>10. FinalRow(w, status) = [status |-> status, discovered |-> Cardinality(listed),
          upserted |-> Cardinality(w.wrote), skipped |-> Cardinality(tried \ w.wrote)]
  BY <1>8 DEF FinalRow, Row
<1> HIDE DEF listed, tried
<1>11. FinalRow(w, status) \in RunRow
  BY <1>7, <1>10 DEF RunRow
<1>12. Cardinality(w.wrote) + Cardinality(tried \ w.wrote) = Cardinality(tried)
  <2>1. \A a, b, c \in Nat : c = a - b => b + c = a
    OBVIOUS
  <2>2. Cardinality(tried \ w.wrote) = Cardinality(tried) - Cardinality(w.wrote)
    BY <1>4, <1>5, Zenon
  <2> QED
    BY <1>7, <2>1, <2>2, Zenon
<1>13. PICK row : row = FinalRow(w, status)
  OBVIOUS
<1>14. /\ row.status = status /\ row.discovered = Cardinality(listed)
       /\ row.upserted = Cardinality(w.wrote)
       /\ row.skipped = Cardinality(tried \ w.wrote)
  BY <1>10, <1>13
<1>15. /\ row.upserted + row.skipped <= row.discovered
       /\ w.left = {} => row.discovered = row.upserted + row.skipped
  BY <1>3, <1>7, <1>9, <1>12, <1>14
<1> QED
  BY <1>11, <1>13, <1>14, <1>15

LEMMA ClosingKeepsIInv ==
  ASSUME IInv, NEW t \in Tasks,
         pc[t] \in {"storing", "failing"},
         NEW status \in {"completed", "failed"},
         status = "completed" => work[t].left = {},
         NEW log \in Seq({"run_started", "batch_discovered", "run_completed", "run_failed"}),
         log = IF status = "completed"
               THEN <<"run_started", "batch_discovered", "run_completed">>
               ELSE <<"run_started", "run_failed">>,
         runs' = [runs EXCEPT ![Key(t)] = FinalRow(work[t], status)],
         events' = [events EXCEPT ![Key(t)] = log],
         NEW bad \in BOOLEAN, Leave(t, work[t].source, bad),
         UNCHANGED <<jobs, history>>
  PROVE  IInv'
<1>0. PICK k : k = Key(t)
  OBVIOUS
<1>1. PICK row : row = FinalRow(work[t], status)
  OBVIOUS
<1>2. Executing(t) /\ TypeOK
  BY DEF Executing, IInv
<1>3. /\ k \in Keys /\ work[t].source \in Sources
      /\ work[t] \in Work
      /\ work[t].left \subseteq DOMAIN work[t].batch
      /\ work[t].wrote \subseteq DOMAIN work[t].batch \ work[t].left
      /\ written[k] = work[t].wrote
  BY <1>0, <1>2, ExecutingFacts DEF IInv, KnowsItsRun, TypeOK
<1>4. /\ row \in RunRow /\ row # None /\ row.status = status
      /\ row.upserted = Cardinality(work[t].wrote)
      /\ row.upserted + row.skipped <= row.discovered
      /\ work[t].left = {} => row.discovered = row.upserted + row.skipped
  BY <1>1, <1>3, FinalRowIsTrue, NoneIsNoRow DEF Status
<1>5. /\ LocalTypes' /\ work' \in [Tasks -> Work] /\ Released(t)
      /\ \A u \in Tasks \ {t} : Untouched(u)
  BY <1>2, <1>3, LeaveReleases
<1>6. /\ runs' \in [Keys -> RunRow \cup {None}]
      /\ events' \in [Keys -> Seq({"run_started", "batch_discovered", "run_completed", "run_failed"})]
      /\ runs'[k] = row /\ events'[k] = log
      /\ written' = written /\ broken' = broken /\ jobs' = jobs
      /\ \A q \in Keys \ {k} : runs'[q] = runs[q] /\ events'[q] = events[q]
  BY <1>0, <1>1, <1>2, <1>3, <1>4 DEF TypeOK, history
<1>7. TypeOK'
  BY <1>2, <1>5, <1>6 DEF TypeOK, LocalTypes
<1>8. OwnsItsSources(t)' /\ KnowsItsRun(t)' /\ ~Executing(t)'
  BY <1>5, ReleasedIsConsistent
<1>9. \A u \in Tasks \ {t} : Executing(u) => Key(u) # k
  BY <1>0, <1>2, ExecutingFacts
<1>10. RowOK(k)'
  <2>1. EventsOf(row) = log
    BY <1>4 DEF EventsOf
  <2>2. CountsOf(row, written[k])
    BY <1>3, <1>4 DEF CountsOf
  <2> QED
    BY <1>4, <1>6, <2>1, <2>2 DEF RowOK
<1> QED
  BY <1>5, <1>6, <1>7, <1>8, <1>9, <1>10, StepOnOneKey

LEMMA TwoEvents ==
  ASSUME NEW a, NEW b
  PROVE  Append(<<a>>, b) = <<a, b>>
<1> DEFINE appended == Append(<<a>>, b)
           pair == <<a, b>>
<1>0. PICK S : a \in S /\ b \in S
  <2>1. a \in {a, b} /\ b \in {a, b}
    OBVIOUS
  <2> QED
    BY <2>1
<1>1. appended \in Seq(S) /\ Len(appended) = 2 /\ pair \in Seq(S) /\ Len(pair) = 2
  BY <1>0
<1>2. \A i \in 1..2 : appended[i] = pair[i]
  BY <1>0
<1> HIDE DEF appended, pair
<1>3. appended = pair
  BY <1>1, <1>2, SeqEqual
<1> QED
  BY <1>3 DEF appended, pair

LEMMA ThreeEvents ==
  ASSUME NEW a, NEW b, NEW c
  PROVE  <<a>> \o <<b, c>> = <<a, b, c>>
<1> DEFINE joined == <<a>> \o <<b, c>>
           triple == <<a, b, c>>
<1>0. PICK S : a \in S /\ b \in S /\ c \in S
  <2>1. a \in {a, b, c} /\ b \in {a, b, c} /\ c \in {a, b, c}
    OBVIOUS
  <2> QED
    BY <2>1
<1>1. joined \in Seq(S) /\ Len(joined) = 3 /\ triple \in Seq(S) /\ Len(triple) = 3
  BY <1>0
<1>2. \A i \in 1..3 : joined[i] = triple[i]
  BY <1>0
<1> HIDE DEF joined, triple
<1>3. joined = triple
  BY <1>1, <1>2, SeqEqual
<1> QED
  BY <1>3 DEF joined, triple

LEMMA EndOfRunKeepsIInv ==
  ASSUME IInv, NEW t \in Tasks, Complete(t) \/ RecordFailure(t)
  PROVE  IInv'
<1> DEFINE Log == Seq({"run_started", "batch_discovered", "run_completed", "run_failed"})
<1>1. /\ pc[t] \in {"storing", "failing"} /\ Executing(t)
      /\ UNCHANGED <<jobs, history>>
  BY DEF Complete, RecordFailure, Executing
<1>2. events[Key(t)] = <<"run_started">>
  <2>1. Key(t) \in Keys /\ runs[Key(t)] # None /\ runs[Key(t)].status = "running"
    BY <1>1, ExecutingFacts DEF IInv, KnowsItsRun
  <2>2. EventsOf(runs[Key(t)]) = <<"run_started">>
    BY <2>1 DEF EventsOf
  <2> QED
    BY <2>1, <2>2 DEF IInv, RowOK
<1>3. CASE Complete(t)
  <2>1. <<"run_started">> \o <<"batch_discovered", "run_completed">>
          = <<"run_started", "batch_discovered", "run_completed">>
    BY ThreeEvents
  <2>2. events' = [events EXCEPT ![Key(t)] = <<"run_started", "batch_discovered", "run_completed">>]
    BY <1>2, <1>3, <2>1 DEF Complete
  <2>3. <<"run_started", "batch_discovered", "run_completed">> \in Log
    OBVIOUS
  <2> QED
    BY <1>1, <1>3, <2>2, <2>3, ClosingKeepsIInv DEF Complete
<1>4. CASE RecordFailure(t)
  <2>1. Append(<<"run_started">>, "run_failed") = <<"run_started", "run_failed">>
    BY TwoEvents
  <2>2. events' = [events EXCEPT ![Key(t)] = <<"run_started", "run_failed">>]
    BY <1>2, <1>4, <2>1 DEF RecordFailure
  <2>3. <<"run_started", "run_failed">> \in Log
    OBVIOUS
  <2> QED
    BY <1>1, <1>4, <2>2, <2>3, ClosingKeepsIInv DEF RecordFailure
<1> QED
  BY <1>3, <1>4

-----------------------------------------------------------------------------
(* The invariant                                                           *)

LEMMA NextKeepsIInv == IInv /\ [Next]_vars => IInv'
<1> SUFFICES ASSUME IInv, [Next]_vars PROVE IInv'
  OBVIOUS
<1>1. CASE UNCHANGED vars
  BY <1>1 DEF vars, database, local, history, IInv, TypeOK, OneExecutor, OwnsItsSources,
     KnowsItsRun, RowOK, Executing, Key, KeyOf, IsCycle
<1>2. ASSUME NEW t \in Tasks, Begin(t) \/ Runs(t) \/ Cancel(t)
      PROVE  IInv'
  <2>1. CASE Begin(t)
    BY <2>1, BeginKeepsIInv
  <2>2. CASE Cancel(t)
    BY <2>2, CancelKeepsIInv
  <2>3. CASE Claim(t)
    BY <2>3, ClaimKeepsIInv
  <2>4. CASE ClaimFails(t) \/ MarkFails(t) \/ RecordFails(t)
    BY <2>4, FailuresKeepIInv
  <2>5. CASE Mark(t)
    BY <2>5, MarkKeepsIInv
  <2>6. CASE Unavailable(t)
    BY <2>6, UnavailableKeepsIInv
  <2>7. CASE Unusable(t)
    BY <2>7, UnusableKeepsIInv
  <2>8. CASE Fetched(t)
    BY <2>8, FetchedKeepsIInv
  <2>9. CASE Store(t)
    BY <2>9, StoreKeepsIInv
  <2>10. CASE StoreFails(t)
    BY <2>10, StoreFailsKeepsIInv
  <2>11. CASE Complete(t) \/ RecordFailure(t)
    BY <2>11, EndOfRunKeepsIInv
  <2>12. CASE Refresh(t)
    BY <2>12, RefreshKeepsIInv
  <2> QED
    BY <1>2, <2>1, <2>2, <2>3, <2>4, <2>5, <2>6, <2>7, <2>8, <2>9, <2>10, <2>11, <2>12
       DEF Runs
<1> QED
  BY <1>1, <1>2 DEF Next

\* Every reachable state satisfies the inductive invariant.
THEOREM Invariance == Spec => []IInv
<1>1. Init => IInv
  BY InitHolds
<1>2. IInv /\ [Next]_vars => IInv'
  BY NextKeepsIInv
<1> QED
  BY <1>1, <1>2, PTL DEF Spec

\* The variables keep their types.
THEOREM TypesAreKept == Spec => []TypeOK
<1>1. IInv => TypeOK
  BY DEF IInv
<1> QED
  BY <1>1, Invariance, PTL

\* No two tasks work on the run of one key.
THEOREM RunsHaveOneExecutor == Spec => []OneExecutor
<1>1. IInv => OneExecutor
  BY DEF IInv
<1> QED
  BY <1>1, Invariance, PTL

\* Status, events and counts of a run agree with each other and with the jobs
\* that were written under its key.
THEOREM RunsTellTheTruth == Spec => []RowsTellTheTruth
<1>1. IInv => RowsTellTheTruth
  BY DEF IInv, RowOK, CountsOf, RowsTellTheTruth, Finished
<1> QED
  BY <1>1, Invariance, PTL

-----------------------------------------------------------------------------
(* A key is taken up once                                                  *)

PhaseOf == [k \in Keys |-> Phase(k)]

ReportOf == [k \in Keys |-> IF Finished(k) THEN runs[k].upserted ELSE 0]

\* A step that gives one key a new row shows in the phase of that key only.
LEMMA OneRowChanges ==
  ASSUME NEW k \in Keys,
         \A q \in Keys \ {k} : runs'[q] = runs[q]
  PROVE  /\ PhaseOf' = [PhaseOf EXCEPT ![k] = Phase(k)']
         /\ ReportOf' = [ReportOf EXCEPT ![k] = IF Finished(k)' THEN runs'[k].upserted ELSE 0]
<1>1. \A q \in Keys \ {k} : (Finished(q)' <=> Finished(q)) /\ Phase(q)' = Phase(q)
  BY DEF Finished, Phase
<1>2. PhaseOf' = [PhaseOf EXCEPT ![k] = Phase(k)']
  BY <1>1 DEF PhaseOf
<1>3. ReportOf' = [ReportOf EXCEPT ![k] = IF Finished(k)' THEN runs'[k].upserted ELSE 0]
  BY <1>1 DEF ReportOf
<1> QED
  BY <1>2, <1>3

LEMMA SameRows ==
  ASSUME UNCHANGED <<runs, written>>
  PROVE  UNCHANGED Once!vars
BY DEF Once!vars, Phase, Finished

LEMMA ClaimTakesKey ==
  ASSUME IInv, NEW t \in Tasks, Claim(t)
  PROVE  Once!Next \/ UNCHANGED Once!vars
<1>1. CASE UNCHANGED runs
  BY <1>1, SameRows DEF Claim, history
<1>2. CASE runs' # runs
  <2>1. PICK s \in todo[t] :
          /\ runs[KeyOf(t, s)] = None
          /\ runs' = [runs EXCEPT ![KeyOf(t, s)] = Row("pending", 0, 0, 0)]
    BY <1>2 DEF Claim, Oldest, Created
  <2>2. PICK k \in Keys : k = KeyOf(t, s)
    BY KeyTyped
  <2>3. runs'[k] = Row("pending", 0, 0, 0) /\ \A q \in Keys \ {k} : runs'[q] = runs[q]
    BY <2>1, <2>2 DEF IInv, TypeOK
  <2>4. runs'[k] # None /\ runs'[k].status = "pending"
    BY <2>3, NoneIsNoRow DEF Row, RunRow, Status
  <2>5. /\ Phase(k) = "free" /\ Phase(k)' = "held"
        /\ ~Finished(k) /\ ~Finished(k)'
    BY <2>1, <2>2, <2>4 DEF Phase, Finished
  <2>6. written' = written
    BY DEF Claim, history
  <2>7. /\ PhaseOf[k] = "free" /\ PhaseOf' = [PhaseOf EXCEPT ![k] = "held"]
        /\ ReportOf' = ReportOf
    BY <2>3, <2>5, OneRowChanges DEF PhaseOf, ReportOf
  <2>8. Once!Take(k)
    BY <2>6, <2>7 DEF Once!Take, PhaseOf, ReportOf
  <2> QED
    BY <2>8 DEF Once!Next
<1> QED
  BY <1>1, <1>2

LEMMA MarkIsSilent ==
  ASSUME IInv, NEW t \in Tasks, Mark(t)
  PROVE  UNCHANGED Once!vars
<1>1. PICK k : k = Key(t)
  OBVIOUS
<1>2. /\ k \in Keys /\ runs[k] \in RunRow /\ runs[k] # None /\ runs[k].status = "pending"
      /\ runs \in [Keys -> RunRow \cup {None}]
  BY <1>1, ExecutingFacts DEF Mark, Executing, IInv, KnowsItsRun, TypeOK
<1>3. /\ runs' = [runs EXCEPT ![k].status = "running"]
      /\ written' = written
  BY <1>1 DEF Mark, history
<1>4. runs'[k] \in RunRow /\ runs'[k].status = "running" /\ \A q \in Keys \ {k} : runs'[q] = runs[q]
  BY <1>2, <1>3 DEF RunRow, Status
<1>5. /\ Phase(k) = "held" /\ Phase(k)' = "held"
      /\ ~Finished(k) /\ ~Finished(k)'
  BY <1>2, <1>4, NoneIsNoRow DEF Phase, Finished
<1>6. ASSUME NEW q \in Keys
      PROVE  /\ Phase(q)' = Phase(q)
             /\ Finished(q)' = Finished(q)
             /\ Finished(q) => runs'[q].upserted = runs[q].upserted
  <2>1. CASE q = k
    BY <1>5, <2>1 DEF Phase, Finished
  <2>2. CASE q # k
    BY <1>4, <2>2 DEF Phase, Finished
  <2> QED
    BY <2>1, <2>2
<1>7. PhaseOf' = PhaseOf /\ ReportOf' = ReportOf
  BY <1>6 DEF PhaseOf, ReportOf
<1> QED
  BY <1>3, <1>7 DEF Once!vars, PhaseOf, ReportOf

LEMMA StoreDoesItem ==
  ASSUME IInv, NEW t \in Tasks, Store(t)
  PROVE  Once!Next \/ UNCHANGED Once!vars
<1>1. PICK k : k = Key(t)
  OBVIOUS
<1>2. /\ k \in Keys /\ runs[k] # None /\ runs[k].status = "running"
      /\ work[t] \in Work
      /\ work[t].wrote \subseteq DOMAIN work[t].batch \ work[t].left
      /\ written[k] = work[t].wrote
  BY <1>1, ExecutingFacts DEF Store, Executing, IInv, KnowsItsRun, TypeOK
<1>3. PhaseOf[k] = "held"
  BY <1>2 DEF PhaseOf, Phase, Finished
<1>4. runs' = runs
  BY DEF Store
<1>5. PhaseOf' = PhaseOf /\ ReportOf' = ReportOf
  BY <1>4 DEF PhaseOf, ReportOf, Phase, Finished
<1>6. PICK j \in work[t].left :
        written' = [written EXCEPT ![k] = @ \cup {j}] \/ written' = written
  BY <1>1 DEF Store
<1>7. j \in Jobs /\ j \notin written[k]
  BY <1>2, <1>6 DEF Work
<1>8. CASE written' = written
  BY <1>4, <1>8, SameRows
<1>9. CASE written' = [written EXCEPT ![k] = @ \cup {j}]
  <2>1. Once!Do(k, j)
    BY <1>3, <1>5, <1>7, <1>9 DEF Once!Do, PhaseOf, ReportOf
  <2> QED
    BY <1>2, <1>7, <2>1 DEF Once!Next
<1> QED
  BY <1>6, <1>8, <1>9

LEMMA EndOfRunCloses ==
  ASSUME IInv, IInv', NEW t \in Tasks, Complete(t) \/ RecordFailure(t)
  PROVE  Once!Next
<1>1. PICK k : k = Key(t)
  OBVIOUS
<1>2. PICK status \in {"completed", "failed"} :
        runs' = [runs EXCEPT ![k] = FinalRow(work[t], status)]
  BY <1>1 DEF Complete, RecordFailure
<1>3. Executing(t) /\ pc[t] \in {"storing", "failing"} /\ written' = written
  BY DEF Complete, RecordFailure, Executing, history
<1>4. /\ k \in Keys /\ runs[k] # None /\ runs[k].status = "running"
      /\ work[t] \in Work
      /\ work[t].left \subseteq DOMAIN work[t].batch
      /\ work[t].wrote \subseteq DOMAIN work[t].batch \ work[t].left
      /\ runs \in [Keys -> RunRow \cup {None}]
  BY <1>1, <1>3, ExecutingFacts DEF IInv, KnowsItsRun, TypeOK
<1>5. FinalRow(work[t], status) \in RunRow /\ FinalRow(work[t], status).status = status
  BY <1>4, FinalRowIsTrue DEF Status
<1>6. /\ runs'[k] \in RunRow /\ runs'[k].status \in {"completed", "failed"}
      /\ \A q \in Keys \ {k} : runs'[q] = runs[q]
  BY <1>2, <1>4, <1>5
<1>7. /\ Phase(k) = "held" /\ Phase(k)' = "closed" /\ Finished(k)'
  BY <1>4, <1>6, NoneIsNoRow DEF Phase, Finished
<1>8. runs'[k].upserted = Cardinality(written[k])
  <2>1. CountsOf(runs[k], written[k])'
    BY <1>4 DEF IInv, RowOK
  <2> QED
    BY <1>3, <1>6, <2>1, NoneIsNoRow DEF CountsOf
<1>9. /\ PhaseOf[k] = "held" /\ PhaseOf' = [PhaseOf EXCEPT ![k] = "closed"]
      /\ ReportOf' = [ReportOf EXCEPT ![k] = Cardinality(written[k])]
  BY <1>4, <1>6, <1>7, <1>8, OneRowChanges DEF PhaseOf
<1>10. Once!Close(k)
  BY <1>3, <1>9 DEF Once!Close, PhaseOf, ReportOf
<1> QED
  BY <1>4, <1>10 DEF Once!Next

\* The pipeline implements KeyedOnce: a key is taken up once and closed at
\* most once, no job is written under it otherwise, and the row that closes it
\* says how many were written.
THEOREM KeysAreTakenOnce == Spec => RunsOnce
<1>1. Init => Once!Init
  BY DEF Init, Once!Init, Phase, Finished
<1>2. IInv /\ IInv' /\ [Next]_vars => [Once!Next]_(Once!vars)
  <2> SUFFICES ASSUME IInv, IInv', [Next]_vars PROVE Once!Next \/ UNCHANGED Once!vars
    OBVIOUS
  <2>1. CASE UNCHANGED vars
    BY <2>1, SameRows DEF vars, database, history
  <2>2. ASSUME NEW t \in Tasks, Begin(t) \/ Runs(t) \/ Cancel(t)
        PROVE  Once!Next \/ UNCHANGED Once!vars
    <3>1. CASE \/ Begin(t) \/ Cancel(t) \/ ClaimFails(t) \/ MarkFails(t)
               \/ Unavailable(t) \/ Unusable(t) \/ Fetched(t) \/ StoreFails(t)
               \/ RecordFails(t) \/ Refresh(t)
      <4>1. UNCHANGED <<runs, written>>
        BY <3>1 DEF Begin, Cancel, ClaimFails, MarkFails, Unavailable, Unusable, Fetched,
           StoreFails, RecordFails, Refresh, database, history
      <4> QED
        BY <4>1, SameRows
    <3>2. CASE Claim(t)
      BY <3>2, ClaimTakesKey
    <3>3. CASE Mark(t)
      BY <3>3, MarkIsSilent
    <3>4. CASE Store(t)
      BY <3>4, StoreDoesItem
    <3>5. CASE Complete(t) \/ RecordFailure(t)
      BY <3>5, EndOfRunCloses
    <3> QED
      BY <2>2, <3>1, <3>2, <3>3, <3>4, <3>5 DEF Runs
  <2> QED
    BY <2>1, <2>2 DEF Next
<1> QED
  BY <1>1, <1>2, Invariance, PTL DEF Spec, RunsOnce, Once!Spec

=============================================================================
