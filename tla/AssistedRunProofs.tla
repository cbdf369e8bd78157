-------------------------- MODULE AssistedRunProofs --------------------------
(***************************************************************************)
(* For every number of runs, requests and planned steps: however requests  *)
(* overlap, no step of the plan is skipped, a run that stopped is          *)
(* complete, and the packet is received once; and a run whose requests     *)
(* never overlapped has recorded the plan, step by step.                   *)
(*                                                                         *)
(* What a request has read may be old when it commits.  The invariant says *)
(* what survives: records are never removed, `stopped` is never taken      *)
(* back, the application is never approved again (Grows).                  *)
(***************************************************************************)
EXTENDS AssistedRun, TLAPS, SequenceTheorems, WellFoundedInduction

Submitting == {"select", "insert", "reselect", "submit"}

Advancing == {"advance", "stop", "advanced"}

\* The steps of the plan before this cursor have their records.
DoneUpTo(r, cursor) == \A index \in 0..(cursor - 1) : Done(r, index)

SequencesBounded(r) == \E b \in Nat : \A i \in DOMAIN steps[r] : steps[r][i].sequence <= b

RunInv(r) ==
  /\ run[r] = None => steps[r] = <<>>
  /\ run[r] # None =>
       /\ DoneUpTo(r, run[r].cursor)
       /\ run[r].status = "stopped_before_submit" => run[r].stopped
       /\ run[r].stopped => ~approved /\ DoneUpTo(r, PlanLength)
  /\ SequencesBounded(r)

\* What a request about an existing run has loaded.
LoadedInv(h) ==
  pc[h] \notin {"idle", "start"} =>
    /\ run[subject[h]] # None
    /\ seen[h].row # None
    /\ DoneUpTo(subject[h], seen[h].row.cursor)
    /\ seen[h].row.stopped => run[subject[h]].stopped
    /\ subject[h] \notin overlapped => seen[h].row = run[subject[h]]

StartInv(h) ==
  pc[h] = "start" =>
    /\ run[subject[h]] = None
    /\ \A g \in Handlers \ {h} : subject[g] # subject[h]

AdvanceInv(h) ==
  /\ pc[h] \in Advancing => MayAdvance(seen[h].row.status) /\ seen[h].row.cursor <= seen[h].goal
  /\ pc[h] = "advanced" /\ NextStatus(seen[h].goal) # "running" => seen[h].also \/ ~approved
  /\ pc[h] = "pause" => MayPause(seen[h].row.status)
  /\ pc[h] = "resume" => MayResume(seen[h].row.status)

SubmitInv(h) ==
  /\ pc[h] \in Submitting => run[subject[h]].stopped
  /\ pc[h] \in {"select", "insert", "reselect"} => ~seen[h].also
  /\ pc[h] = "submit" => (seen[h].also <=> receipts = <<>>)

HandlerInv(h) ==
  /\ pc[h] # "idle" => subject[h] \in Runs
  /\ pc[h] = "idle" => subject[h] = None
  /\ LoadedInv(h)
  /\ StartInv(h)
  /\ AdvanceInv(h)
  /\ SubmitInv(h)

\* The unique index lets one transaction at a time hold the key.
OneInserter ==
  \A g, h \in Handlers :
    pc[g] = "submit" /\ seen[g].also /\ pc[h] = "submit" /\ seen[h].also => g = h

SoloInv ==
  \A r \in Runs \ overlapped : \A g, h \in Handlers : subject[g] = r /\ subject[h] = r => g = h

IInv ==
  /\ TypeOK
  /\ \A r \in Runs : RunInv(r)
  /\ \A h \in Handlers : HandlerInv(h)
  /\ OneInserter
  /\ SoloInv
  /\ OneReceipt
  /\ DeliveriesAreComplete
  /\ RecordsFollowPlan

\* What no step takes back.
Grows ==
  /\ \A r \in Runs : run[r] # None => run'[r] # None /\ (run[r].stopped => run'[r].stopped)
  /\ \A r \in Runs : \A index \in Nat : Done(r, index) => Done(r, index)'
  /\ approved' => approved
  /\ overlapped \subseteq overlapped'

SameHandler(h) == pc'[h] = pc[h] /\ subject'[h] = subject[h] /\ seen'[h] = seen[h]

-----------------------------------------------------------------------------

\* A request keeps what it knows while another one acts.
LEMMA OtherHandlerKeeps ==
  ASSUME IInv, NEW h \in Handlers, SameHandler(h), Grows,
         pc[h] = "start" =>
           run'[subject[h]] = None /\ \A g \in Handlers \ {h} : subject'[g] # subject[h],
         pc[h] \notin {"idle", "start"} /\ subject[h] \notin overlapped' =>
           run'[subject[h]] = run[subject[h]],
         pc[h] = "submit" => (receipts' = <<>> <=> receipts = <<>>)
  PROVE  HandlerInv(h)'
  <1>1. HandlerInv(h)
    BY DEF IInv
  <1>2. pc'[h] = pc[h] /\ subject'[h] = subject[h] /\ seen'[h] = seen[h]
    BY DEF SameHandler
  <1>3. LoadedInv(h)'
    <2> SUFFICES ASSUME pc[h] \notin {"idle", "start"} PROVE LoadedInv(h)'
      BY <1>2 DEF LoadedInv
    <2>1. subject[h] \in Runs /\ run[subject[h]] # None /\ seen[h].row # None
      BY <1>1 DEF HandlerInv, LoadedInv
    <2>2. seen[h].row \in RunRow
      BY <2>1 DEF IInv, TypeOK, Seen
    <2>3. \A index \in 0..(seen[h].row.cursor - 1) : index \in Nat
      BY <2>2 DEF RunRow
    <2>4. DoneUpTo(subject[h], seen[h].row.cursor)
      BY <1>1 DEF HandlerInv, LoadedInv
    <2>5. \A index \in 0..(seen[h].row.cursor - 1) : Done(subject[h], index)'
      BY <1>2, <2>1, <2>3, <2>4 DEF DoneUpTo, Grows
    <2>6. DoneUpTo(subject[h], seen[h].row.cursor)'
      BY <1>2, <2>5 DEF DoneUpTo
    <2>q. QED
      BY <1>1, <1>2, <2>1, <2>6 DEF HandlerInv, LoadedInv, Grows
  <1>4. StartInv(h)'
    BY <1>2 DEF StartInv
  <1>5. AdvanceInv(h)'
    BY <1>1, <1>2 DEF HandlerInv, AdvanceInv, Grows
  <1>6. SubmitInv(h)'
    BY <1>1, <1>2 DEF HandlerInv, SubmitInv, LoadedInv, Grows, Submitting
  <1>q. QED
    BY <1>1, <1>2, <1>3, <1>4, <1>5, <1>6 DEF HandlerInv

\* A run that a step leaves as it is.
LEMMA SameRunKeeps ==
  ASSUME NEW r \in Runs, RunInv(r), run'[r] = run[r], steps'[r] = steps[r], approved' => approved
  PROVE  RunInv(r)'
  <1>1. DoneUpTo(r, PlanLength)' <=> DoneUpTo(r, PlanLength)
    BY DEF DoneUpTo, Done
  <1>2. DoneUpTo(r, run[r].cursor)' <=> DoneUpTo(r, run[r].cursor)
    BY DEF DoneUpTo, Done
  <1>3. SequencesBounded(r)'
    BY DEF RunInv, SequencesBounded
  <1>q. QED
    BY <1>1, <1>2, <1>3 DEF RunInv

-----------------------------------------------------------------------------
(* Steps that leave the database as it is                                  *)

LEMMA NothingIsTakenBack ==
  ASSUME UNCHANGED database, overlapped \subseteq overlapped'
  PROVE  Grows
  BY DEF database, Grows, Done

\* What is left to show when a request reads or gives up.
LEMMA ReadingKeeps ==
  ASSUME IInv, NEW h \in Handlers, UNCHANGED database,
         overlapped \subseteq overlapped',
         overlapped' \subseteq Runs,
         \A g \in Handlers \ {h} : SameHandler(g),
         \A g \in Handlers \ {h} : subject'[h] = subject[g] /\ subject[g] \in Runs =>
           pc[g] # "start" /\ subject[g] \in overlapped',
         pc' \in [Handlers -> {"idle", "start", "advance", "stop", "advanced", "pause", "resume",
                               "select", "insert", "reselect", "submit"}],
         subject' \in [Handlers -> Runs \cup {None}],
         seen' \in [Handlers -> Seen],
         HandlerInv(h)',
         pc'[h] = "submit" /\ seen'[h].also =>
           (pc[h] = "submit" /\ seen[h].also) \/ ~InsertWaits
  PROVE  IInv'
  <1>1. UNCHANGED <<approved, run, steps, receipts, recorded>>
    BY DEF database
  <1>2. TypeOK'
    BY <1>1 DEF IInv, TypeOK
  <1>3. ASSUME NEW r \in Runs PROVE RunInv(r)'
    BY <1>1, SameRunKeeps DEF IInv
  <1>4. ASSUME NEW g \in Handlers PROVE HandlerInv(g)'
    <2>1. CASE g = h
      BY <2>1
    <2>2. CASE g # h
      <3>1. pc[g] = "start" => \A f \in Handlers \ {g} : subject'[f] # subject[g]
        <4> SUFFICES ASSUME pc[g] = "start", NEW f \in Handlers \ {g} PROVE subject'[f] # subject[g]
          OBVIOUS
        <4>1. subject[g] \in Runs /\ subject[f] # subject[g]
          BY DEF IInv, HandlerInv, StartInv
        <4>2. CASE f = h
          BY <2>2, <4>1, <4>2
        <4>3. CASE f # h
          BY <4>1, <4>3 DEF SameHandler
        <4>q. QED
          BY <4>2, <4>3
      <3>2. pc[g] = "start" => run[subject[g]] = None
        BY DEF IInv, HandlerInv, StartInv
      <3>q. QED
        BY <1>1, <2>2, <3>1, <3>2, NothingIsTakenBack, OtherHandlerKeeps
    <2>q. QED
      BY <2>1, <2>2
  <1>5. OneInserter'
    BY DEF IInv, OneInserter, SameHandler, InsertWaits
  <1>6. SoloInv'
    <2> SUFFICES ASSUME NEW r \in Runs \ overlapped', NEW f \in Handlers, NEW g \in Handlers,
                        subject'[f] = r, subject'[g] = r
                 PROVE  f = g
      BY DEF SoloInv
    <2>q. QED
      BY DEF IInv, SoloInv, SameHandler
  <1>7. OneReceipt' /\ DeliveriesAreComplete'
    BY <1>1 DEF IInv, OneReceipt, DeliveriesAreComplete, Started
  <1>8. RecordsFollowPlan'
    BY <1>1 DEF IInv, RecordsFollowPlan, Alone, Started
  <1>q. QED
    BY <1>2, <1>3, <1>4, <1>5, <1>6, <1>7, <1>8 DEF IInv

\* A request is over.
LEMMA OverInv ==
  ASSUME NEW h \in Handlers, pc'[h] = "idle", subject'[h] = None
  PROVE  HandlerInv(h)'
  BY DEF HandlerInv, LoadedInv, StartInv, AdvanceInv, SubmitInv, Advancing, Submitting

LEMMA NothingSeenTyped == NothingSeen \in Seen
  BY PlanAssumption DEF NothingSeen, Loaded, Seen

LEMMA RollBackKeeps ==
  ASSUME IInv, NEW h \in Handlers, Reply(h), UNCHANGED database
  PROVE  IInv'
  <1>1. /\ pc' = [pc EXCEPT ![h] = "idle"]
        /\ seen' = [seen EXCEPT ![h] = NothingSeen]
        /\ subject' = [subject EXCEPT ![h] = None]
        /\ overlapped' = overlapped
    BY DEF Reply
  <1>2. pc'[h] = "idle" /\ subject'[h] = None
    BY <1>1 DEF IInv, TypeOK
  <1>3. \A g \in Handlers \ {h} : SameHandler(g)
    BY <1>1 DEF IInv, TypeOK, SameHandler
  <1>4. /\ pc' \in [Handlers -> {"idle", "start", "advance", "stop", "advanced", "pause", "resume",
                                 "select", "insert", "reselect", "submit"}]
        /\ subject' \in [Handlers -> Runs \cup {None}]
        /\ seen' \in [Handlers -> Seen]
        /\ overlapped' \subseteq Runs
    BY <1>1, NothingSeenTyped DEF IInv, TypeOK
  <1>q. QED
    BY <1>1, <1>2, <1>3, <1>4, OverInv, ReadingKeeps, NoneIsNothing

LEMMA BeginKeeps ==
  ASSUME IInv, NEW h \in Handlers, NEW r \in Runs, NEW read \in Seen,
         NEW where \in {"start", "advance", "pause", "resume", "select"},
         Begin(h, r, where, read),
         where = "start" => run[r] = None /\ \A g \in Handlers : subject[g] # r,
         where # "start" => run[r] # None /\ read.row = run[r],
         where = "advance" => MayAdvance(run[r].status) /\ run[r].cursor <= read.goal,
         where = "pause" => MayPause(run[r].status),
         where = "resume" => MayResume(run[r].status),
         where = "select" => run[r].status = "stopped_before_submit" /\ ~read.also
  PROVE  IInv'
  <1>1. /\ pc[h] = "idle"
        /\ pc' = [pc EXCEPT ![h] = where]
        /\ seen' = [seen EXCEPT ![h] = read]
        /\ subject' = [subject EXCEPT ![h] = r]
        /\ UNCHANGED database
    BY DEF Begin
  <1>2. /\ overlapped \subseteq overlapped' /\ overlapped' \subseteq overlapped \cup {r}
        /\ (\E g \in Handlers : subject[g] = r) => r \in overlapped'
    BY DEF Begin
  <1>3. UNCHANGED <<approved, run, steps, receipts, recorded>>
    BY <1>1 DEF database
  <1>4. pc'[h] = where /\ subject'[h] = r /\ seen'[h] = read
    BY <1>1 DEF IInv, TypeOK
  <1>5. \A g \in Handlers \ {h} : SameHandler(g)
    BY <1>1 DEF IInv, TypeOK, SameHandler
  <1>6. /\ pc' \in [Handlers -> {"idle", "start", "advance", "stop", "advanced", "pause", "resume",
                                 "select", "insert", "reselect", "submit"}]
        /\ subject' \in [Handlers -> Runs \cup {None}]
        /\ seen' \in [Handlers -> Seen]
        /\ overlapped' \subseteq Runs
    BY <1>1, <1>2 DEF IInv, TypeOK
  <1>7. LoadedInv(h)'
    <2> SUFFICES ASSUME where # "start" PROVE LoadedInv(h)'
      BY <1>4 DEF LoadedInv
    <2>1. run[r] # None /\ read.row = run[r]
      OBVIOUS
    <2>2. DoneUpTo(r, run[r].cursor)
      BY <2>1 DEF IInv, RunInv
    <2>3. DoneUpTo(r, read.row.cursor)'
      BY <1>3, <2>1, <2>2 DEF DoneUpTo, Done
    <2>4. DoneUpTo(subject[h], seen[h].row.cursor)'
      BY <1>4, <2>3 DEF DoneUpTo, Done
    <2>q. QED
      BY <1>3, <1>4, <2>1, <2>4 DEF LoadedInv
  <1>8. StartInv(h)'
    BY <1>3, <1>4, <1>5 DEF StartInv, SameHandler
  <1>9. AdvanceInv(h)'
    BY <1>4 DEF AdvanceInv, Advancing
  <1>10. SubmitInv(h)'
    BY <1>3, <1>4 DEF SubmitInv, Submitting, IInv, RunInv
  <1>11. HandlerInv(h)'
    BY <1>4, <1>7, <1>8, <1>9, <1>10 DEF HandlerInv
  <1>12. ASSUME NEW g \in Handlers \ {h}, subject'[h] = subject[g]
         PROVE  pc[g] # "start" /\ subject[g] \in overlapped'
    <2>1. where # "start"
      BY <1>4, <1>12
    <2>2. run[subject[g]] # None
      BY <1>4, <1>12, <2>1
    <2>q. QED
      BY <1>2, <1>4, <1>12, <2>2 DEF IInv, HandlerInv, StartInv
  <1>q. QED
    BY <1>1, <1>2, <1>4, <1>5, <1>6, <1>11, <1>12, ReadingKeeps

LEMMA GoalReached ==
  ASSUME NEW cursor \in 0..PlanLength, NEW requested \in 1..MaxSteps
  PROVE  Goal(cursor, requested) \in 0..PlanLength /\ cursor <= Goal(cursor, requested)
  BY PlanAssumption DEF Goal

\* A loaded row and a goal are something a request may have seen.
LEMMA LoadedTyped ==
  ASSUME NEW row \in RunRow, NEW goal \in 0..PlanLength
  PROVE  /\ Loaded(row, goal) \in Seen
         /\ Loaded(row, goal).row = row /\ Loaded(row, goal).goal = goal
         /\ ~Loaded(row, goal).also
  BY DEF Loaded, Seen

LEMMA AcceptsKeeps ==
  ASSUME IInv, NEW h \in Handlers, NEW r \in Runs, Accepts(h, r)
  PROVE  IInv'
  <1>1. CASE StartReads(h, r)
    BY <1>1, NothingSeenTyped, BeginKeeps DEF StartReads
  <1>2. ASSUME NEW requested \in 1..MaxSteps, AdvanceReads(h, r, requested) PROVE IInv'
    <2>1. run[r] \in RunRow /\ run[r].cursor \in 0..PlanLength
      BY <1>2 DEF AdvanceReads, IInv, TypeOK, RunRow
    <2>2. PICK goal \in 0..PlanLength :
            /\ run[r].cursor <= goal /\ MayAdvance(run[r].status) /\ run[r] # None
            /\ Begin(h, r, "advance", Loaded(run[r], goal))
      BY <1>2, <2>1, GoalReached DEF AdvanceReads
    <2>q. QED
      BY <2>1, <2>2, LoadedTyped, BeginKeeps
  <1>3. ASSUME NEW where \in {"pause", "resume", "select"},
               run[r] # None,
               Begin(h, r, where, Loaded(run[r], 0)),
               where = "pause" => MayPause(run[r].status),
               where = "resume" => MayResume(run[r].status),
               where = "select" => MaySubmit(run[r].status)
        PROVE  IInv'
    <2>1. run[r] \in RunRow /\ 0 \in 0..PlanLength
      BY <1>3, PlanAssumption DEF IInv, TypeOK
    <2>q. QED
      BY <1>3, <2>1, LoadedTyped, BeginKeeps DEF MaySubmit
  <1>q. QED
    BY <1>1, <1>2, <1>3 DEF Accepts, PauseReads, ResumeReads, SubmitReads

\* A non-empty set of numbers has a smallest one.
LEMMA SmallestExists ==
  ASSUME NEW S \in SUBSET Nat, S # {}
  PROVE  \E m \in S : \A n \in S : ~(n < m)
  <1>1. \E m \in S : \A n \in S : ~(<<n, m>> \in OpToRel(<, Nat))
    BY WFMin, NatLessThanWellFounded, Zenon
  <1>q. QED
    BY <1>1, Zenon DEF OpToRel

\* The sequence numbers are bounded, so that there is a largest one.
LEMMA NextSequenceTyped ==
  ASSUME NEW rows \in Seq(StepRow), \E b \in Nat : \A i \in DOMAIN rows : rows[i].sequence <= b
  PROVE  NextSequence(rows) \in Nat
  <1> DEFINE numbers == {rows[i].sequence : i \in DOMAIN rows}
             bounds == {b \in Nat : \A i \in DOMAIN rows : rows[i].sequence <= b}
             IsTop(m) == \A i \in DOMAIN rows : rows[i].sequence <= m
             top == CHOOSE m \in numbers : IsTop(m)
  <1>1. CASE rows = <<>>
    BY <1>1 DEF NextSequence
  <1>2. CASE rows # <<>>
    <2>1. \A i \in DOMAIN rows : rows[i].sequence \in Nat
      <3>1. \A i \in DOMAIN rows : rows[i] \in StepRow
        BY LenProperties, ElementOfSeq
      <3>q. QED
        BY <3>1 DEF StepRow
    <2>2. 1 \in DOMAIN rows
      BY <1>2
    <2>3. bounds \in SUBSET Nat /\ bounds # {}
      OBVIOUS
    <2>4. PICK m \in bounds : \A n \in bounds : ~(n < m)
      <3> HIDE DEF bounds
      <3>q. QED
        BY <2>3, SmallestExists
    <2>5. m \in numbers
      <3> SUFFICES ASSUME m \notin numbers PROVE FALSE
        OBVIOUS
      <3>1. \A i \in DOMAIN rows : rows[i].sequence < m
        BY <2>1, <2>4
      <3>2. m - 1 \in bounds
        BY <2>1, <2>2, <2>4, <3>1
      <3>q. QED
        BY <2>4, <3>2
    <2>6. \E n \in numbers : IsTop(n)
      BY <2>4, <2>5
    <2>7. top \in numbers
      <3> HIDE DEF numbers, IsTop
      <3>q. QED
        BY <2>6
    <2>8. top \in Nat
      BY <2>1, <2>7
    <2>9. NextSequence(rows) = IF rows = <<>> \/ top = 0 THEN 0 ELSE top + 1
      BY DEF NextSequence
    <2>q. QED
      BY <2>8, <2>9
  <1>q. QED
    BY <1>1, <1>2

LEMMA ContinueKeeps ==
  ASSUME IInv, NEW h \in Handlers, NEW read \in Seen,
         NEW where \in {"stop", "advanced", "insert", "reselect", "submit"},
         Continue(h, where, read), UNCHANGED database,
         pc[h] \notin {"idle", "start"},
         read.row = seen[h].row,
         where \in {"stop", "advanced"} => MayAdvance(read.row.status) /\ read.row.cursor <= read.goal,
         where = "advanced" /\ NextStatus(read.goal) # "running" => read.also \/ ~approved,
         where \in {"insert", "reselect", "submit"} => pc[h] \in Submitting,
         where \in {"insert", "reselect"} => ~read.also,
         where = "submit" => (read.also <=> receipts = <<>>),
         where = "submit" /\ read.also => ~InsertWaits
  PROVE  IInv'
  <1>1. /\ pc' = [pc EXCEPT ![h] = where]
        /\ seen' = [seen EXCEPT ![h] = read]
        /\ subject' = subject /\ overlapped' = overlapped
        /\ UNCHANGED <<approved, run, steps, receipts, recorded>>
    BY DEF Continue, database
  <1>2. pc'[h] = where /\ seen'[h] = read
    BY <1>1 DEF IInv, TypeOK
  <1>3. \A g \in Handlers \ {h} : SameHandler(g)
    BY <1>1 DEF IInv, TypeOK, SameHandler
  <1>4. /\ pc' \in [Handlers -> {"idle", "start", "advance", "stop", "advanced", "pause", "resume",
                                 "select", "insert", "reselect", "submit"}]
        /\ subject' \in [Handlers -> Runs \cup {None}]
        /\ seen' \in [Handlers -> Seen]
        /\ overlapped' \subseteq Runs
    BY <1>1 DEF IInv, TypeOK
  <1>5. HandlerInv(h)
    BY DEF IInv
  <1>6. LoadedInv(h)'
    <2>1. DoneUpTo(subject[h], seen[h].row.cursor)' <=> DoneUpTo(subject[h], read.row.cursor)
      BY <1>1, <1>2 DEF DoneUpTo, Done
    <2>q. QED
      BY <1>1, <1>2, <1>5, <2>1 DEF HandlerInv, LoadedInv
  <1>7. StartInv(h)' /\ AdvanceInv(h)'
    BY <1>1, <1>2 DEF StartInv, AdvanceInv, Advancing
  <1>8. SubmitInv(h)'
    BY <1>1, <1>2, <1>5 DEF HandlerInv, SubmitInv, Submitting
  <1>9. HandlerInv(h)'
    BY <1>1, <1>2, <1>5, <1>6, <1>7, <1>8 DEF HandlerInv
  <1>10. ASSUME NEW g \in Handlers \ {h}, subject'[h] = subject[g]
         PROVE  pc[g] # "start" /\ subject[g] \in overlapped'
    BY <1>1, <1>5, <1>10 DEF IInv, HandlerInv, LoadedInv, StartInv, SoloInv
  <1>q. QED
    BY <1>1, <1>2, <1>3, <1>4, <1>9, <1>10, ReadingKeeps

LEMMA ReadsKeep ==
  ASSUME IInv, NEW h \in Handlers,
         \/ AdvanceReadsSteps(h) \/ AdvanceReadsApplication(h)
         \/ SubmitSelects(h) \/ SubmitInserts(h) \/ SubmitReselects(h)
  PROVE  IInv'
  <1>1. seen[h] \in Seen /\ HandlerInv(h)
    BY DEF IInv, TypeOK
  <1>2. CASE AdvanceReadsSteps(h)
    <2> DEFINE where == IF NextStatus(seen[h].goal) = "running" THEN "advanced" ELSE "stop"
               read == [seen[h] EXCEPT !.sequence = NextSequence(steps[subject[h]])]
    <2>1. pc[h] = "advance" /\ Continue(h, where, read) /\ UNCHANGED database
      BY <1>2 DEF AdvanceReadsSteps
    <2>2. subject[h] \in Runs
      BY <1>1, <2>1 DEF HandlerInv
    <2>3. NextSequence(steps[subject[h]]) \in Nat
      BY <2>2, NextSequenceTyped DEF IInv, TypeOK, RunInv, SequencesBounded
    <2>4. /\ read \in Seen
          /\ read.row = seen[h].row /\ read.goal = seen[h].goal /\ read.also = seen[h].also
      BY <1>1, <2>3 DEF Seen
    <2>5. where \in {"advanced", "stop"} /\ (where = "advanced" => NextStatus(seen[h].goal) = "running")
      OBVIOUS
    <2> HIDE DEF where, read
    <2>q. QED
      BY <1>1, <2>1, <2>4, <2>5, ContinueKeeps DEF HandlerInv, AdvanceInv, Advancing
  <1>3. CASE AdvanceReadsApplication(h)
    <2> DEFINE read == [seen[h] EXCEPT !.also = approved]
    <2>1. pc[h] = "stop" /\ Continue(h, "advanced", read) /\ UNCHANGED database
      BY <1>3 DEF AdvanceReadsApplication
    <2>2. /\ read \in Seen
          /\ read.row = seen[h].row /\ read.goal = seen[h].goal /\ read.also = approved
      BY <1>1 DEF Seen, IInv, TypeOK
    <2> HIDE DEF read
    <2>q. QED
      BY <1>1, <2>1, <2>2, ContinueKeeps DEF HandlerInv, AdvanceInv, Advancing
  <1>4. CASE SubmitSelects(h)
    BY <1>1, <1>4, ContinueKeeps DEF SubmitSelects, HandlerInv, SubmitInv, Submitting
  <1>5. CASE SubmitInserts(h)
    <2> DEFINE read == [seen[h] EXCEPT !.also = TRUE]
    <2>1. read \in Seen /\ read.row = seen[h].row /\ read.also
      BY <1>1 DEF Seen
    <2>2. pc[h] = "insert" /\ UNCHANGED database /\ ~InsertWaits
      BY <1>5 DEF SubmitInserts
    <2>3. CASE receipts # <<>> /\ Continue(h, "reselect", seen[h])
      BY <1>1, <2>2, <2>3, ContinueKeeps DEF HandlerInv, SubmitInv, Submitting
    <2>4. CASE receipts = <<>> /\ Continue(h, "submit", read)
      <3> HIDE DEF read
      <3>q. QED
        BY <1>1, <2>1, <2>2, <2>4, ContinueKeeps DEF HandlerInv, SubmitInv, Submitting
    <2>q. QED
      BY <1>5, <2>3, <2>4 DEF SubmitInserts, IntegrityError
  <1>6. CASE SubmitReselects(h)
    <2>1. pc[h] = "reselect" /\ UNCHANGED database
      BY <1>6 DEF SubmitReselects
    <2>2. CASE receipts # <<>> /\ Continue(h, "submit", seen[h])
      BY <1>1, <2>1, <2>2, ContinueKeeps DEF HandlerInv, SubmitInv, Submitting
    <2>3. CASE Reply(h)
      BY <2>1, <2>3, RollBackKeeps
    <2>q. QED
      BY <1>6, <2>2, <2>3 DEF SubmitReselects
  <1>q. QED
    BY <1>2, <1>3, <1>4, <1>5, <1>6

-----------------------------------------------------------------------------
(* Commits                                                                 *)

\* Field by field: what the row has, where nothing new is written.
LEMMA UpdatedFields ==
  ASSUME NEW row \in RunRow, NEW loaded \in RunRow, NEW new \in RunRow
  PROVE  LET row2 == Updated(row, loaded, new)
         IN  /\ row2 \in RunRow
             /\ row2.status = IF new.status = loaded.status THEN row.status ELSE new.status
             /\ row2.cursor = IF new.cursor = loaded.cursor THEN row.cursor ELSE new.cursor
             /\ new.stopped = loaded.stopped => row2.stopped = row.stopped
             /\ new.stopped # loaded.stopped => row2.stopped = new.stopped
             /\ row.stopped /\ (loaded.stopped => new.stopped) => row2.stopped
             /\ new.stopped /\ (loaded.stopped => row.stopped) => row2.stopped
             /\ row2.stopped => row.stopped \/ new.stopped
  <1>1. DOMAIN row = {"status", "cursor", "stopped"}
    BY DEF RunRow
  <1>q. QED
    BY <1>1 DEF Updated, RunRow

\* The records of a run are the plan up to the cursor, as in RecordsFollowPlan.
Follows(r) ==
  /\ Len(steps[r]) = run[r].cursor
  /\ \A i \in DOMAIN steps[r] : steps[r][i].index = i - 1
  /\ run[r].status = "stopped_before_submit" <=> run[r].cursor = PlanLength

\* What is left to show of a commit that writes a run.
LEMMA RowWriteKeeps ==
  ASSUME IInv, NEW h \in Handlers, NEW r \in Runs, r = subject[h], pc[h] # "idle", Reply(h),
         NEW row2 \in RunRow, run' = [run EXCEPT ![r] = row2],
         steps' \in [Runs -> Seq(StepRow)],
         \A s \in Runs \ {r} : steps'[s] = steps[s],
         \A index \in Nat : Done(r, index) => Done(r, index)',
         UNCHANGED <<receipts, recorded>>,
         approved' \in BOOLEAN,
         approved' => approved,
         run[r] # None => (run[r].stopped => row2.stopped),
         RunInv(r)',
         r \notin overlapped => Follows(r)'
  PROVE  IInv'
  <1>1. /\ pc' = [pc EXCEPT ![h] = "idle"]
        /\ seen' = [seen EXCEPT ![h] = NothingSeen]
        /\ subject' = [subject EXCEPT ![h] = None]
        /\ overlapped' = overlapped
    BY DEF Reply
  <1>2. pc'[h] = "idle" /\ subject'[h] = None
    BY <1>1 DEF IInv, TypeOK
  <1>3. \A g \in Handlers \ {h} : SameHandler(g)
    BY <1>1 DEF IInv, TypeOK, SameHandler
  <1>4. TypeOK'
    BY <1>1, NothingSeenTyped DEF IInv, TypeOK
  <1>5. /\ run'[r] = row2 /\ row2 # None
        /\ \A s \in Runs \ {r} : run'[s] = run[s]
    BY NoneIsNothing DEF IInv, TypeOK
  <1>6. ASSUME NEW s \in Runs PROVE RunInv(s)'
    BY <1>5, SameRunKeeps DEF IInv
  <1>7. Grows
    <2>1. \A s \in Runs : \A index \in Nat : Done(s, index) => Done(s, index)'
      <3>1. ASSUME NEW s \in Runs \ {r}, NEW index \in Nat, Done(s, index) PROVE Done(s, index)'
        BY <3>1 DEF Done
      <3>q. QED
        BY <3>1
    <2>q. QED
      BY <1>1, <1>5, <2>1 DEF Grows
  <1>8. ASSUME NEW g \in Handlers PROVE HandlerInv(g)'
    <2>1. CASE g = h
      BY <1>2, <2>1, OverInv
    <2>2. CASE g # h
      <3>1. ASSUME pc[g] = "start"
            PROVE  /\ run'[subject[g]] = None
                   /\ \A f \in Handlers \ {g} : subject'[f] # subject[g]
        <4>1. /\ subject[g] \in Runs \ {r} /\ run[subject[g]] = None
              /\ \A f \in Handlers \ {g} : subject[f] # subject[g]
          BY <2>2, <3>1 DEF IInv, HandlerInv, StartInv
        <4>q. QED
          BY <1>2, <1>3, <1>5, <4>1, NoneIsNothing DEF SameHandler
      <3>2. ASSUME pc[g] \notin {"idle", "start"}, subject[g] \notin overlapped'
            PROVE  run'[subject[g]] = run[subject[g]]
        <4>1. subject[g] \in Runs
          BY <3>2 DEF IInv, HandlerInv
        <4>2. subject[g] # r
          BY <1>1, <2>2, <3>2, <4>1 DEF IInv, SoloInv
        <4>q. QED
          BY <1>5, <4>1, <4>2
      <3>q. QED
        BY <1>3, <1>7, <2>2, <3>1, <3>2, OtherHandlerKeeps
    <2>q. QED
      BY <2>1, <2>2
  <1>9. OneInserter'
    BY <1>2, <1>3 DEF IInv, OneInserter, SameHandler
  <1>10. SoloInv'
    BY <1>1, <1>2, <1>3, NoneIsNothing DEF IInv, SoloInv, SameHandler
  <1>11. OneReceipt' /\ DeliveriesAreComplete'
    BY <1>5 DEF IInv, OneReceipt, DeliveriesAreComplete, Started
  <1>12. RecordsFollowPlan'
    <2>1. ASSUME NEW s \in Runs, s \notin overlapped, run'[s] # None PROVE Follows(s)'
      BY <1>5, <2>1 DEF IInv, RecordsFollowPlan, Follows, Alone, Started
    <2>q. QED
      BY <1>1, <2>1 DEF RecordsFollowPlan, Follows, Alone, Started
  <1>q. QED
    BY <1>4, <1>6, <1>8, <1>9, <1>10, <1>11, <1>12 DEF IInv

LEMMA StartCommitsKeeps ==
  ASSUME IInv, NEW h \in Handlers, StartCommits(h)
  PROVE  IInv'
  <1>0. subject[h] \in Runs
    BY DEF StartCommits, IInv, HandlerInv
  <1>r. PICK r \in Runs : r = subject[h]
    BY <1>0
  <1> DEFINE row2 == [status |-> "queued", cursor |-> 0, stopped |-> FALSE]
  <1>1. /\ pc[h] = "start" /\ Reply(h)
        /\ run' = [run EXCEPT ![r] = row2]
        /\ UNCHANGED <<approved, steps, receipts, recorded>>
    BY <1>r DEF StartCommits
  <1>2. run[r] = None /\ steps[r] = <<>>
    BY <1>r, <1>1 DEF IInv, HandlerInv, StartInv, RunInv
  <1>3. row2 \in RunRow
    BY PlanAssumption DEF RunRow, RunStatus
  <1>4. run'[r] = row2 /\ row2 # None
    BY <1>1, <1>2, <1>3, NoneIsNothing DEF IInv, TypeOK
  <1>5. /\ run'[r].cursor = 0 /\ run'[r].status = "queued" /\ run'[r].stopped = FALSE
    BY <1>4
  <1>6. steps'[r] = <<>> /\ DOMAIN steps'[r] = {}
    BY <1>1, <1>2
  <1>7. RunInv(r)'
    <2>1. SequencesBounded(r)'
      BY <1>1, <1>6 DEF SequencesBounded
    <2>2. DoneUpTo(r, run[r].cursor)'
      BY <1>5 DEF DoneUpTo
    <2>q. QED
      BY <1>4, <1>5, <2>1, <2>2 DEF RunInv
  <1>8. Follows(r)'
    BY <1>5, <1>6, PlanAssumption DEF Follows
  <1>9. \A index \in Nat : Done(r, index) => Done(r, index)'
    BY <1>1 DEF Done
  <1> HIDE DEF row2
  <1>q. QED
    BY <1>r, <1>1, <1>2, <1>3, <1>7, <1>8, <1>9, RowWriteKeeps DEF IInv, TypeOK

LEMMA StatusCommitKeeps ==
  ASSUME IInv, NEW h \in Handlers, NEW status \in {"paused", "running"},
         pc[h] = IF status = "paused" THEN "pause" ELSE "resume",
         Write(subject[h], h, [seen[h].row EXCEPT !.status = status]),
         Reply(h),
         UNCHANGED <<approved, steps, receipts, recorded>>
  PROVE  IInv'
  <1>1. PICK r \in Runs : r = subject[h]
    BY DEF IInv, HandlerInv
  <1>2. HandlerInv(h) /\ RunInv(r)
    BY DEF IInv
  <1>3. pc[h] \in {"pause", "resume"} /\ UNCHANGED <<approved, steps, receipts, recorded>>
    OBVIOUS
  <1>4. PICK loaded \in RunRow : loaded = seen[h].row
    BY <1>2, <1>3 DEF HandlerInv, LoadedInv, IInv, TypeOK, Seen
  <1>5. /\ run[r] \in RunRow /\ run[r] # None
        /\ loaded.status # "stopped_before_submit"
        /\ r \notin overlapped => loaded = run[r]
    BY <1>1, <1>2, <1>3, <1>4
    DEF HandlerInv, LoadedInv, AdvanceInv, MayPause, MayResume, IInv, TypeOK
  <1> DEFINE new == [loaded EXCEPT !.status = status]
             row2 == Updated(run[r], loaded, new)
  <1>6. /\ new \in RunRow
        /\ new.status = status /\ new.cursor = loaded.cursor /\ new.stopped = loaded.stopped
    BY DEF RunRow, RunStatus
  <1> HIDE DEF new
  <1>7. /\ row2 \in RunRow
        /\ row2.status = IF status = loaded.status THEN run[r].status ELSE status
        /\ row2.cursor = run[r].cursor
        /\ row2.stopped = run[r].stopped
    BY <1>5, <1>6, UpdatedFields
  <1>8. run' = [run EXCEPT ![r] = row2]
    BY <1>1, <1>4 DEF Write, new
  <1> HIDE DEF row2
  <1>9. run'[r] = row2 /\ steps'[r] = steps[r] /\ row2 # None
    BY <1>3, <1>7, <1>8, NoneIsNothing DEF IInv, TypeOK
  <1>10. RunInv(r)'
    <2>1. DoneUpTo(r, PlanLength)' <=> DoneUpTo(r, PlanLength)
      BY <1>9 DEF DoneUpTo, Done
    <2>2. DoneUpTo(r, run[r].cursor)' <=> DoneUpTo(r, run[r].cursor)
      BY <1>7, <1>9 DEF DoneUpTo, Done
    <2>3. SequencesBounded(r)'
      BY <1>2, <1>9 DEF RunInv, SequencesBounded
    <2>4. row2.status = "stopped_before_submit" => run[r].status = "stopped_before_submit"
      BY <1>7
    <2>q. QED
      BY <1>2, <1>3, <1>5, <1>7, <1>9, <2>1, <2>2, <2>3, <2>4 DEF RunInv
  <1>11. r \notin overlapped => Follows(r)'
    <2> SUFFICES ASSUME r \notin overlapped PROVE Follows(r)'
      OBVIOUS
    <2>1. Follows(r)
      BY <1>5 DEF IInv, RecordsFollowPlan, Alone, Started, Follows
    <2>2. row2.status # "stopped_before_submit" /\ run[r].status # "stopped_before_submit"
      BY <1>5, <1>7
    <2>q. QED
      BY <1>7, <1>9, <2>1, <2>2 DEF Follows
  <1>12. \A index \in Nat : Done(r, index) => Done(r, index)'
    BY <1>9 DEF Done
  <1>13. /\ steps' \in [Runs -> Seq(StepRow)] /\ approved' \in BOOLEAN
         /\ \A s \in Runs \ {r} : steps'[s] = steps[s]
    BY <1>3 DEF IInv, TypeOK
  <1>14. pc[h] # "idle" /\ UNCHANGED <<receipts, recorded>> /\ (approved' => approved)
         /\ (run[r].stopped => row2.stopped)
    BY <1>3, <1>7
  <1>q. QED
    BY <1>1, <1>7, <1>8, <1>10, <1>11, <1>12, <1>13, <1>14, RowWriteKeeps

LEMMA StatusCommitsKeep ==
  ASSUME IInv, NEW h \in Handlers, PauseCommits(h) \/ ResumeCommits(h)
  PROVE  IInv'
  <1>1. CASE PauseCommits(h)
    <2>1. /\ pc[h] = "pause" /\ Reply(h)
          /\ Write(subject[h], h, [seen[h].row EXCEPT !.status = "paused"])
          /\ UNCHANGED <<approved, steps, receipts, recorded>>
      BY <1>1 DEF PauseCommits
    <2>q. QED
      BY <2>1, StatusCommitKeeps
  <1>2. CASE ResumeCommits(h)
    BY <1>2, StatusCommitKeeps DEF ResumeCommits
  <1>q. QED
    BY <1>1, <1>2

\* A position in a concatenation is in its first part or in its second.
LEMMA Concatenated ==
  ASSUME NEW s \in Seq(StepRow), NEW t \in Seq(StepRow)
  PROVE  /\ s \o t \in Seq(StepRow)
         /\ Len(s) \in Nat /\ Len(s \o t) = Len(s) + Len(t)
         /\ \A i \in DOMAIN s : i \in DOMAIN (s \o t) /\ (s \o t)[i] = s[i]
         /\ \A j \in DOMAIN t :
              Len(s) + j \in DOMAIN (s \o t) /\ (s \o t)[Len(s) + j] = t[j]
         /\ \A i \in DOMAIN (s \o t) : i \in DOMAIN s \/ \E j \in DOMAIN t : i = Len(s) + j
  <1>1. /\ Len(s) \in Nat /\ DOMAIN s = 1..Len(s)
        /\ Len(t) \in Nat /\ DOMAIN t = 1..Len(t)
    BY LenProperties
  <1>2. /\ s \o t \in Seq(StepRow) /\ Len(s \o t) = Len(s) + Len(t)
        /\ \A i \in 1..(Len(s) + Len(t)) :
             (s \o t)[i] = IF i <= Len(s) THEN s[i] ELSE t[i - Len(s)]
    BY ConcatProperties
  <1>3. DOMAIN (s \o t) = 1..(Len(s) + Len(t))
    BY <1>2, LenProperties
  <1>4. \A i \in DOMAIN s : i \in DOMAIN (s \o t) /\ (s \o t)[i] = s[i]
    BY <1>1, <1>2, <1>3
  <1>5. ASSUME NEW j \in DOMAIN t
        PROVE  Len(s) + j \in DOMAIN (s \o t) /\ (s \o t)[Len(s) + j] = t[j]
    <2>1. /\ Len(s) + j \in 1..(Len(s) + Len(t))
          /\ ~(Len(s) + j <= Len(s)) /\ (Len(s) + j) - Len(s) = j
      BY <1>1
    <2>q. QED
      BY <1>2, <1>3, <2>1
  <1>6. ASSUME NEW i \in DOMAIN (s \o t), i \notin DOMAIN s
        PROVE  \E j \in DOMAIN t : i = Len(s) + j
    <2>1. i - Len(s) \in DOMAIN t /\ i = Len(s) + (i - Len(s))
      BY <1>1, <1>3, <1>6
    <2>q. QED
      BY <2>1
  <1>q. QED
    BY <1>1, <1>2, <1>4, <1>5, <1>6

\* The records of an advance.
LEMMA ExecutedRows ==
  ASSUME NEW from \in 0..PlanLength, NEW goal \in 0..PlanLength, from <= goal, NEW first \in Nat
  PROVE  /\ Executed(from, goal, first) \in Seq(StepRow)
         /\ Len(Executed(from, goal, first)) = goal - from
         /\ \A i \in 1..(goal - from) :
              /\ Executed(from, goal, first)[i].index = from + i - 1
              /\ Executed(from, goal, first)[i].sequence = first + i - 1
  <1>1. goal - from \in Nat /\ PlanLength \in Nat
    BY PlanAssumption
  <1>2. \A i \in 1..(goal - from) :
          [sequence |-> first + i - 1, index |-> from + i - 1] \in StepRow
    BY <1>1 DEF StepRow
  <1>q. QED
    BY <1>1, <1>2 DEF Executed

LEMMA AdvanceCommitsKeeps ==
  ASSUME IInv, NEW h \in Handlers, AdvanceCommits(h)
  PROVE  IInv'
  <1>1. PICK r \in Runs : r = subject[h]
    BY DEF AdvanceCommits, IInv, HandlerInv
  <1>2. pc[h] = "advanced" /\ HandlerInv(h) /\ RunInv(r)
    BY DEF IInv, AdvanceCommits
  <1>3. PICK loaded \in RunRow : loaded = seen[h].row
    BY <1>2 DEF HandlerInv, LoadedInv, IInv, TypeOK, Seen
  <1>4. PICK goal \in 0..PlanLength, first \in Nat : goal = seen[h].goal /\ first = seen[h].sequence
    BY DEF IInv, TypeOK, Seen
  <1>5. /\ run[r] \in RunRow /\ run[r] # None
        /\ loaded.status \in {"queued", "running"} /\ loaded.cursor <= goal
        /\ loaded.stopped => run[r].stopped
        /\ DoneUpTo(r, loaded.cursor)
        /\ r \notin overlapped => loaded = run[r]
        /\ NextStatus(goal) # "running" => seen[h].also \/ ~approved
    BY <1>1, <1>2, <1>3, <1>4
    DEF HandlerInv, LoadedInv, AdvanceInv, Advancing, MayAdvance, IInv, TypeOK
  <1>6. loaded.cursor \in 0..PlanLength /\ loaded.stopped \in BOOLEAN
    BY DEF RunRow
  <1> DEFINE new == [status |-> NextStatus(goal), cursor |-> goal,
                     stopped |-> loaded.stopped \/ NextStatus(goal) # "running"]
  <1>7. /\ new \in RunRow
        /\ new.status = NextStatus(goal) /\ new.cursor = goal
        /\ new.stopped <=> (loaded.stopped \/ NextStatus(goal) # "running")
    BY <1>6 DEF RunRow, RunStatus, NextStatus
  <1>8. PICK rows \in Seq(StepRow) :
          /\ rows = Executed(loaded.cursor, goal, first)
          /\ Len(rows) = goal - loaded.cursor
          /\ \A i \in 1..(goal - loaded.cursor) :
               rows[i].index = loaded.cursor + i - 1 /\ rows[i].sequence = first + i - 1
    BY <1>5, <1>6, ExecutedRows
  <1>9. /\ steps' = [steps EXCEPT ![r] = @ \o rows]
        /\ Write(r, h, new)
        /\ approved' = (approved /\ ~seen[h].also)
        /\ Reply(h)
        /\ UNCHANGED <<receipts, recorded>>
    BY <1>1, <1>3, <1>4, <1>7, <1>8 DEF AdvanceCommits
  <1> HIDE DEF new
  <1>10. PICK row2 \in RunRow :
          /\ row2 = Updated(run[r], loaded, new)
          /\ row2.status = IF new.status = loaded.status THEN run[r].status ELSE new.status
          /\ row2.cursor = IF goal = loaded.cursor THEN run[r].cursor ELSE goal
          /\ run[r].stopped /\ (loaded.stopped => new.stopped) => row2.stopped
          /\ new.stopped /\ (loaded.stopped => run[r].stopped) => row2.stopped
          /\ row2.stopped => run[r].stopped \/ new.stopped
    BY <1>5, <1>7, UpdatedFields
  <1>11. run' = [run EXCEPT ![r] = row2]
    BY <1>3, <1>9, <1>10 DEF Write
  <1>12. run'[r] = row2 /\ steps'[r] = steps[r] \o rows /\ row2 # None
    BY <1>9, <1>11, NoneIsNothing DEF IInv, TypeOK
  <1> DEFINE both == steps[r] \o rows
  <1>13. /\ both \in Seq(StepRow)
         /\ Len(steps[r]) \in Nat /\ Len(both) = Len(steps[r]) + (goal - loaded.cursor)
         /\ \A i \in DOMAIN steps[r] : i \in DOMAIN both /\ both[i] = steps[r][i]
         /\ \A j \in 1..(goal - loaded.cursor) :
              Len(steps[r]) + j \in DOMAIN both /\ both[Len(steps[r]) + j] = rows[j]
         /\ \A i \in DOMAIN both : \/ i \in DOMAIN steps[r]
                                  \/ \E j \in 1..(goal - loaded.cursor) : i = Len(steps[r]) + j
    <2>1. steps[r] \in Seq(StepRow)
      BY DEF IInv, TypeOK
    <2>2. DOMAIN rows = 1..(goal - loaded.cursor) /\ Len(rows) = goal - loaded.cursor
      BY <1>8, LenProperties
    <2>3. /\ both \in Seq(StepRow)
          /\ Len(steps[r]) \in Nat /\ Len(both) = Len(steps[r]) + Len(rows)
          /\ \A i \in DOMAIN steps[r] : i \in DOMAIN both /\ both[i] = steps[r][i]
          /\ \A j \in DOMAIN rows :
               Len(steps[r]) + j \in DOMAIN both /\ both[Len(steps[r]) + j] = rows[j]
          /\ \A i \in DOMAIN both : i \in DOMAIN steps[r] \/ \E j \in DOMAIN rows : i = Len(steps[r]) + j
      BY <2>1, Concatenated
    <2> HIDE DEF both
    <2>q. QED
      BY <2>2, <2>3
  <1>a. steps'[r] = both
    BY <1>12
  <1> HIDE DEF both
  <1>14. \A index \in Nat : Done(r, index) => Done(r, index)'
    BY <1>12, <1>13, <1>a DEF Done
  <1>15. \A index \in 0..(goal - 1) : Done(r, index)'
    <2> SUFFICES ASSUME NEW index \in 0..(goal - 1) PROVE Done(r, index)'
      OBVIOUS
    <2>1. CASE index < loaded.cursor
      BY <1>5, <1>6, <1>14, <2>1 DEF DoneUpTo
    <2>2. CASE index >= loaded.cursor
      <3>1. /\ (index - loaded.cursor) + 1 \in 1..(goal - loaded.cursor)
            /\ loaded.cursor + ((index - loaded.cursor) + 1) - 1 = index
        BY <1>6, <2>2
      <3>2. rows[(index - loaded.cursor) + 1].index = index
        BY <1>8, <3>1
      <3>3. PICK i \in DOMAIN both : both[i].index = index
        BY <1>13, <3>1, <3>2
      <3>q. QED
        BY <1>12, <1>13, <1>a, <3>3 DEF Done
    <2>q. QED
      BY <1>6, <2>1, <2>2
  <1>16. SequencesBounded(r)'
    <2>1. PICK b \in Nat : \A i \in DOMAIN steps[r] : steps[r][i].sequence <= b
      BY <1>2 DEF RunInv, SequencesBounded
    <2>2. ASSUME NEW i \in DOMAIN both PROVE both[i].sequence <= b + first + goal
      <3>1. CASE i \in DOMAIN steps[r]
        <4>1. both[i] \in StepRow /\ both[i].sequence <= b
          BY <1>13, <2>1, <3>1, LenProperties, ElementOfSeq
        <4>2. both[i].sequence \in Nat
          BY <4>1 DEF StepRow
        <4>q. QED
          BY <4>1, <4>2
      <3>2. CASE \E j \in 1..(goal - loaded.cursor) : i = Len(steps[r]) + j
        <4>1. PICK j \in 1..(goal - loaded.cursor) : i = Len(steps[r]) + j
          BY <3>2
        <4>2. both[i].sequence = first + j - 1
          BY <1>8, <1>13, <4>1
        <4>q. QED
          BY <1>6, <4>2
      <3>q. QED
        BY <1>13, <3>1, <3>2
    <2>3. b + first + goal \in Nat
      OBVIOUS
    <2>q. QED
      BY <1>12, <1>13, <1>a, <2>2, <2>3 DEF SequencesBounded
  <1>20. run[r].stopped => row2.stopped
    BY <1>6, <1>7, <1>10
  <1>17. goal = PlanLength <=> NextStatus(goal) = "stopped_before_submit"
    BY PlanAssumption DEF NextStatus
  <1>18. RunInv(r)'
    <2>1. \A index \in 0..(run[r].cursor - 1) : Done(r, index)'
      BY <1>2, <1>5, <1>14 DEF RunInv, DoneUpTo, RunRow
    <2>2. DoneUpTo(r, run[r].cursor)'
      <3>1. run'[r].cursor \in {run[r].cursor, goal}
        BY <1>10, <1>12
      <3>q. QED
        BY <1>15, <2>1, <3>1 DEF DoneUpTo
    <2>3. row2.status = "stopped_before_submit" => row2.stopped
      <3>1. CASE NextStatus(goal) = "running"
        <4>1. row2.status = "stopped_before_submit" => run[r].status = "stopped_before_submit"
          BY <1>7, <1>10, <3>1
        <4>q. QED
          BY <1>2, <1>5, <1>20, <4>1 DEF RunInv
      <3>2. CASE NextStatus(goal) # "running"
        BY <1>5, <1>6, <1>7, <1>10, <1>20, <3>2
      <3>q. QED
        BY <3>1, <3>2
    <2>4. ASSUME row2.stopped PROVE ~approved' /\ DoneUpTo(r, PlanLength)'
      <3>1. CASE run[r].stopped
        <4>1. ~approved /\ \A index \in 0..(PlanLength - 1) : Done(r, index)
          BY <1>2, <1>5, <3>1 DEF RunInv, DoneUpTo
        <4>q. QED
          <5>1. \A index \in 0..(PlanLength - 1) : index \in Nat
            BY PlanAssumption
          <5>2. \A index \in 0..(PlanLength - 1) : Done(r, index)'
            BY <1>14, <4>1, <5>1
          <5>q. QED
            BY <1>9, <4>1, <5>2 DEF DoneUpTo
      <3>2. CASE ~run[r].stopped
        <4>1. NextStatus(goal) # "running"
          BY <1>6, <1>7, <1>10, <2>4, <3>2, <1>5
        <4>2. goal = PlanLength
          BY <1>17, <4>1 DEF NextStatus
        <4>q. QED
          BY <1>5, <1>9, <1>15, <4>1, <4>2 DEF DoneUpTo
      <3>q. QED
        BY <3>1, <3>2
    <2>q. QED
      BY <1>12, <1>16, <2>2, <2>3, <2>4 DEF RunInv
  <1>19. r \notin overlapped => Follows(r)'
    <2> SUFFICES ASSUME r \notin overlapped PROVE Follows(r)'
      OBVIOUS
    <2>1. Follows(r) /\ loaded = run[r]
      BY <1>5 DEF IInv, RecordsFollowPlan, Alone, Started, Follows
    <2>2. row2.cursor = goal /\ row2.status = NextStatus(goal)
      BY <1>7, <1>10, <2>1
    <2>3. Len(steps[r]) = loaded.cursor
      BY <2>1 DEF Follows
    <2>4. Len(both) = goal
      BY <1>6, <1>13, <2>3
    <2>5. ASSUME NEW i \in DOMAIN both PROVE both[i].index = i - 1
      <3>1. CASE i \in DOMAIN steps[r]
        BY <1>13, <2>1, <3>1 DEF Follows
      <3>2. CASE \E j \in 1..(goal - loaded.cursor) : i = Len(steps[r]) + j
        <4>1. PICK j \in 1..(goal - loaded.cursor) : i = Len(steps[r]) + j
          BY <3>2
        <4>2. both[i].index = loaded.cursor + j - 1
          BY <1>8, <1>13, <4>1
        <4>q. QED
          BY <1>6, <2>3, <4>1, <4>2
      <3>q. QED
        BY <1>13, <3>1, <3>2
    <2>6. run'[r].cursor = goal /\ run'[r].status = NextStatus(goal) /\ steps'[r] = both
      BY <1>12, <1>13, <1>a, <2>2
    <2>q. QED
      BY <1>17, <2>4, <2>5, <2>6 DEF Follows
  <1>21. /\ steps' \in [Runs -> Seq(StepRow)]
         /\ \A s \in Runs \ {r} : steps'[s] = steps[s]
         /\ approved' \in BOOLEAN /\ (approved' => approved)
    BY <1>9, <1>13 DEF IInv, TypeOK
  <1>q. QED
    BY <1>1, <1>2, <1>9, <1>10, <1>11, <1>14, <1>18, <1>19, <1>20, <1>21, RowWriteKeeps

LEMMA SubmitCommitsKeeps ==
  ASSUME IInv, NEW h \in Handlers, SubmitCommits(h)
  PROVE  IInv'
  <1>1. PICK r \in Runs : r = subject[h]
    BY DEF SubmitCommits, IInv, HandlerInv
  <1>2. /\ pc[h] = "submit" /\ Reply(h)
        /\ receipts' = IF seen[h].also THEN Append(receipts, r) ELSE receipts
        /\ recorded' = recorded \cup {r}
        /\ UNCHANGED <<approved, run, steps>>
    BY <1>1 DEF SubmitCommits
  <1>3. /\ pc' = [pc EXCEPT ![h] = "idle"]
        /\ seen' = [seen EXCEPT ![h] = NothingSeen]
        /\ subject' = [subject EXCEPT ![h] = None]
        /\ overlapped' = overlapped
    BY <1>2 DEF Reply
  <1>4. pc'[h] = "idle" /\ subject'[h] = None
    BY <1>3 DEF IInv, TypeOK
  <1>5. \A g \in Handlers \ {h} : SameHandler(g)
    BY <1>3 DEF IInv, TypeOK, SameHandler
  <1>6. /\ run[r] # None /\ run[r].stopped
        /\ seen[h].also <=> receipts = <<>>
    BY <1>1, <1>2 DEF IInv, HandlerInv, LoadedInv, SubmitInv, Submitting
  <1>7. receipts' \in Seq(Runs) /\ receipts' # <<>> /\ Len(receipts') = 1
    <2>1. CASE seen[h].also
      <3>1. receipts' = <<r>>
        BY <1>2, <1>6, <2>1
      <3>q. QED
        BY <3>1
    <2>2. CASE ~seen[h].also
      <3>1. receipts' = receipts /\ receipts # <<>> /\ receipts \in Seq(Runs)
        BY <1>2, <1>6, <2>2 DEF IInv, TypeOK
      <3>2. Len(receipts) # 0
        BY <3>1
      <3>q. QED
        BY <3>1, <3>2 DEF IInv, OneReceipt
    <2>q. QED
      BY <2>1, <2>2
  <1>8. TypeOK'
    BY <1>2, <1>3, <1>7, NothingSeenTyped DEF IInv, TypeOK
  <1>9. \A s \in Runs : RunInv(s)'
    BY <1>2, SameRunKeeps DEF IInv
  <1>10. Grows
    BY <1>2, <1>3 DEF Grows, Done
  <1>11. ASSUME NEW g \in Handlers PROVE HandlerInv(g)'
    <2>1. CASE g = h
      BY <1>4, <2>1, OverInv
    <2>2. CASE g # h
      <3>1. ASSUME pc[g] = "start"
            PROVE  /\ run'[subject[g]] = None
                   /\ \A f \in Handlers \ {g} : subject'[f] # subject[g]
        <4>1. /\ subject[g] \in Runs /\ run[subject[g]] = None
              /\ \A f \in Handlers \ {g} : subject[f] # subject[g]
          BY <3>1 DEF IInv, HandlerInv, StartInv
        <4>q. QED
          BY <1>2, <1>4, <1>5, <4>1, NoneIsNothing DEF SameHandler
      <3>2. ASSUME pc[g] = "submit" PROVE receipts # <<>>
        <4>1. SubmitInv(g)
          BY DEF IInv, HandlerInv
        <4>q. QED
          BY <1>2, <1>6, <2>2, <3>2, <4>1 DEF IInv, SubmitInv, OneInserter
      <3>q. QED
        BY <1>2, <1>5, <1>7, <1>10, <2>2, <3>1, <3>2, OtherHandlerKeeps
    <2>q. QED
      BY <2>1, <2>2
  <1>12. OneInserter'
    BY <1>4, <1>5 DEF IInv, OneInserter, SameHandler
  <1>13. SoloInv'
    BY <1>3, <1>4, <1>5, NoneIsNothing DEF IInv, SoloInv, SameHandler
  <1>14. OneReceipt'
    BY <1>2, <1>7 DEF OneReceipt
  <1>15. DeliveriesAreComplete'
    <2> SUFFICES ASSUME NEW s \in Runs, (\E i \in DOMAIN receipts' : receipts'[i] = s) \/ s \in recorded'
                 PROVE  run[s] # None /\ run[s].stopped
      BY <1>2 DEF DeliveriesAreComplete, Started
    <2>1. CASE s = r
      BY <1>6, <2>1
    <2>2. CASE s # r /\ receipts' = receipts
      BY <1>2, <2>2 DEF IInv, DeliveriesAreComplete, Started
    <2>3. CASE s # r /\ receipts' = <<r>>
      BY <1>2, <2>3 DEF IInv, DeliveriesAreComplete, Started
    <2>4. receipts' = receipts \/ receipts' = <<r>>
      <3>1. CASE seen[h].also
        BY <1>2, <1>6, <3>1
      <3>2. CASE ~seen[h].also
        BY <1>2, <3>2
      <3>q. QED
        BY <3>1, <3>2
    <2>q. QED
      BY <2>1, <2>2, <2>3, <2>4
  <1>16. RecordsFollowPlan'
    BY <1>2, <1>3 DEF IInv, RecordsFollowPlan, Alone, Started
  <1>q. QED
    BY <1>8, <1>9, <1>11, <1>12, <1>13, <1>14, <1>15, <1>16 DEF IInv

LEMMA StopApplicationKeeps ==
  ASSUME IInv, StopApplication
  PROVE  IInv'
  <1>1. /\ approved' = FALSE
        /\ UNCHANGED <<run, steps, receipts, recorded, pc, subject, seen, overlapped>>
    BY DEF StopApplication
  <1>2. TypeOK'
    BY <1>1 DEF IInv, TypeOK
  <1>3. \A r \in Runs : RunInv(r)'
    BY <1>1, SameRunKeeps DEF IInv
  <1>4. Grows
    BY <1>1 DEF Grows, Done
  <1>5. ASSUME NEW h \in Handlers PROVE HandlerInv(h)'
    <2>1. SameHandler(h)
      BY <1>1 DEF SameHandler
    <2>2. StartInv(h)
      BY DEF IInv, HandlerInv
    <2>q. QED
      BY <1>1, <1>4, <2>1, <2>2, OtherHandlerKeeps DEF StartInv
  <1>6. /\ OneInserter' /\ SoloInv' /\ OneReceipt' /\ DeliveriesAreComplete'
        /\ RecordsFollowPlan'
    BY <1>1 DEF IInv, OneInserter, SoloInv, OneReceipt, DeliveriesAreComplete, RecordsFollowPlan,
                Alone, Started
  <1>q. QED
    BY <1>2, <1>3, <1>5, <1>6 DEF IInv

-----------------------------------------------------------------------------
(* The theorems                                                            *)

\* The inductive invariant: what the runs are, and what of it a request that
\* has read an older row still knows.
THEOREM AssistedInvariant == Spec => []IInv
  <1>1. Init => IInv
    <2> SUFFICES ASSUME Init PROVE IInv
      OBVIOUS
    <2>1. TypeOK
      BY NothingSeenTyped DEF Init, TypeOK
    <2>2. ASSUME NEW r \in Runs PROVE RunInv(r)
      <3>1. run[r] = None /\ steps[r] = <<>> /\ DOMAIN steps[r] = {}
        BY DEF Init
      <3>q. QED
        BY <3>1 DEF RunInv, SequencesBounded
    <2>3. ASSUME NEW h \in Handlers PROVE HandlerInv(h)
      BY DEF Init, HandlerInv, LoadedInv, StartInv, AdvanceInv, SubmitInv, Advancing, Submitting
    <2>4. OneInserter /\ SoloInv
      BY NoneIsNothing DEF Init, OneInserter, SoloInv
    <2>5. OneReceipt /\ DeliveriesAreComplete /\ RecordsFollowPlan
      BY DEF Init, OneReceipt, DeliveriesAreComplete, RecordsFollowPlan, Alone, Started
    <2>q. QED
      BY <2>1, <2>2, <2>3, <2>4, <2>5 DEF IInv
  <1>2. IInv /\ [Next]_vars => IInv'
    <2> SUFFICES ASSUME IInv, [Next]_vars PROVE IInv'
      OBVIOUS
    <2>1. CASE UNCHANGED vars
      <3>1. UNCHANGED <<approved, run, steps, receipts, recorded, pc, subject, seen, overlapped>>
        BY <2>1 DEF vars, database
      <3>2. TypeOK' /\ \A r \in Runs : RunInv(r)'
        BY <3>1, SameRunKeeps DEF IInv, TypeOK
      <3>3. ASSUME NEW h \in Handlers PROVE HandlerInv(h)'
        <4>1. SameHandler(h) /\ Grows
          BY <3>1 DEF SameHandler, Grows, Done
        <4>2. StartInv(h)
          BY DEF IInv, HandlerInv
        <4>q. QED
          BY <3>1, <4>1, <4>2, OtherHandlerKeeps DEF StartInv
      <3>4. /\ OneInserter' /\ SoloInv' /\ OneReceipt' /\ DeliveriesAreComplete'
            /\ RecordsFollowPlan'
        BY <3>1 DEF IInv, OneInserter, SoloInv, OneReceipt, DeliveriesAreComplete,
                    RecordsFollowPlan, Alone, Started
      <3>q. QED
        BY <3>2, <3>3, <3>4 DEF IInv
    <2>2. ASSUME NEW h \in Handlers, NEW r \in Runs, Accepts(h, r) PROVE IInv'
      BY <2>2, AcceptsKeeps
    <2>3. ASSUME NEW h \in Handlers, Proceeds(h) PROVE IInv'
      <3>1. CASE \/ AdvanceReadsSteps(h) \/ AdvanceReadsApplication(h)
                 \/ SubmitSelects(h) \/ SubmitInserts(h) \/ SubmitReselects(h)
        BY <3>1, ReadsKeep
      <3>2. CASE PauseCommits(h) \/ ResumeCommits(h)
        BY <3>2, StatusCommitsKeep
      <3>3. CASE RollBack(h)
        BY <3>3, RollBackKeeps DEF RollBack
      <3>q. QED
        BY <2>3, <3>1, <3>2, <3>3, StartCommitsKeeps, AdvanceCommitsKeeps, SubmitCommitsKeeps
        DEF Proceeds
    <2>q. QED
      BY <2>1, <2>2, <2>3, StopApplicationKeeps DEF Next
  <1>q. QED
    BY <1>1, <1>2, PTL DEF Spec

\* Type correctness; a cursor never passes the end of the plan.
THEOREM AssistedTypes == Spec => []TypeOK
  BY AssistedInvariant, PTL DEF IInv

\* advance: every planned step before the cursor has its record.
THEOREM NoFieldIsSkipped == Spec => []NoSkippedField
  <1>1. IInv => NoSkippedField
    BY DEF IInv, RunInv, DoneUpTo, NoSkippedField, Started
  <1>q. QED
    BY <1>1, AssistedInvariant, PTL

\* stopped_before_submit: the whole plan was executed and the application is
\* no longer approved.
THEOREM StopsAreComplete == Spec => []StopIsComplete
  <1>1. IInv => StopIsComplete
    BY DEF IInv, RunInv, DoneUpTo, StopIsComplete, Started
  <1>q. QED
    BY <1>1, AssistedInvariant, PTL

\* record_submission: one receipt, however many deliveries race for it.
THEOREM PacketIsReceivedOnce == Spec => []OneReceipt
  BY AssistedInvariant, PTL DEF IInv

\* submit-to-mock-ats: what is delivered was filled to the end.
THEOREM DeliveriesWereComplete == Spec => []DeliveriesAreComplete
  BY AssistedInvariant, PTL DEF IInv

\* The records of a run whose requests never overlapped are its plan.
THEOREM LoneRunsFollowPlan == Spec => []RecordsFollowPlan
  BY AssistedInvariant, PTL DEF IInv

=============================================================================
