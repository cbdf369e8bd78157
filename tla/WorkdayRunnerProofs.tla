------------------------ MODULE WorkdayRunnerProofs ------------------------
(***************************************************************************)
(* For every number of tasks, pages and fields: what a task types is       *)
(* approved, and Next is clicked on complete pages only, as long as a page *)
(* that was all there when it was read stays until the click.              *)
(*                                                                         *)
(* The argument is one of interference.  StandInv is what a task knows of  *)
(* a page that stands; whatever the site, the human or another task does   *)
(* either leaves the page as it is, but for fields that are filled, or     *)
(* ends `stood` (Unaffected), and then StandInv promises nothing any more. *)
(***************************************************************************)
EXTENDS WorkdayRunner, TLAPS

\* A browser of its own is used by one task.
OneBrowser == launched => \A t, u \in Tasks : pc[t] # "idle" /\ pc[u] # "idle" => t = u

\* A page that is not loading has all of its fields.
Loaded == ~loading => visible = Asked(place)

\* The field does not wait for the human.
Settled(f) ==
  f \notin Sensitive /\ (entered[f] # "empty" \/ (f \in Optional /\ answer[f] = "none"))

BoundInv(t) ==
  pc[t] \in {"reading", "reviewing", "listing", "filling", "checking"} => task[t].moves < MaxSteps

SeenInv(t) == pc[t] = "filling" => task[t].unseen = {}

\* What a task knows of a page that stands: which one it is, and that it has
\* every field of it still before it, unless nothing has to be done there.
StandInv(t) ==
  task[t].stood =>
    /\ pc[t] \in {"listing", "filling"}
    /\ ~loading
    /\ \A f \in visible : f \in task[t].unseen \/ f \in task[t].left \/ Settled(f)

TaskInv(t) == BoundInv(t) /\ SeenInv(t) /\ StandInv(t)

IInv ==
  /\ TypeOK
  /\ ApprovedValuesOnly
  /\ OneBrowser
  /\ Loaded
  /\ \A t \in Tasks : TaskInv(t)

\* What is typed may be typed over, and stays.
EnteredStays == \A f \in Fields : entered[f] # "empty" => entered'[f] # "empty"

\* What a step of somebody else leaves of a task.
Unaffected(u) ==
  /\ pc'[u] = pc[u]
  /\ task'[u].unseen = task[u].unseen
  /\ task'[u].left = task[u].left
  /\ task'[u].moves = task[u].moves
  /\ task'[u].stood => task[u].stood
  /\ task'[u].stood /\ pc[u] # "idle" => loading' = loading /\ visible' = visible

-----------------------------------------------------------------------------

LEMMA StartingIsATask == Starting \in Task
  BY BoundIsPositive DEF Task, Starting

\* A goto or a click ends the standing of the page for every task, and leaves
\* what else they remember.
LEMMA TurnsForgets ==
  ASSUME TypeOK, Turns(task)
  PROVE  /\ task' \in [Tasks -> Task]
         /\ loading' = TRUE
         /\ \A u \in Tasks :
              /\ task'[u].unseen = task[u].unseen
              /\ task'[u].left = task[u].left
              /\ task'[u].moves = task[u].moves
              /\ ~task'[u].stood
  BY DEF TypeOK, Task, Turns

\* Whoever is unaffected keeps what it knows.
LEMMA UnaffectedKeeps ==
  ASSUME IInv, NEW u \in Tasks, UNCHANGED given, EnteredStays, Unaffected(u)
  PROVE  TaskInv(u)'
  <1> USE DEF Unaffected
  <1>0. /\ shown' = shown /\ answer' = answer
        /\ TaskInv(u) /\ TypeOK
    BY DEF given, IInv
  <1>1. BoundInv(u)' /\ SeenInv(u)'
    BY <1>0 DEF TaskInv, BoundInv, SeenInv
  <1>2. StandInv(u)'
    <2> SUFFICES ASSUME task'[u].stood PROVE StandInv(u)'
      BY DEF StandInv
    <2>1. pc[u] \in {"listing", "filling"}
      BY <1>0 DEF TaskInv, StandInv
    <2>2. loading' = loading /\ visible' = visible /\ visible \subseteq Fields
      BY <1>0, <2>1 DEF TypeOK
    <2>3. \A f \in Fields : Settled(f) => Settled(f)'
      BY <1>0 DEF Settled, EnteredStays
    <2>q. QED
      BY <1>0, <2>1, <2>2, <2>3 DEF TaskInv, StandInv
  <1>q. QED
    BY <1>1, <1>2 DEF TaskInv

\* What is left to show of a step of the actors outside of Kept.
LEMMA StepKeeps ==
  ASSUME IInv, NEW Kept \in SUBSET Tasks, UNCHANGED given,
         TypeOK',
         ApprovedValuesOnly',
         OneBrowser',
         Loaded',
         EnteredStays,
         \A u \in Kept : Unaffected(u),
         \A t \in Tasks \ Kept : TaskInv(t)'
  PROVE  IInv'
  <1>1. ASSUME NEW u \in Tasks PROVE TaskInv(u)'
    BY UnaffectedKeeps
  <1>q. QED
    BY <1>1 DEF IInv

-----------------------------------------------------------------------------
(* The site and the human                                                  *)

\* While the site changes a page, that page does not stand.
LEMMA SiteKeeps ==
  ASSUME IInv, Site
  PROVE  IInv'
  <1>1. /\ loading
        /\ UNCHANGED <<given, entered, accepted, pc, task>>
        /\ place' \in Places /\ visible' \subseteq Fields
        /\ wall' \in BOOLEAN /\ loading' \in BOOLEAN
        /\ ~loading' => visible' = visible /\ place' = place /\ visible = Asked(place)
    <2>1. CASE \E to \in Places : Renders(to)
      <3>1. PICK to \in Places : Renders(to)
        BY <2>1
      <3>2. loading /\ loading' = loading /\ place' = to /\ visible' = {} /\ wall' = FALSE
        BY <3>1 DEF Renders
      <3>3. UNCHANGED <<given, entered, accepted, pc, task>>
        BY <3>1 DEF Renders
      <3>q. QED
        BY <3>2, <3>3
    <2>2. CASE \E f \in Fields : Appears(f)
      BY <2>2 DEF Appears, IInv, TypeOK
    <2>3. CASE Blocks
      BY <2>3 DEF Blocks, IInv, TypeOK
    <2>4. CASE Rests
      BY <2>4 DEF Rests, IInv, TypeOK
    <2>q. QED
      BY <2>1, <2>2, <2>3, <2>4 DEF Site
  <1>2. TypeOK'
    BY <1>1 DEF IInv, TypeOK, given
  <1>3. ApprovedValuesOnly' /\ OneBrowser'
    BY <1>1 DEF IInv, ApprovedValuesOnly, OneBrowser, given
  <1>4. Loaded'
    BY <1>1 DEF Loaded, Asked, given
  <1>5. ASSUME NEW u \in Tasks PROVE Unaffected(u)
    <2>1. ~task[u].stood
      BY <1>1 DEF IInv, TaskInv, StandInv
    <2>q. QED
      BY <1>1, <2>1 DEF Unaffected
  <1>6. EnteredStays
    BY <1>1 DEF EnteredStays
  <1>q. QED
    BY <1>1, <1>2, <1>3, <1>4, <1>5, <1>6, StepKeeps

LEMMA HumanKeeps ==
  ASSUME IInv, Human
  PROVE  IInv'
  <1>1. /\ UNCHANGED <<given, pc, place, visible>>
        /\ wall' \in BOOLEAN /\ accepted' \in BOOLEAN
        /\ \/ task' = task /\ loading' = loading
           \/ Turns(task)
        /\ \/ entered' = entered
           \/ \E f \in Fields : entered' = [entered EXCEPT ![f] = "human"]
    <2>1. CASE \E f \in Fields : HumanTypes(f)
      BY <2>1 DEF HumanTypes, Uses, page, IInv, TypeOK
    <2>2. CASE HumanPassesWall
      BY <2>2 DEF HumanPassesWall, Uses, IInv, TypeOK
    <2>3. CASE HumanMoves
      BY <2>3 DEF HumanMoves, Uses, IInv, TypeOK
    <2>4. CASE HumanSubmits
      BY <2>4 DEF HumanSubmits, Uses, IInv, TypeOK
    <2>q. QED
      BY <2>1, <2>2, <2>3, <2>4 DEF Human
  <1>2. /\ task' \in [Tasks -> Task]
        /\ loading' \in BOOLEAN
        /\ \A u \in Tasks : Unaffected(u)
        /\ ~loading' => ~loading
    <2>1. CASE task' = task /\ loading' = loading
      BY <1>1, <2>1 DEF Unaffected, IInv, TypeOK
    <2>2. CASE Turns(task)
      BY <1>1, <2>2, TurnsForgets DEF Unaffected, IInv
    <2>q. QED
      BY <1>1, <2>1, <2>2
  <1>3. TypeOK'
    BY <1>1, <1>2 DEF IInv, TypeOK, given
  <1>4. ApprovedValuesOnly'
    BY <1>1, NoMix DEF IInv, TypeOK, ApprovedValuesOnly, given
  <1>5. OneBrowser'
    BY <1>1 DEF IInv, OneBrowser, given
  <1>6. Loaded'
    BY <1>1, <1>2 DEF IInv, Loaded, Asked, given
  <1>7. EnteredStays
    BY <1>1 DEF EnteredStays, IInv, TypeOK
  <1>q. QED
    BY <1>1, <1>2, <1>3, <1>4, <1>5, <1>6, <1>7, StepKeeps

-----------------------------------------------------------------------------
(* The steps of a task                                                     *)

\* A task that only remembers something: nobody else is concerned.
LEMMA PrivateStepKeeps ==
  ASSUME IInv, NEW t \in Tasks, UNCHANGED <<given, page, entered, accepted>>,
         pc[t] # "idle",
         NEW to \in {"opened", "leaving", "arriving", "looking", "reading", "reviewing",
                     "listing", "filling", "answer"},
         NEW new \in Task,
         pc' = [pc EXCEPT ![t] = to],
         task' = [task EXCEPT ![t] = new],
         TaskInv(t)'
  PROVE  IInv'
  <1>1. TypeOK'
    BY DEF IInv, TypeOK, given, page
  <1>2. ApprovedValuesOnly' /\ OneBrowser' /\ Loaded'
    BY DEF IInv, TypeOK, given, page, ApprovedValuesOnly, OneBrowser, Loaded, Asked
  <1>3. \A u \in Tasks \ {t} : Unaffected(u)
    BY DEF IInv, TypeOK, page, Unaffected
  <1>4. EnteredStays
    BY DEF EnteredStays
  <1>q. QED
    BY <1>1, <1>2, <1>3, <1>4, StepKeeps

LEMMA FinishKeeps ==
  ASSUME IInv, NEW t \in Tasks, NEW result \in Result, pc[t] # "idle", Finish(t, result)
  PROVE  IInv'
  <1> DEFINE new == [Starting EXCEPT !.result = result]
  <1>1. new \in Task /\ ~new.stood
    <2>1. Starting \in Task /\ ~Starting.stood
      BY StartingIsATask DEF Starting
    <2>q. QED
      BY <2>1 DEF Task
  <1>2. /\ pc' = [pc EXCEPT ![t] = "answer"]
        /\ task' = [task EXCEPT ![t] = new]
        /\ UNCHANGED <<given, page, entered, accepted>>
    BY DEF Finish, Goto
  <1> HIDE DEF new
  <1>3. pc'[t] = "answer" /\ task'[t] = new
    BY <1>2 DEF IInv, TypeOK
  <1>4. TaskInv(t)'
    BY <1>1, <1>3 DEF TaskInv, BoundInv, SeenInv, StandInv
  <1>q. QED
    BY <1>1, <1>2, <1>4, PrivateStepKeeps

\* A read after which the task goes on, in a phase where no page stands.
LEMMA GoesKeeps ==
  ASSUME IInv, NEW t \in Tasks,
         pc[t] \notin {"idle", "listing", "filling"},
         NEW to \in {"opened", "leaving", "arriving", "looking", "reading", "reviewing"},
         Goes(t, to),
         to \in {"reading", "reviewing"} => task[t].moves < MaxSteps
  PROVE  IInv'
  <1>1. /\ UNCHANGED <<given, page, entered, accepted>>
        /\ pc' = [pc EXCEPT ![t] = to]
        /\ task' = [task EXCEPT ![t] = task[t]]
        /\ task[t] \in Task
    BY DEF Goes, Goto, IInv, TypeOK
  <1>2. pc'[t] = to /\ task'[t] = task[t]
    BY <1>1 DEF IInv, TypeOK
  <1>3. ~task[t].stood
    BY DEF IInv, TaskInv, StandInv
  <1>4. TaskInv(t)'
    BY <1>2, <1>3 DEF TaskInv, BoundInv, SeenInv, StandInv
  <1>q. QED
    BY <1>1, <1>4, PrivateStepKeeps

\* A task that starts afresh or ends, with the browser blank if it is its own.
LEMMA FreshKeeps ==
  ASSUME IInv, NEW t \in Tasks, NEW to \in {"idle", "opening", "closed"}, NEW new \in Task,
         ~new.stood,
         launched => \A u \in Tasks \ {t} : pc[u] = "idle",
         Goto(t, to),
         task' = [task EXCEPT ![t] = new],
         BlankIfLaunched \/ UNCHANGED page,
         UNCHANGED <<given, entered, accepted>>
  PROVE  IInv'
  <1>1. /\ pc' = [pc EXCEPT ![t] = to]
        /\ \/ UNCHANGED page
           \/ launched /\ place' = "unknown" /\ visible' = {} /\ wall' = FALSE /\ loading' = FALSE
    BY DEF Goto, BlankIfLaunched
  <1>2. TypeOK'
    BY <1>1 DEF IInv, TypeOK, given, page, Places
  <1>3. ApprovedValuesOnly' /\ OneBrowser'
    BY <1>1 DEF IInv, TypeOK, given, ApprovedValuesOnly, OneBrowser
  <1>4. Loaded'
    <2>1. Asked("unknown") = {}
      BY LayoutIsFixed, NoMix DEF Asked, Layout
    <2>q. QED
      BY <1>1, <2>1 DEF IInv, Loaded, Asked, given, page
  <1>5. pc'[t] = to /\ task'[t] = new
    BY <1>1 DEF IInv, TypeOK
  <1>6. TaskInv(t)'
    BY <1>5 DEF TaskInv, BoundInv, SeenInv, StandInv
  <1>7. ASSUME NEW u \in Tasks \ {t} PROVE Unaffected(u)
    <2>1. pc'[u] = pc[u] /\ task'[u] = task[u]
      BY <1>1 DEF IInv, TypeOK
    <2>q. QED
      BY <1>1, <2>1 DEF Unaffected, page
  <1>8. EnteredStays
    BY DEF EnteredStays
  <1>q. QED
    BY <1>2, <1>3, <1>4, <1>6, <1>7, <1>8, StepKeeps

LEMMA BeginsKeeps ==
  ASSUME IInv, NEW t \in Tasks, Begins(t)
  PROVE  IInv'
  <1>1. ~Starting.stood
    BY DEF Starting
  <1>q. QED
    BY <1>1, StartingIsATask, FreshKeeps DEF Begins, Running

LEMMA ClosesKeeps ==
  ASSUME IInv, NEW t \in Tasks, Closes(t)
  PROVE  IInv'
  <1> DEFINE new == IF pc[t] = "answer" THEN task[t] ELSE Starting
  <1>1. new \in Task /\ ~new.stood
    BY StartingIsATask DEF Starting, IInv, TypeOK, TaskInv, StandInv
  <1>2. task' = [task EXCEPT ![t] = new]
    BY DEF Closes, IInv, TypeOK
  <1>3. launched => \A u \in Tasks \ {t} : pc[u] = "idle"
    BY DEF Closes, IInv, OneBrowser
  <1> HIDE DEF new
  <1>q. QED
    BY <1>1, <1>2, <1>3, FreshKeeps DEF Closes

LEMMA EndsKeeps ==
  ASSUME IInv, NEW t \in Tasks, Ends(t)
  PROVE  IInv'
  <1>1. launched => \A u \in Tasks \ {t} : pc[u] = "idle"
    BY DEF Ends, IInv, OneBrowser
  <1>2. ~Starting.stood
    BY DEF Starting
  <1>q. QED
    BY <1>1, <1>2, StartingIsATask, FreshKeeps DEF Ends

\* A goto or a click of a task: for every task the page stops standing.
LEMMA TurnsKeeps ==
  ASSUME IInv, NEW t \in Tasks, NEW to \in {"opened", "checking"},
         pc[t] # "idle",
         to = "checking" => task[t].moves < MaxSteps,
         Goto(t, to), Turns(task),
         place' \in Places, visible' \subseteq Fields, wall' \in BOOLEAN,
         UNCHANGED <<given, entered, accepted>>
  PROVE  IInv'
  <1>1. pc' = [pc EXCEPT ![t] = to]
    BY DEF Goto
  <1>2. TypeOK'
    BY <1>1, TurnsForgets DEF IInv, TypeOK, given
  <1>3. ApprovedValuesOnly' /\ OneBrowser'
    BY <1>1 DEF IInv, TypeOK, given, ApprovedValuesOnly, OneBrowser
  <1>4. Loaded'
    BY DEF Turns, Loaded
  <1>5. TaskInv(t)'
    <2>1. pc'[t] = to /\ task'[t].moves = task[t].moves /\ ~task'[t].stood
      BY <1>1, TurnsForgets DEF IInv, TypeOK
    <2>q. QED
      BY <2>1 DEF TaskInv, BoundInv, SeenInv, StandInv
  <1>6. ASSUME NEW u \in Tasks \ {t} PROVE Unaffected(u)
    <2>1. pc'[u] = pc[u]
      BY <1>1 DEF IInv, TypeOK
    <2>q. QED
      BY <2>1, TurnsForgets DEF Unaffected, IInv
  <1>7. EnteredStays
    BY DEF EnteredStays
  <1>q. QED
    BY <1>2, <1>3, <1>4, <1>5, <1>6, <1>7, StepKeeps

LEMMA NavigatesKeeps ==
  ASSUME IInv, NEW t \in Tasks, Navigates(t)
  PROVE  IInv'
  <1>1. place' \in Places /\ visible' \subseteq Fields /\ wall' \in BOOLEAN
    BY DEF Navigates, Places
  <1>q. QED
    BY <1>1, TurnsKeeps DEF Navigates

LEMMA AdvancesKeeps ==
  ASSUME IInv, NEW t \in Tasks, Advances(t)
  PROVE  IInv'
  <1>1. place' \in Places /\ visible' \subseteq Fields /\ wall' \in BOOLEAN
    BY DEF Advances, IInv, TypeOK
  <1>2. task[t].moves < MaxSteps
    BY DEF Advances, IInv, TaskInv, BoundInv
  <1>q. QED
    BY <1>1, <1>2, TurnsKeeps DEF Advances

\* The reads on the way to the loop, and its head.
LEMMA OpeningKeeps ==
  ASSUME IInv, NEW t \in Tasks, Opens(t) \/ Detects(t) \/ Arrives(t)
  PROVE  IInv'
  BY GoesKeeps, FinishKeeps DEF Opens, Detects, Arrives, Result, Reasons

LEMMA LooksKeeps ==
  ASSUME IInv, NEW t \in Tasks, Looks(t)
  PROVE  IInv'
  <1>1. CASE Finish(t, "failed") \/ Finish(t, "wall")
    BY <1>1, FinishKeeps DEF Looks, Result, Reasons
  <1>2. CASE ~Exhausted(t) /\ Goes(t, "reading")
    <2>1. task[t].moves < MaxSteps
      <3>1. task[t] \in Task
        BY DEF IInv, TypeOK
      <3>2. task[t].moves \in 0..MaxSteps /\ task[t].moves # MaxSteps
        BY <1>2, <3>1 DEF Exhausted, Task
      <3>q. QED
        BY <3>2, BoundIsPositive
    <2>q. QED
      BY <1>2, <2>1, GoesKeeps DEF Looks
  <1>q. QED
    BY <1>1, <1>2 DEF Looks

LEMMA ReadsKeeps ==
  ASSUME IInv, NEW t \in Tasks, Reads(t)
  PROVE  IInv'
  <1>0. pc[t] = "reading" /\ task[t].moves < MaxSteps
    BY DEF Reads, IInv, TaskInv, BoundInv
  <1>1. CASE Finish(t, "submitted")
    BY <1>0, <1>1, FinishKeeps DEF Result
  <1>2. CASE Goes(t, "reviewing")
    BY <1>0, <1>2, GoesKeeps
  <1>3. CASE /\ place \in Steps \cup {"unknown"}
             /\ task' = [task EXCEPT ![t].step = place, ![t].unseen = Layout(place),
                                     ![t].stood = ~loading]
             /\ Goto(t, "listing")
             /\ UNCHANGED <<given, page, entered, accepted>>
    <2> DEFINE new == [task[t] EXCEPT !.step = place, !.unseen = Layout(place),
                                      !.stood = ~loading]
    <2>1. /\ task[t] \in Task /\ place \in Places /\ Layout(place) \subseteq Fields
          /\ loading \in BOOLEAN /\ (~loading) \in BOOLEAN
      BY DEF IInv, TypeOK, Layout
    <2>2. /\ new \in Task /\ new.unseen = Layout(place) /\ new.moves = task[t].moves
          /\ new.stood = ~loading
      BY <2>1 DEF Task
    <2>3. task' = [task EXCEPT ![t] = new] /\ pc' = [pc EXCEPT ![t] = "listing"]
      BY <1>3 DEF Goto, IInv, TypeOK
    <2> HIDE DEF new
    <2>4. pc'[t] = "listing" /\ task'[t] = new
      BY <2>3 DEF IInv, TypeOK
    <2>5. /\ loading' = loading /\ visible' = visible
          /\ ~loading => visible \subseteq Layout(place)
      BY <1>3 DEF page, IInv, Loaded, Asked
    <2>6. TaskInv(t)'
      BY <1>0, <2>2, <2>4, <2>5 DEF TaskInv, BoundInv, SeenInv, StandInv
    <2>q. QED
      BY <1>0, <1>3, <2>2, <2>3, <2>6, PrivateStepKeeps
  <1>q. QED
    BY <1>1, <1>2, <1>3 DEF Reads

LEMMA ReviewsKeeps ==
  ASSUME IInv, NEW t \in Tasks, Reviews(t)
  PROVE  IInv'
  BY FinishKeeps DEF Reviews, Result, Reasons

LEMMA ListsKeeps ==
  ASSUME IInv, NEW t \in Tasks, NEW f \in Fields, Lists(t, f)
  PROVE  IInv'
  <1> DEFINE new == [task[t] EXCEPT !.unseen = @ \ {f}, !.left = @ \cup ({f} \cap visible)]
  <1>1. pc[t] = "listing" /\ UNCHANGED <<given, page, entered, accepted, pc>>
    BY DEF Lists
  <1>2. task[t] \in Task
    BY DEF IInv, TypeOK
  <1>3. task' = [task EXCEPT ![t] = new]
    BY DEF Lists, IInv, TypeOK
  <1>4. /\ new \in Task
        /\ new.unseen = task[t].unseen \ {f} /\ new.left = task[t].left \cup ({f} \cap visible)
        /\ new.moves = task[t].moves /\ new.stood = task[t].stood
    BY <1>2 DEF Task
  <1> HIDE DEF new
  <1>5. pc' = [pc EXCEPT ![t] = "listing"] /\ pc'[t] = "listing" /\ task'[t] = new
    BY <1>1, <1>3 DEF IInv, TypeOK
  <1>6. /\ UNCHANGED <<shown, answer, entered, loading, visible>>
        /\ TaskInv(t)
    BY <1>1 DEF given, page, IInv
  <1>7. TaskInv(t)'
    BY <1>1, <1>4, <1>5, <1>6 DEF TaskInv, BoundInv, SeenInv, StandInv, Settled
  <1>q. QED
    BY <1>1, <1>3, <1>4, <1>5, <1>7, PrivateStepKeeps

LEMMA HasListedKeeps ==
  ASSUME IInv, NEW t \in Tasks, HasListed(t)
  PROVE  IInv'
  <1>1. /\ pc[t] = "listing" /\ task[t].unseen = {}
        /\ UNCHANGED <<given, page, entered, accepted>>
        /\ pc' = [pc EXCEPT ![t] = "filling"]
        /\ task' = [task EXCEPT ![t] = task[t]]
        /\ task[t] \in Task
    BY DEF HasListed, Goes, Goto, IInv, TypeOK
  <1>2. pc'[t] = "filling" /\ task'[t] = task[t]
    BY <1>1 DEF IInv, TypeOK
  <1>3. /\ UNCHANGED <<shown, answer, entered, loading, visible>>
        /\ TaskInv(t)
    BY <1>1 DEF given, page, IInv
  <1>4. TaskInv(t)'
    BY <1>1, <1>2, <1>3 DEF TaskInv, BoundInv, SeenInv, StandInv, Settled
  <1>q. QED
    BY <1>1, <1>4, PrivateStepKeeps

LEMMA PausesAtKeeps ==
  ASSUME IInv, NEW t \in Tasks, NEW f \in Fields, PausesAt(t, f)
  PROVE  IInv'
  BY FinishKeeps DEF PausesAt, Result

\* A field that was dealt with is settled.
LEMMA DealtWithKeeps ==
  ASSUME IInv, NEW t \in Tasks, NEW f \in Fields,
         pc[t] = "filling",
         task' = [task EXCEPT ![t].left = @ \ {f}],
         UNCHANGED <<given, page, accepted, pc>>,
         \/ entered' = entered
         \/ entered' = [entered EXCEPT ![f] = t] /\ answer[f] = "approved",
         f \notin Sensitive,
         Settled(f)'
  PROVE  IInv'
  <1> DEFINE new == [task[t] EXCEPT !.left = @ \ {f}]
  <1>1. task[t] \in Task
    BY DEF IInv, TypeOK
  <1>2. task' = [task EXCEPT ![t] = new]
    BY DEF IInv, TypeOK
  <1>3. /\ new \in Task /\ new.left = task[t].left \ {f} /\ new.unseen = task[t].unseen
        /\ new.moves = task[t].moves /\ new.stood = task[t].stood
    BY <1>1 DEF Task
  <1> HIDE DEF new
  <1>4. /\ pc'[t] = "filling" /\ task'[t] = new
        /\ \A u \in Tasks \ {t} : task'[u] = task[u] /\ pc'[u] = pc[u]
    BY <1>2 DEF IInv, TypeOK
  <1>5. TypeOK'
    <2>1. entered' \in [Fields -> {"empty", "human"} \cup Tasks]
      BY DEF IInv, TypeOK
    <2>2. task' \in [Tasks -> Task]
      BY <1>2, <1>3 DEF IInv, TypeOK
    <2>3. TypeOK /\ UNCHANGED <<launched, shown, answer, place, visible, wall, loading, accepted, pc>>
      BY DEF IInv, given, page
    <2>q. QED
      BY <2>1, <2>2, <2>3 DEF TypeOK
  <1>6. ApprovedValuesOnly' /\ OneBrowser' /\ Loaded'
    BY DEF IInv, TypeOK, given, page, ApprovedValuesOnly, OneBrowser, Loaded, Asked
  <1>7. EnteredStays
    BY NoMix DEF EnteredStays, IInv, TypeOK
  <1>8. TaskInv(t)'
    <2>1. \A g \in Fields : Settled(g) => Settled(g)'
      BY <1>7 DEF Settled, EnteredStays, given
    <2>2. /\ UNCHANGED <<loading, visible>>
          /\ visible \subseteq Fields
          /\ TaskInv(t)
      BY DEF page, IInv, TypeOK
    <2>q. QED
      BY <1>3, <1>4, <2>1, <2>2 DEF TaskInv, BoundInv, SeenInv, StandInv
  <1>9. ASSUME NEW u \in Tasks \ {t} PROVE Unaffected(u)
    BY <1>4 DEF Unaffected, page
  <1>q. QED
    BY <1>5, <1>6, <1>7, <1>8, <1>9, StepKeeps

LEMMA SkipsKeeps ==
  ASSUME IInv, NEW t \in Tasks, NEW f \in Fields, Skips(t, f)
  PROVE  IInv'
  <1>1. /\ f \notin Sensitive /\ f \in Optional /\ answer[f] = "none"
        /\ UNCHANGED <<given, page, entered, accepted, pc>>
    BY DEF Skips, Treatment
  <1>2. Settled(f)'
    BY <1>1 DEF Settled, given
  <1>q. QED
    BY <1>1, <1>2, DealtWithKeeps DEF Skips

LEMMA WritesKeeps ==
  ASSUME IInv, NEW t \in Tasks, NEW f \in Fields, Writes(t, f)
  PROVE  IInv'
  <1>1. /\ answer[f] = "approved" /\ f \notin Sensitive
        /\ entered' = [entered EXCEPT ![f] = t]
    BY DEF Writes, Treatment, IInv, TypeOK, Answer
  <1>2. Settled(f)'
    BY <1>1, NoMix DEF Settled, IInv, TypeOK
  <1>q. QED
    BY <1>1, <1>2, DealtWithKeeps DEF Writes

LEMMA ChecksKeeps ==
  ASSUME IInv, NEW t \in Tasks, Checks(t)
  PROVE  IInv'
  <1>0. pc[t] = "checking" /\ task[t].moves < MaxSteps /\ ~task[t].stood
    BY DEF Checks, IInv, TaskInv, BoundInv, StandInv
  <1>1. CASE Finish(t, "rejected")
    BY <1>0, <1>1, FinishKeeps DEF Result, Reasons
  <1>2. CASE /\ task' = [task EXCEPT ![t].step = None, ![t].moves = NextRound(@)]
             /\ Goto(t, "looking")
             /\ UNCHANGED <<given, page, entered, accepted>>
    <2> DEFINE new == [task[t] EXCEPT !.step = None, !.moves = task[t].moves + 1]
    <2>1. task[t] \in Task
      BY DEF IInv, TypeOK
    <2>2. new \in Task /\ new.stood = task[t].stood
      <3>1. task[t].moves + 1 \in 0..MaxSteps
        BY <1>0, <2>1, BoundIsPositive DEF Task
      <3>q. QED
        BY <2>1, <3>1 DEF Task
    <2>3. /\ pc' = [pc EXCEPT ![t] = "looking"]
          /\ task' = [task EXCEPT ![t] = new]
      BY <1>2, <2>1 DEF Goto, IInv, TypeOK, Task, NextRound
    <2> HIDE DEF new
    <2>4. pc'[t] = "looking" /\ task'[t] = new
      BY <2>3 DEF IInv, TypeOK
    <2>5. TaskInv(t)'
      BY <1>0, <2>2, <2>4 DEF TaskInv, BoundInv, SeenInv, StandInv
    <2>q. QED
      BY <1>0, <1>2, <2>2, <2>3, <2>5, PrivateStepKeeps
  <1>q. QED
    BY <1>1, <1>2 DEF Checks

LEMMA TaskKeeps ==
  ASSUME IInv, TaskSteps
  PROVE  IInv'
  <1>1. PICK t \in Tasks : Begins(t) \/ Works(t)
    BY DEF TaskSteps
  <1>2. CASE Opens(t) \/ Navigates(t) \/ Detects(t) \/ Arrives(t)
    BY <1>2, OpeningKeeps, NavigatesKeeps
  <1>3. CASE Looks(t) \/ Reads(t) \/ Reviews(t)
    BY <1>3, LooksKeeps, ReadsKeeps, ReviewsKeeps
  <1>4. CASE \E f \in Fields : Lists(t, f) \/ PausesAt(t, f) \/ Skips(t, f) \/ Writes(t, f)
    BY <1>4, ListsKeeps, PausesAtKeeps, SkipsKeeps, WritesKeeps
  <1>5. CASE HasListed(t) \/ Advances(t) \/ Checks(t)
    BY <1>5, HasListedKeeps, AdvancesKeeps, ChecksKeeps
  <1>6. CASE Begins(t) \/ Closes(t) \/ Ends(t)
    BY <1>6, BeginsKeeps, ClosesKeeps, EndsKeeps
  <1>q. QED
    BY <1>1, <1>2, <1>3, <1>4, <1>5, <1>6 DEF Works

-----------------------------------------------------------------------------
(* The theorems                                                            *)

\* The inductive invariant: what the tasks know of a page that stands, and
\* that nothing but approved answers was typed, whoever uses the browser.
THEOREM WorkdayInvariant == Spec => []IInv
  <1>1. Init => IInv
    <2> SUFFICES ASSUME Init PROVE IInv
      OBVIOUS
    <2>1. TypeOK
      BY StartingIsATask DEF Init, TypeOK, Places
    <2>2. ApprovedValuesOnly /\ OneBrowser
      BY NoMix DEF Init, ApprovedValuesOnly, OneBrowser
    <2>3. Loaded
      BY LayoutIsFixed, NoMix DEF Init, Loaded, Asked, Layout
    <2>4. \A t \in Tasks : TaskInv(t)
      BY DEF Init, Starting, TaskInv, BoundInv, SeenInv, StandInv
    <2>q. QED
      BY <2>1, <2>2, <2>3, <2>4 DEF IInv
  <1>2. IInv /\ [Next]_vars => IInv'
    <2> SUFFICES ASSUME IInv, [Next]_vars PROVE IInv'
      OBVIOUS
    <2>1. CASE UNCHANGED vars
      BY <2>1 DEF vars, given, page, IInv, TypeOK, ApprovedValuesOnly, OneBrowser, Loaded, Asked,
                  TaskInv, BoundInv, SeenInv, StandInv, Settled
    <2>q. QED
      BY <2>1, HumanKeeps, SiteKeeps, TaskKeeps DEF Next
  <1>q. QED
    BY <1>1, <1>2, PTL DEF Spec

\* Type correctness; the counter of rounds never passes MAX_STEPS.
THEOREM WorkdayTypes == Spec => []TypeOK
  BY WorkdayInvariant, PTL DEF IInv

\* _fill_step and _write_field: a task types approved answers only, and none
\* to a sensitive question, whatever the human and the other tasks do.
THEOREM ValuesAreApproved == Spec => []ApprovedValuesOnly
  BY WorkdayInvariant, PTL DEF IInv

\* _step_loop: of a page that was all there when its step was read, and that
\* nobody has turned since, nothing is left to the human when Next is clicked.
THEOREM StandingPassesAreComplete == Spec => StandingPagesAreComplete
  <1> DEFINE Pass == \A t \in Tasks : Clicks(t) /\ task[t].stood => Complete
  <1>1. IInv /\ [Next]_vars => [Pass]_vars
    <2> SUFFICES ASSUME IInv, Next, NEW t \in Tasks, Clicks(t), task[t].stood
                 PROVE  Complete
      OBVIOUS
    <2>1. Advances(t)
      <3>1. CASE Human \/ Site
        BY <3>1 DEF Human, HumanTypes, HumanPassesWall, HumanMoves, HumanSubmits, Uses, Clicks,
                    Site, Renders, Appears, Blocks, Rests
      <3>2. ASSUME NEW u \in Tasks, u # t, Begins(u) \/ Works(u) PROVE FALSE
        BY <3>2 DEF Begins, Works, Opens, Navigates, Detects, Arrives, Looks, Reads, Reviews,
                    Lists, HasListed, PausesAt, Skips, Writes, Advances, Checks, Closes, Ends,
                    Finish, Goes, Goto, Clicks, IInv, TypeOK
      <3>3. CASE Begins(t) \/ Works(t)
        BY <3>3 DEF Begins, Works, Opens, Navigates, Detects, Arrives, Looks, Reads, Reviews,
                    Lists, HasListed, PausesAt, Skips, Writes, Checks, Closes, Ends,
                    Finish, Goes, Goto, Clicks, IInv, TypeOK
      <3>q. QED
        BY <3>1, <3>2, <3>3 DEF Next, TaskSteps
    <2>2. task[t].left = {} /\ task[t].unseen = {}
      BY <2>1 DEF Advances, IInv, TaskInv, SeenInv
    <2>q. QED
      BY <2>2 DEF IInv, TaskInv, StandInv, Settled, Complete
  <1>q. QED
    BY <1>1, WorkdayInvariant, PTL DEF Spec, StandingPagesAreComplete

=============================================================================
