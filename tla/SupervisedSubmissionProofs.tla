--------------------- MODULE SupervisedSubmissionProofs ---------------------
(***************************************************************************)
(* Proofs about SupervisedSubmission for any number of browser runs,       *)
(* tokens, pages and concurrent tasks.                                     *)
(*                                                                         *)
(* The invariant follows a page from the report to the human (reviewed)    *)
(* through the request for a token, the token and the task that presents   *)
(* it, to the click; and it accounts for every click a token has driven:   *)
(* committed, forgotten by a rollback, or still in flight.                 *)
(***************************************************************************)
EXTENDS SupervisedSubmission, TLAPS

\* Everything that can lead to a click goes back to a reviewed page.
ReviewedOrigin ==
  /\ \A r \in Runs :
       run[r] # None /\ run[r].status = "stopped_at_review" =>
         <<r, run[r].page>> \in reviewed
  /\ \A c \in Clerks : clerk[c] # None => <<clerk[c].run, clerk[c].page>> \in reviewed
  /\ \A t \in Tokens : Issued(t) => <<token[t].run, token[t].page>> \in reviewed

\* The task may click: its token is signed for what it does, and not used up.
Authorised(what) ==
  /\ what.token \in Tokens
  /\ Issued(what.token)
  /\ Signed(what)
  /\ ~token[what.token].consumed

\* What a task at `where` knows.
Sound(where, what) ==
  /\ where # "idle" => what.run \in Runs
  /\ where \in {"guard", "gate"} =>
       what.page \in Pages /\ (what.token # None => Issued(what.token))
  /\ where \in {"answer", "clicked"} => what.status \in RunStatus
  /\ where \in {"click", "clicked"} => Authorised(what) /\ allow.worker
  /\ what.submitted => received > 0

TasksAreSound == \A k \in Workers : Sound(pc[k], task[k])

InClick(k) == pc[k] \in {"click", "clicked"}

\* At most one task at a time has got past verify_and_consume with a token.
TokensAreExclusive ==
  \A j, k \in Workers :
    InClick(j) /\ InClick(k) /\ task[j].token = task[k].token => j = k

\* Every click a token has driven was committed with its use, forgotten, or
\* belongs to the task that holds the token.
Used(t) == IF Issued(t) /\ token[t].consumed THEN 1 ELSE 0

InFlight(t) ==
  IF \E k \in Workers : pc[k] = "clicked" /\ task[k].token = t THEN 1 ELSE 0

ClicksAreCounted == \A t \in Tokens : clicked[t] = undone[t] + Used(t) + InFlight(t)

ModesAreOn ==
  /\ \A c \in Clerks : clerk[c] # None => allow.api
  /\ \A t \in Tokens : Issued(t) => allow.api
  /\ ClicksNeedBothModes

IInv ==
  /\ TypeOK
  /\ ReviewedOrigin
  /\ TasksAreSound
  /\ TokensAreExclusive
  /\ ClicksAreCounted
  /\ ClicksWereReviewed
  /\ ModesAreOn
  /\ SubmittedIsReal

-----------------------------------------------------------------------------
(* Steps of a task that touch nothing but the task                         *)

Places == {"idle", "guard", "gate", "click", "clicked", "answer"}

LEMMA GotoMovesOne ==
  ASSUME TypeOK, NEW k \in Workers, NEW where \in Places, NEW what \in Task,
         Goto(k, where, what)
  PROVE  /\ pc' \in [Workers -> Places]
         /\ task' \in [Workers -> Task]
         /\ pc'[k] = where /\ task'[k] = what
         /\ \A j \in Workers \ {k} : pc'[j] = pc[j] /\ task'[j] = task[j]
BY DEF TypeOK, Goto, Places

\* A task that has not passed the token check goes on to a place it is sound
\* at; to click, it must be the only one with its token.
LEMMA LocalStep ==
  ASSUME IInv, NEW k \in Workers, ~InClick(k),
         NEW where \in Places \ {"clicked"}, NEW what \in Task,
         Goto(k, where, what), Sound(where, what),
         where = "click" => ~Locked(what.token),
         UNCHANGED <<allow, database, clerk, world>>
  PROVE  IInv'
<1>1. /\ pc' \in [Workers -> Places] /\ task' \in [Workers -> Task]
      /\ pc'[k] = where /\ task'[k] = what
      /\ \A j \in Workers \ {k} : pc'[j] = pc[j] /\ task'[j] = task[j]
  BY GotoMovesOne DEF IInv
<1>2. TypeOK'
  BY <1>1 DEF IInv, TypeOK, Places, database, world
<1>3. ReviewedOrigin' /\ ClicksWereReviewed' /\ ModesAreOn' /\ SubmittedIsReal'
  BY DEF IInv, ReviewedOrigin, ClicksWereReviewed, ModesAreOn, ClicksNeedBothModes,
     SubmittedIsReal, AlreadySubmitted, Issued, database, world
<1>4. TasksAreSound'
  <2> SUFFICES ASSUME NEW j \in Workers PROVE Sound(pc[j], task[j])'
    BY DEF TasksAreSound
  <2>1. Sound(pc'[j], task'[j])
    BY <1>1 DEF IInv, TasksAreSound
  <2> QED
    BY <2>1 DEF Sound, Authorised, Issued, Signed, database, world
<1>5. TokensAreExclusive'
  BY <1>1 DEF IInv, TokensAreExclusive, InClick, Locked
<1>6. ClicksAreCounted'
  <2> SUFFICES ASSUME NEW t \in Tokens
               PROVE  clicked'[t] = undone'[t] + Used(t)' + InFlight(t)'
    BY DEF ClicksAreCounted
  <2>1. Used(t)' = Used(t)
    BY DEF Used, Issued, database
  <2>2. InFlight(t)' = InFlight(t)
    BY <1>1 DEF InFlight, InClick
  <2> QED
    BY <2>1, <2>2 DEF IInv, ClicksAreCounted, world
<1> QED
  BY <1>2, <1>3, <1>4, <1>5, <1>6 DEF IInv

\* The result of a browser run that did not click.
LEMMA FinishKeepsIInv ==
  ASSUME IInv, NEW k \in Workers, ~InClick(k), NEW what \in Task, what.run \in Runs,
         NEW status \in RunStatus, NEW submitted \in BOOLEAN,
         submitted => received > 0,
         Finish(k, what, status, submitted),
         UNCHANGED <<allow, database, clerk, world>>
  PROVE  IInv'
<1> DEFINE result == [what EXCEPT !.status = status, !.submitted = submitted]
<1>1. /\ result \in Task /\ result.run \in Runs
      /\ result.status \in RunStatus /\ result.submitted = submitted
  BY DEF Task
<1>2. Goto(k, "answer", result)
  BY DEF Finish
<1> HIDE DEF result
<1>3. Sound("answer", result)
  BY <1>1 DEF Sound
<1> QED
  BY <1>1, <1>2, <1>3, LocalStep DEF Places

LEMMA ArgumentsTyped ==
  ASSUME NEW r \in Runs, NEW t \in Tokens \cup {None}
  PROVE  /\ Arguments(r, t) \in Task
         /\ Arguments(r, t).run = r /\ Arguments(r, t).token = t
         /\ Arguments(r, t).submitted = FALSE
BY DEF Arguments, NoTask, Task

LEMMA CallsKeepIInv ==
  ASSUME IInv, NEW k \in Workers, NEW r \in Runs, NEW t \in Tokens \cup {None},
         \/ Pauses(k, r, t) \/ GivesUp(k, r, t) \/ FindsConfirmation(k, r, t)
         \/ \E p \in Pages : ReachesReview(k, r, t, p)
  PROVE  IInv'
<1>1. /\ Arguments(r, t) \in Task
      /\ Arguments(r, t).run = r /\ Arguments(r, t).token = t
      /\ Arguments(r, t).submitted = FALSE
  BY ArgumentsTyped
<1>2. ~InClick(k)
  BY DEF InClick, Pauses, GivesUp, FindsConfirmation, ReachesReview, Called
<1>3. CASE Pauses(k, r, t)
  BY <1>1, <1>2, <1>3, FinishKeepsIInv DEF Pauses, RunStatus
<1>4. CASE GivesUp(k, r, t)
  BY <1>1, <1>2, <1>4, FinishKeepsIInv DEF GivesUp, RunStatus
<1>5. CASE FindsConfirmation(k, r, t)
  BY <1>1, <1>2, <1>5, FinishKeepsIInv DEF FindsConfirmation, RunStatus
<1>6. ASSUME NEW p \in Pages, ReachesReview(k, r, t, p) PROVE IInv'
  <2> DEFINE what == [Arguments(r, t) EXCEPT !.page = p]
  <2>1. /\ what \in Task /\ what.run = r /\ what.token = t /\ what.page = p
        /\ what.submitted = FALSE
    BY <1>1 DEF Task
  <2>2. Goto(k, "guard", what) /\ UNCHANGED <<allow, database, clerk, world>>
    BY <1>6 DEF ReachesReview
  <2> HIDE DEF what
  <2>3. Sound("guard", what)
    BY <2>1, <1>6 DEF Sound, ReachesReview, Called
  <2> QED
    BY <1>2, <2>1, <2>2, <2>3, LocalStep DEF Places
<1> QED
  BY <1>3, <1>4, <1>5, <1>6

LEMMA ReviewStepsKeepIInv ==
  ASSUME IInv, NEW k \in Workers,
         \/ ReadsGuard(k) \/ PausesOnReview(k) \/ StopsWithoutToken(k)
         \/ IsRefused(k) \/ IsAuthorised(k)
  PROVE  IInv'
<1>1. /\ ~InClick(k) /\ pc[k] \in {"guard", "gate"}
  BY DEF InClick, ReadsGuard, PausesOnReview, StopsWithoutToken, IsRefused, IsAuthorised
<1>2. /\ task[k] \in Task /\ task[k].run \in Runs /\ task[k].page \in Pages
      /\ task[k].token # None => task[k].token \in Tokens /\ Issued(task[k].token)
      /\ task[k].submitted => received > 0
  BY <1>1 DEF IInv, TypeOK, TasksAreSound, Sound, Task
<1>3. CASE ReadsGuard(k)
  <2>1. CASE AlreadySubmitted
    <3>1. received > 0
      BY <2>1 DEF IInv, SubmittedIsReal
    <3> QED
      BY <1>1, <1>2, <1>3, <2>1, <3>1, FinishKeepsIInv DEF ReadsGuard, RunStatus
  <2>2. CASE ~AlreadySubmitted
    <3>1. Goto(k, "gate", task[k]) /\ UNCHANGED <<allow, database, clerk, world>>
      BY <1>3, <2>2 DEF ReadsGuard
    <3>2. Sound("gate", task[k])
      BY <1>2 DEF Sound
    <3> QED
      BY <1>1, <1>2, <3>1, <3>2, LocalStep DEF Places
  <2> QED
    BY <2>1, <2>2
<1>4. CASE PausesOnReview(k)
  BY <1>1, <1>2, <1>4, FinishKeepsIInv DEF PausesOnReview, RunStatus
<1>5. CASE StopsWithoutToken(k)
  BY <1>1, <1>2, <1>5, FinishKeepsIInv DEF StopsWithoutToken, RunStatus
<1>6. CASE IsRefused(k)
  BY <1>1, <1>2, <1>6, FinishKeepsIInv DEF IsRefused, RunStatus
<1>7. CASE IsAuthorised(k)
  <2>1. /\ Goto(k, "click", task[k]) /\ UNCHANGED <<allow, database, clerk, world>>
        /\ MayTrySubmit(task[k]) /\ Signed(task[k])
        /\ Consumes(task[k].token)
    BY <1>7 DEF IsAuthorised
  <2>2. Sound("click", task[k]) /\ ~Locked(task[k].token)
    BY <1>2, <2>1 DEF Sound, Authorised, MayTrySubmit, Consumes
  <2> QED
    BY <1>1, <1>2, <2>1, <2>2, LocalStep DEF Places
<1> QED
  BY <1>3, <1>4, <1>5, <1>6, <1>7

-----------------------------------------------------------------------------
(* Steps that change the world or the database                             *)

\* What a task that got past verify_and_consume holds.
LEMMA ClickersHold ==
  ASSUME IInv, NEW k \in Workers, InClick(k)
  PROVE  /\ task[k] \in Task /\ task[k].run \in Runs /\ task[k].token \in Tokens
         /\ task[k].page \in Pages
         /\ token[task[k].token] \in TokenRow
         /\ Authorised(task[k]) /\ allow.worker /\ allow.api
         /\ <<task[k].run, task[k].page>> \in reviewed
<1>1. task[k] \in Task /\ task[k].run \in Runs /\ Authorised(task[k]) /\ allow.worker
  BY DEF IInv, TypeOK, TasksAreSound, Sound, InClick
<1>2. token[task[k].token] \in TokenRow
  BY <1>1 DEF IInv, TypeOK, Authorised, Issued
<1> QED
  BY <1>1, <1>2 DEF IInv, ReviewedOrigin, ModesAreOn, Authorised, Signed, TokenRow

LEMMA ClicksKeepsIInv ==
  ASSUME IInv, NEW k \in Workers, NEW accepted \in BOOLEAN, NEW shown \in BOOLEAN,
         Clicks(k, accepted, shown)
  PROVE  IInv'
<1> DEFINE what == task[k]
           result == ClickResult(shown)
           after == [what EXCEPT !.status = result.status, !.submitted = result.submitted]
<1>1. /\ pc[k] = "click" /\ InClick(k)
      /\ received' = received + (IF accepted THEN 1 ELSE 0)
      /\ shown => received' > 0
      /\ clicks' = clicks \cup {[run |-> what.run, page |-> what.page, token |-> what.token]}
      /\ clicked' = [clicked EXCEPT ![what.token] = @ + 1]
      /\ Goto(k, "clicked", after)
      /\ UNCHANGED <<allow, approved, run, token, clerk, reviewed, undone>>
  BY DEF Clicks, InClick, database
<1>2. /\ what \in Task /\ what.run \in Runs /\ what.token \in Tokens
      /\ what.page \in Pages
      /\ Authorised(what) /\ allow.worker /\ allow.api
      /\ <<what.run, what.page>> \in reviewed
  BY <1>1, ClickersHold
<1>3. /\ after \in Task /\ after.run = what.run /\ after.token = what.token
      /\ after.page = what.page
      /\ after.status \in RunStatus /\ after.submitted = shown
  BY <1>2 DEF Task, ClickResult, RunStatus
<1> HIDE DEF after, result
<1>4. /\ pc' \in [Workers -> Places] /\ task' \in [Workers -> Task]
      /\ pc'[k] = "clicked" /\ task'[k] = after
      /\ \A j \in Workers \ {k} : pc'[j] = pc[j] /\ task'[j] = task[j]
  BY <1>1, <1>3, GotoMovesOne DEF IInv, Places
<1>5. received \in Nat /\ received' \in Nat /\ received' >= received
  BY <1>1 DEF IInv, TypeOK
<1>6. TypeOK'
  <2>1. clicks' \subseteq [run : Runs, page : Pages, token : Tokens]
    BY <1>1, <1>2 DEF IInv, TypeOK
  <2>2. clicked' \in [Tokens -> Nat]
    BY <1>1, <1>2 DEF IInv, TypeOK
  <2> QED
    BY <1>1, <1>4, <1>5, <2>1, <2>2 DEF IInv, TypeOK, Places
<1>7. ReviewedOrigin'
  BY <1>1 DEF IInv, ReviewedOrigin, Issued
<1>8. ClicksWereReviewed'
  <2>1. /\ <<what.run, what.page>> \in reviewed
        /\ Issued(what.token) /\ token[what.token].run = what.run
        /\ token[what.token].page = what.page
    BY <1>2 DEF Authorised, Signed
  <2> SUFFICES ASSUME NEW c \in clicks'
               PROVE  /\ <<c.run, c.page>> \in reviewed
                      /\ Issued(c.token) /\ token[c.token].run = c.run
                      /\ token[c.token].page = c.page
    BY <1>1 DEF ClicksWereReviewed, Issued
  <2>2. CASE c \in clicks
    BY <2>2 DEF IInv, ClicksWereReviewed
  <2>3. CASE c = [run |-> what.run, page |-> what.page, token |-> what.token]
    BY <2>1, <2>3
  <2> QED
    BY <1>1, <2>2, <2>3
<1>9. ModesAreOn'
  BY <1>1, <1>2 DEF IInv, ModesAreOn, ClicksNeedBothModes, Issued
<1>10. SubmittedIsReal'
  BY <1>1, <1>5 DEF IInv, SubmittedIsReal, AlreadySubmitted
<1>11. TasksAreSound'
  <2> SUFFICES ASSUME NEW j \in Workers PROVE Sound(pc[j], task[j])'
    BY DEF TasksAreSound
  <2>1. CASE j = k
    <3>1. Authorised(task[k])'
      BY <1>1, <1>2, <1>3, <1>4 DEF Authorised, Signed, Issued
    <3>2. task'[k].run \in Runs /\ task'[k].status \in RunStatus
          /\ (task'[k].submitted => received' > 0)
      BY <1>1, <1>2, <1>3, <1>4
    <3> QED
      BY <1>1, <1>2, <1>4, <2>1, <3>1, <3>2 DEF Sound
  <2>2. CASE j # k
    <3>1. Sound(pc[j], task[j]) /\ pc'[j] = pc[j] /\ task'[j] = task[j]
      BY <1>4, <2>2 DEF IInv, TasksAreSound
    <3> QED
      BY <1>1, <1>5, <3>1 DEF Sound, Authorised, Signed, Issued
  <2> QED
    BY <2>1, <2>2
<1>12. TokensAreExclusive'
  BY <1>1, <1>3, <1>4 DEF IInv, TokensAreExclusive, InClick
<1>13. ClicksAreCounted'
  <2> SUFFICES ASSUME NEW t \in Tokens
               PROVE  clicked'[t] = undone'[t] + Used(t)' + InFlight(t)'
    BY DEF ClicksAreCounted
  <2>1. Used(t)' = Used(t) /\ undone' = undone
    BY <1>1 DEF Used, Issued
  <2>2. clicked[t] = undone[t] + Used(t) + InFlight(t)
    BY DEF IInv, ClicksAreCounted
  <2>3. /\ clicked[t] \in Nat /\ undone[t] \in Nat /\ Used(t) \in Nat
    BY DEF IInv, TypeOK, Used
  <2>4. CASE t = what.token
    <3>1. InFlight(t) = 0
      BY <1>1, <2>4 DEF IInv, TokensAreExclusive, InFlight, InClick
    <3>2. InFlight(t)' = 1
      BY <1>3, <1>4, <2>4 DEF InFlight
    <3>3. clicked'[t] = clicked[t] + 1
      BY <1>1, <2>4 DEF IInv, TypeOK
    <3> QED
      BY <2>1, <2>2, <2>3, <3>1, <3>2, <3>3
  <2>5. CASE t # what.token
    <3>1. clicked'[t] = clicked[t]
      BY <1>1, <2>5 DEF IInv, TypeOK
    <3>2. InFlight(t)' = InFlight(t)
      BY <1>1, <1>3, <1>4, <2>5 DEF InFlight
    <3> QED
      BY <2>1, <2>2, <2>3, <3>1, <3>2
  <2> QED
    BY <2>4, <2>5
<1> QED
  BY <1>6, <1>7, <1>8, <1>9, <1>10, <1>11, <1>12, <1>13 DEF IInv

LEMMA NoTaskTyped == NoTask \in Task /\ NoTask.submitted = FALSE
BY DEF NoTask, Task

LEMMA PersistsKeepsIInv ==
  ASSUME IInv, NEW k \in Workers, Persists(k)
  PROVE  IInv'
<1> DEFINE what == task[k]
           row == Row(what.status, what.page, what.submitted)
<1>1. /\ pc[k] \in {"answer", "clicked"}
      /\ run' = [run EXCEPT ![what.run] = row]
      /\ token' = IF pc[k] = "clicked"
                  THEN [token EXCEPT ![what.token].consumed = TRUE] ELSE token
      /\ reviewed' = IF what.status = "stopped_at_review"
                     THEN reviewed \cup {<<what.run, what.page>>} ELSE reviewed
      /\ Goto(k, "idle", NoTask)
      /\ UNCHANGED <<allow, approved, clerk, received, clicks, clicked, undone>>
  BY DEF Persists
<1>2. /\ what \in Task /\ what.run \in Runs /\ what.status \in RunStatus
      /\ what.submitted => received > 0
      /\ pc[k] = "clicked" => InClick(k) /\ what.token \in Tokens
                              /\ token[what.token] \in TokenRow /\ Authorised(what)
  BY <1>1, ClickersHold DEF IInv, TypeOK, TasksAreSound, Sound, InClick
<1>3. /\ pc' \in [Workers -> Places] /\ task' \in [Workers -> Task]
      /\ pc'[k] = "idle" /\ task'[k] = NoTask
      /\ \A j \in Workers \ {k} : pc'[j] = pc[j] /\ task'[j] = task[j]
  BY <1>1, NoTaskTyped, GotoMovesOne DEF IInv, Places
<1>4. /\ row \in RunRow /\ row # None
      /\ row.status = what.status /\ row.page = what.page /\ row.submitted = what.submitted
  <2>1. row \in RunRow
    BY <1>2 DEF Row, RunRow, Task
  <2> QED
    BY <2>1, NoneIsNothing DEF Row
<1> HIDE DEF row
\* The token rows keep everything but the mark of the token that was used.
<1>5. /\ token' \in [Tokens -> TokenRow \cup {None}]
      /\ \A t \in Tokens : /\ Issued(t)' <=> Issued(t)
                           /\ token'[t].run = token[t].run
                           /\ token'[t].page = token[t].page
                           /\ ~(pc[k] = "clicked" /\ t = what.token) => token'[t] = token[t]
                           /\ pc[k] = "clicked" /\ t = what.token => token'[t].consumed
  <2>1. CASE pc[k] = "clicked"
    <3> DEFINE used == [token[what.token] EXCEPT !.consumed = TRUE]
    <3>1. token' = [token EXCEPT ![what.token] = used]
      BY <1>1, <2>1
    <3>2. /\ used \in TokenRow /\ used.run = token[what.token].run
          /\ used.page = token[what.token].page /\ used.consumed
      BY <1>2, <2>1 DEF TokenRow
    <3>3. used # None /\ token[what.token] # None
      BY <1>2, <2>1, <3>2, NoneIsNothing
    <3> HIDE DEF used
    <3> QED
      BY <1>2, <2>1, <3>1, <3>2, <3>3 DEF IInv, TypeOK, Issued
  <2>2. CASE pc[k] # "clicked"
    BY <1>1, <2>2 DEF IInv, TypeOK, Issued
  <2> QED
    BY <2>1, <2>2
<1>6. TypeOK'
  <2>1. run' \in [Runs -> RunRow \cup {None}]
    BY <1>1, <1>2, <1>4 DEF IInv, TypeOK
  <2>2. reviewed' \subseteq Runs \X (Pages \cup {None})
    BY <1>1, <1>2 DEF IInv, TypeOK, Task
  <2> QED
    BY <1>1, <1>3, <1>5, <2>1, <2>2 DEF IInv, TypeOK, Places
<1>7. reviewed \subseteq reviewed'
  BY <1>1
<1>8. ReviewedOrigin'
  <2>1. ASSUME NEW r \in Runs, run'[r] # None, run'[r].status = "stopped_at_review"
        PROVE  <<r, run'[r].page>> \in reviewed'
    <3>1. CASE r = what.run
      BY <1>1, <1>2, <1>4, <2>1, <3>1 DEF IInv, TypeOK
    <3>2. CASE r # what.run
      BY <1>1, <1>7, <2>1, <3>2 DEF IInv, TypeOK, ReviewedOrigin
    <3> QED
      BY <3>1, <3>2
  <2>2. \A c \in Clerks : clerk'[c] # None => <<clerk'[c].run, clerk'[c].page>> \in reviewed'
    BY <1>1, <1>7 DEF IInv, ReviewedOrigin
  <2>3. \A t \in Tokens : Issued(t)' => <<token'[t].run, token'[t].page>> \in reviewed'
    BY <1>5, <1>7 DEF IInv, ReviewedOrigin
  <2> QED
    BY <2>1, <2>2, <2>3 DEF ReviewedOrigin
<1>9. ClicksWereReviewed'
  <2> SUFFICES ASSUME NEW c \in clicks
               PROVE  /\ <<c.run, c.page>> \in reviewed'
                      /\ Issued(c.token)' /\ token'[c.token].run = c.run
                      /\ token'[c.token].page = c.page
    BY <1>1 DEF ClicksWereReviewed
  <2>1. c.token \in Tokens
    BY DEF IInv, TypeOK
  <2> QED
    BY <1>5, <1>7, <2>1 DEF IInv, ClicksWereReviewed
<1>10. ModesAreOn'
  BY <1>1, <1>5 DEF IInv, ModesAreOn, ClicksNeedBothModes
<1>11. SubmittedIsReal'
  <2> SUFFICES ASSUME NEW r \in Runs, run'[r] # None, run'[r].submitted
               PROVE  received > 0
    BY <1>1 DEF SubmittedIsReal, AlreadySubmitted
  <2>1. CASE r = what.run
    BY <1>1, <1>2, <1>4, <2>1 DEF IInv, TypeOK
  <2>2. CASE r # what.run
    BY <1>1, <2>2 DEF IInv, TypeOK, SubmittedIsReal, AlreadySubmitted
  <2> QED
    BY <2>1, <2>2
<1>12. TasksAreSound'
  <2> SUFFICES ASSUME NEW j \in Workers PROVE Sound(pc[j], task[j])'
    BY DEF TasksAreSound
  <2>1. CASE j = k
    BY <1>3, <2>1, NoTaskTyped DEF Sound
  <2>2. CASE j # k
    <3>1. Sound(pc[j], task[j]) /\ pc'[j] = pc[j] /\ task'[j] = task[j]
      BY <1>3, <2>2 DEF IInv, TasksAreSound
    <3>2. task[j].token # None => task[j].token \in Tokens
      BY DEF IInv, TypeOK, Task
    <3>3. InClick(j) => Authorised(task[j])'
      <4> SUFFICES ASSUME InClick(j) PROVE Authorised(task[j])'
        OBVIOUS
      <4>1. Authorised(task[j])
        BY ClickersHold
      <4>2. ~(pc[k] = "clicked" /\ task[j].token = what.token)
        BY <2>2 DEF IInv, TokensAreExclusive, InClick
      <4>3. token'[task[j].token] = token[task[j].token]
        BY <1>5, <4>1, <4>2 DEF Authorised
      <4> QED
        BY <3>1, <4>1, <4>3 DEF Authorised, Signed, Issued
    <3>4. task[j].token # None /\ Issued(task[j].token) => Issued(task[j].token)'
      BY <1>5, <3>2, <3>1
    <3>5. allow' = allow /\ received' = received
      BY <1>1
    <3> QED
      BY <3>1, <3>3, <3>4, <3>5 DEF Sound, InClick
  <2> QED
    BY <2>1, <2>2
<1>13. TokensAreExclusive'
  BY <1>3 DEF IInv, TokensAreExclusive, InClick
<1>14. ClicksAreCounted'
  <2> SUFFICES ASSUME NEW t \in Tokens
               PROVE  clicked'[t] = undone'[t] + Used(t)' + InFlight(t)'
    BY DEF ClicksAreCounted
  <2>1. clicked[t] = undone[t] + Used(t) + InFlight(t) /\ clicked' = clicked /\ undone' = undone
    BY <1>1 DEF IInv, ClicksAreCounted
  <2>2. CASE pc[k] = "clicked" /\ t = what.token
    <3>1. Used(t) = 0 /\ InFlight(t) = 1
      BY <1>2, <2>2 DEF Used, InFlight, Authorised
    <3>2. Used(t)' = 1
      BY <1>2, <1>5, <2>2 DEF Used, Authorised
    <3>3. InFlight(t)' = 0
      BY <1>3, <2>2 DEF IInv, InFlight, TokensAreExclusive, InClick
    <3> QED
      BY <2>1, <3>1, <3>2, <3>3 DEF IInv, TypeOK
  <2>3. CASE ~(pc[k] = "clicked" /\ t = what.token)
    <3>1. Used(t)' = Used(t)
      BY <1>5, <2>3 DEF Used
    <3>2. InFlight(t)' = InFlight(t)
      BY <1>3, <2>3 DEF InFlight
    <3> QED
      BY <2>1, <3>1, <3>2
  <2> QED
    BY <2>2, <2>3
<1> QED
  BY <1>6, <1>8, <1>9, <1>10, <1>11, <1>12, <1>13, <1>14 DEF IInv

LEMMA RollsBackKeepsIInv ==
  ASSUME IInv, NEW k \in Workers, RollsBack(k)
  PROVE  IInv'
<1>1. /\ undone' = IF pc[k] = "clicked" THEN [undone EXCEPT ![task[k].token] = @ + 1]
                   ELSE undone
      /\ Goto(k, "idle", NoTask)
      /\ UNCHANGED <<allow, approved, run, token, clerk, received, reviewed, clicks, clicked>>
  BY DEF RollsBack, database
<1>2. /\ pc' \in [Workers -> Places] /\ task' \in [Workers -> Task]
      /\ pc'[k] = "idle" /\ task'[k] = NoTask
      /\ \A j \in Workers \ {k} : pc'[j] = pc[j] /\ task'[j] = task[j]
  BY <1>1, NoTaskTyped, GotoMovesOne DEF IInv, Places
<1>3. pc[k] = "clicked" => InClick(k) /\ task[k].token \in Tokens /\ Authorised(task[k])
  BY ClickersHold DEF InClick
<1>4. TypeOK'
  <2>1. undone' \in [Tokens -> Nat]
    BY <1>1, <1>3 DEF IInv, TypeOK
  <2> QED
    BY <1>1, <1>2, <2>1 DEF IInv, TypeOK, Places
<1>5. ReviewedOrigin' /\ ClicksWereReviewed' /\ ModesAreOn' /\ SubmittedIsReal'
  BY <1>1 DEF IInv, ReviewedOrigin, ClicksWereReviewed, ModesAreOn, ClicksNeedBothModes,
     SubmittedIsReal, AlreadySubmitted, Issued
<1>6. TasksAreSound'
  <2> SUFFICES ASSUME NEW j \in Workers PROVE Sound(pc[j], task[j])'
    BY DEF TasksAreSound
  <2>1. CASE j = k
    BY <1>2, <2>1, NoTaskTyped DEF Sound
  <2>2. CASE j # k
    <3>1. Sound(pc[j], task[j]) /\ pc'[j] = pc[j] /\ task'[j] = task[j]
      BY <1>2, <2>2 DEF IInv, TasksAreSound
    <3> QED
      BY <1>1, <3>1 DEF Sound, Authorised, Signed, Issued
  <2> QED
    BY <2>1, <2>2
<1>7. TokensAreExclusive'
  BY <1>2 DEF IInv, TokensAreExclusive, InClick
<1>8. ClicksAreCounted'
  <2> SUFFICES ASSUME NEW t \in Tokens
               PROVE  clicked'[t] = undone'[t] + Used(t)' + InFlight(t)'
    BY DEF ClicksAreCounted
  <2>1. clicked[t] = undone[t] + Used(t) + InFlight(t) /\ clicked' = clicked
    BY <1>1 DEF IInv, ClicksAreCounted
  <2>2. Used(t)' = Used(t) /\ Used(t) \in Nat
    BY <1>1 DEF Used, Issued
  <2>3. CASE pc[k] = "clicked" /\ t = task[k].token
    <3>1. InFlight(t) = 1
      BY <2>3 DEF InFlight
    <3>2. InFlight(t)' = 0
      BY <1>2, <2>3 DEF IInv, InFlight, TokensAreExclusive, InClick
    <3>3. undone'[t] = undone[t] + 1 /\ undone[t] \in Nat
      BY <1>1, <2>3 DEF IInv, TypeOK
    <3> QED
      BY <2>1, <2>2, <3>1, <3>2, <3>3
  <2>4. CASE ~(pc[k] = "clicked" /\ t = task[k].token)
    <3>1. InFlight(t)' = InFlight(t)
      BY <1>2, <2>4 DEF InFlight
    <3>2. undone'[t] = undone[t]
      BY <1>1, <1>3, <2>4 DEF IInv, TypeOK
    <3> QED
      BY <2>1, <2>2, <3>1, <3>2
  <2> QED
    BY <2>3, <2>4
<1> QED
  BY <1>4, <1>5, <1>6, <1>7, <1>8 DEF IInv

\* A step of the API that touches no task, only rows of runs and of tokens
\* that nobody holds yet.
LEMMA RequestKeepsTasks ==
  ASSUME IInv, UNCHANGED <<allow, pc, task, world>>,
         \A t \in Tokens : Issued(t) => token'[t] = token[t],
         \A t \in Tokens : ~Issued(t) => ~Issued(t)' \/ ~token'[t].consumed
  PROVE  TasksAreSound' /\ TokensAreExclusive' /\ ClicksAreCounted'
<1>1. TasksAreSound'
  <2> SUFFICES ASSUME NEW k \in Workers PROVE Sound(pc[k], task[k])'
    BY DEF TasksAreSound
  <2>1. Sound(pc[k], task[k])
    BY DEF IInv, TasksAreSound
  <2>2. task[k].token # None => task[k].token \in Tokens
    BY DEF IInv, TypeOK, Task
  <2>3. task[k].token \in Tokens /\ Issued(task[k].token) =>
          /\ token'[task[k].token] = token[task[k].token]
          /\ token'[task[k].token] # None
    BY DEF Issued
  <2>4. Authorised(task[k]) => Authorised(task[k])'
    BY <2>3 DEF Authorised, Signed, Issued
  <2> QED
    BY <2>1, <2>2, <2>3, <2>4 DEF Sound, Issued, world
<1>2. TokensAreExclusive'
  BY DEF IInv, TokensAreExclusive, InClick
<1>3. ClicksAreCounted'
  <2> SUFFICES ASSUME NEW t \in Tokens
               PROVE  clicked'[t] = undone'[t] + Used(t)' + InFlight(t)'
    BY DEF ClicksAreCounted
  <2>1. Used(t)' = Used(t)
    BY DEF Used, Issued
  <2>2. InFlight(t)' = InFlight(t)
    BY DEF InFlight
  <2> QED
    BY <2>1, <2>2 DEF IInv, ClicksAreCounted, world
<1> QED
  BY <1>1, <1>2, <1>3

LEMMA StartRunKeepsIInv ==
  ASSUME IInv, NEW r \in Runs, StartRun(r)
  PROVE  IInv'
<1> DEFINE row == Row("queued", None, FALSE)
<1>1. /\ run' = [run EXCEPT ![r] = row]
      /\ UNCHANGED <<allow, approved, token, clerk, pc, task, world>>
  BY DEF StartRun
<1>2. row \in RunRow /\ row.status = "queued" /\ row.submitted = FALSE
  BY DEF Row, RunRow, RunStatus
<1> HIDE DEF row
<1>3. TypeOK'
  <2>1. run' \in [Runs -> RunRow \cup {None}]
    BY <1>1, <1>2 DEF IInv, TypeOK
  <2> QED
    BY <1>1, <2>1 DEF IInv, TypeOK, world
<1>4. ReviewedOrigin'
  BY <1>1, <1>2 DEF IInv, TypeOK, ReviewedOrigin, Issued, world
<1>5. ClicksWereReviewed' /\ ModesAreOn'
  BY <1>1 DEF IInv, ClicksWereReviewed, ModesAreOn, ClicksNeedBothModes, Issued, world
<1>6. SubmittedIsReal'
  BY <1>1, <1>2 DEF IInv, TypeOK, SubmittedIsReal, AlreadySubmitted, world
<1>7. TasksAreSound' /\ TokensAreExclusive' /\ ClicksAreCounted'
  BY <1>1, RequestKeepsTasks DEF Issued
<1> QED
  BY <1>3, <1>4, <1>5, <1>6, <1>7 DEF IInv

LEMMA ApprovalKeepsIInv ==
  ASSUME IInv, ApprovalChanges
  PROVE  IInv'
<1>1. approved' = ~approved /\ UNCHANGED <<allow, run, token, clerk, pc, task, world>>
  BY DEF ApprovalChanges
<1>2. TypeOK' /\ ReviewedOrigin' /\ ClicksWereReviewed' /\ ModesAreOn' /\ SubmittedIsReal'
  BY <1>1 DEF IInv, TypeOK, ReviewedOrigin, ClicksWereReviewed, ModesAreOn,
     ClicksNeedBothModes, SubmittedIsReal, AlreadySubmitted, Issued, world
<1>3. TasksAreSound' /\ TokensAreExclusive' /\ ClicksAreCounted'
  BY <1>1, RequestKeepsTasks DEF Issued
<1> QED
  BY <1>2, <1>3 DEF IInv

LEMMA IssueReadsKeepsIInv ==
  ASSUME IInv, NEW c \in Clerks, NEW r \in Runs, IssueReads(c, r)
  PROVE  IInv'
<1> DEFINE asked == [run |-> r, page |-> run[r].page]
<1>1. /\ clerk' = [clerk EXCEPT ![c] = asked]
      /\ UNCHANGED <<allow, approved, run, token, pc, task, world>>
  BY DEF IssueReads, database
<1>2. allow.api /\ run[r] \in RunRow /\ run[r].page # None
      /\ <<r, run[r].page>> \in reviewed
  BY DEF IssueReads, MayApprove, IInv, TypeOK, ReviewedOrigin
<1>3. asked \in Approval /\ <<asked.run, asked.page>> \in reviewed
  BY <1>2 DEF Approval, RunRow
<1> HIDE DEF asked
<1>4. TypeOK'
  <2>1. clerk' \in [Clerks -> Approval \cup {None}]
    BY <1>1, <1>3 DEF IInv, TypeOK
  <2> QED
    BY <1>1, <2>1 DEF IInv, TypeOK, world
<1>5. ReviewedOrigin'
  BY <1>1, <1>3 DEF IInv, TypeOK, ReviewedOrigin, Issued, world
<1>6. ClicksWereReviewed' /\ SubmittedIsReal' /\ ModesAreOn'
  BY <1>1, <1>2 DEF IInv, ClicksWereReviewed, SubmittedIsReal, AlreadySubmitted,
     ModesAreOn, ClicksNeedBothModes, Issued, world
<1>7. TasksAreSound' /\ TokensAreExclusive' /\ ClicksAreCounted'
  BY <1>1, RequestKeepsTasks DEF Issued
<1> QED
  BY <1>4, <1>5, <1>6, <1>7 DEF IInv

LEMMA IssueCommitsKeepsIInv ==
  ASSUME IInv, NEW c \in Clerks, NEW t \in Tokens, IssueCommits(c, t)
  PROVE  IInv'
<1> DEFINE new == [run |-> clerk[c].run, page |-> clerk[c].page, consumed |-> FALSE]
<1>1. /\ token' = [token EXCEPT ![t] = new]
      /\ clerk' = [clerk EXCEPT ![c] = None]
      /\ ~Issued(t) /\ clerk[c] # None
      /\ UNCHANGED <<allow, approved, run, pc, task, world>>
  BY DEF IssueCommits
<1>2. allow.api /\ clerk[c] \in Approval /\ <<clerk[c].run, clerk[c].page>> \in reviewed
  BY <1>1 DEF IInv, TypeOK, ReviewedOrigin, ModesAreOn
<1>3. new \in TokenRow /\ ~new.consumed /\ <<new.run, new.page>> \in reviewed
  BY <1>2 DEF Approval, TokenRow
<1>4. new # None
  BY <1>3, NoneIsNothing
<1> HIDE DEF new
<1>5. TypeOK'
  <2>1. token' \in [Tokens -> TokenRow \cup {None}]
    BY <1>1, <1>3 DEF IInv, TypeOK
  <2>2. clerk' \in [Clerks -> Approval \cup {None}]
    BY <1>1 DEF IInv, TypeOK
  <2> QED
    BY <1>1, <2>1, <2>2 DEF IInv, TypeOK, world
<1>6. \A u \in Tokens : token'[u] = IF u = t THEN new ELSE token[u]
  BY <1>1 DEF IInv, TypeOK
<1>7. ReviewedOrigin'
  <2>1. \A u \in Tokens : Issued(u)' => <<token'[u].run, token'[u].page>> \in reviewed'
    BY <1>1, <1>3, <1>6 DEF IInv, ReviewedOrigin, Issued, world
  <2>2. \A d \in Clerks : clerk'[d] # None => <<clerk'[d].run, clerk'[d].page>> \in reviewed'
    BY <1>1 DEF IInv, TypeOK, ReviewedOrigin, world
  <2> QED
    BY <1>1, <2>1, <2>2 DEF IInv, ReviewedOrigin, world
<1>8. ClicksWereReviewed'
  <2> SUFFICES ASSUME NEW d \in clicks
               PROVE  /\ <<d.run, d.page>> \in reviewed
                      /\ Issued(d.token)' /\ token'[d.token].run = d.run
                      /\ token'[d.token].page = d.page
    BY <1>1 DEF ClicksWereReviewed, world
  <2>1. d.token \in Tokens
    BY DEF IInv, TypeOK
  <2> QED
    BY <1>1, <1>6, <2>1 DEF IInv, ClicksWereReviewed, Issued
<1>9. ModesAreOn'
  <2>1. \A d \in Clerks : clerk'[d] # None => allow'.api
    BY <1>1, <1>2
  <2>2. \A u \in Tokens : Issued(u)' => allow'.api
    BY <1>1, <1>2
  <2> QED
    BY <1>1, <2>1, <2>2 DEF IInv, ModesAreOn, ClicksNeedBothModes, world
<1>10. SubmittedIsReal'
  BY <1>1 DEF IInv, SubmittedIsReal, AlreadySubmitted, world
<1>11. TasksAreSound' /\ TokensAreExclusive' /\ ClicksAreCounted'
  BY <1>1, <1>3, <1>6, RequestKeepsTasks DEF Issued
<1> QED
  BY <1>5, <1>7, <1>8, <1>9, <1>10, <1>11 DEF IInv

LEMMA IssueRollsBackKeepsIInv ==
  ASSUME IInv, NEW c \in Clerks, IssueRollsBack(c)
  PROVE  IInv'
<1>1. /\ clerk' = [clerk EXCEPT ![c] = None]
      /\ UNCHANGED <<allow, approved, run, token, pc, task, world>>
  BY DEF IssueRollsBack, database
<1>2. TypeOK'
  <2>1. clerk' \in [Clerks -> Approval \cup {None}]
    BY <1>1 DEF IInv, TypeOK
  <2> QED
    BY <1>1, <2>1 DEF IInv, TypeOK, world
<1>3. ReviewedOrigin' /\ ModesAreOn'
  BY <1>1 DEF IInv, TypeOK, ReviewedOrigin, ModesAreOn, ClicksNeedBothModes, Issued, world
<1>4. ClicksWereReviewed' /\ SubmittedIsReal'
  BY <1>1 DEF IInv, ClicksWereReviewed, SubmittedIsReal, AlreadySubmitted, Issued, world
<1>5. TasksAreSound' /\ TokensAreExclusive' /\ ClicksAreCounted'
  BY <1>1, RequestKeepsTasks DEF Issued
<1> QED
  BY <1>2, <1>3, <1>4, <1>5 DEF IInv

-----------------------------------------------------------------------------
(* The theorems                                                            *)

LEMMA InitIsSound == Init => IInv
<1> SUFFICES ASSUME Init PROVE IInv
  OBVIOUS
<1> USE DEF Init
<1>1. TypeOK
  BY NoTaskTyped DEF TypeOK
<1>2. ReviewedOrigin /\ ClicksWereReviewed /\ ModesAreOn /\ SubmittedIsReal
  BY DEF ReviewedOrigin, ClicksWereReviewed, ModesAreOn, ClicksNeedBothModes,
     SubmittedIsReal, AlreadySubmitted, Issued
<1>3. TasksAreSound
  BY NoTaskTyped DEF TasksAreSound, Sound
<1>4. TokensAreExclusive
  BY DEF TokensAreExclusive, InClick
<1>5. ClicksAreCounted
  BY DEF ClicksAreCounted, Used, InFlight, Issued
<1> QED
  BY <1>1, <1>2, <1>3, <1>4, <1>5 DEF IInv

LEMMA StutterKeepsIInv == ASSUME IInv, UNCHANGED vars PROVE IInv'
<1> USE DEF vars, database, world
<1>1. TypeOK' /\ ReviewedOrigin' /\ ClicksWereReviewed' /\ ModesAreOn' /\ SubmittedIsReal'
  BY DEF IInv, TypeOK, ReviewedOrigin, ClicksWereReviewed, ModesAreOn,
     ClicksNeedBothModes, SubmittedIsReal, AlreadySubmitted, Issued
<1>2. TasksAreSound' /\ TokensAreExclusive' /\ ClicksAreCounted'
  BY RequestKeepsTasks DEF Issued
<1> QED
  BY <1>1, <1>2 DEF IInv

LEMMA NextKeepsIInv == IInv /\ [Next]_vars => IInv'
<1> SUFFICES ASSUME IInv, [Next]_vars PROVE IInv'
  OBVIOUS
<1>1. ASSUME NEW r \in Runs, StartRun(r) PROVE IInv'
  BY <1>1, StartRunKeepsIInv
<1>2. CASE ApprovalChanges
  BY <1>2, ApprovalKeepsIInv
<1>3. ASSUME NEW c \in Clerks, Serves(c) PROVE IInv'
  BY <1>3, IssueReadsKeepsIInv, IssueCommitsKeepsIInv, IssueRollsBackKeepsIInv DEF Serves
<1>4. ASSUME NEW k \in Workers, Works(k) PROVE IInv'
  <2>1. ASSUME NEW r \in Runs, NEW t \in Tokens \cup {None},
               \/ Pauses(k, r, t) \/ GivesUp(k, r, t) \/ FindsConfirmation(k, r, t)
               \/ \E p \in Pages : ReachesReview(k, r, t, p)
        PROVE  IInv'
    BY <2>1, CallsKeepIInv
  <2>2. ASSUME \/ ReadsGuard(k) \/ PausesOnReview(k) \/ StopsWithoutToken(k)
               \/ IsRefused(k) \/ IsAuthorised(k)
        PROVE  IInv'
    BY <2>2, ReviewStepsKeepIInv
  <2>3. ASSUME NEW accepted \in BOOLEAN, NEW shown \in BOOLEAN, Clicks(k, accepted, shown)
        PROVE  IInv'
    BY <2>3, ClicksKeepsIInv
  <2>4. CASE Persists(k)
    BY <2>4, PersistsKeepsIInv
  <2>5. CASE RollsBack(k)
    BY <2>5, RollsBackKeepsIInv
  <2> QED
    BY <1>4, <2>1, <2>2, <2>3, <2>4, <2>5 DEF Works
<1>5. CASE UNCHANGED vars
  BY <1>5, StutterKeepsIInv
<1> QED
  BY <1>1, <1>2, <1>3, <1>4, <1>5 DEF Next

\* The inductive invariant holds in every reachable state.
THEOREM SupervisionIsSound == Spec => []IInv
BY InitIsSound, NextKeepsIInv, PTL DEF Spec

\* Every variable keeps its type.
THEOREM SupervisionIsTyped == Spec => []TypeOK
<1>1. IInv => TypeOK
  BY DEF IInv
<1> QED
  BY <1>1, SupervisionIsSound, PTL

\* Submit is clicked only on what the human was shown and approved.
THEOREM HumanReviewsEveryClick == Spec => []ClicksWereReviewed
<1>1. IInv => ClicksWereReviewed
  BY DEF IInv
<1> QED
  BY <1>1, SupervisionIsSound, PTL

\* No click unless the API and the worker are both told to allow it.
THEOREM NoServiceSubmitsAlone == Spec => []ClicksNeedBothModes
<1>1. IInv => ClicksNeedBothModes
  BY DEF IInv, ModesAreOn
<1> QED
  BY <1>1, SupervisionIsSound, PTL

\* A token drives at most one click more than rollbacks have forgotten: once
\* it is marked as consumed nobody can be clicking with it.
THEOREM TokensAreOneTime == Spec => []OneClickPerCommit
<1>1. IInv => OneClickPerCommit
  <2> SUFFICES ASSUME IInv, NEW t \in Tokens PROVE clicked[t] <= 1 + undone[t]
    BY DEF OneClickPerCommit
  <2>1. clicked[t] = undone[t] + Used(t) + InFlight(t) /\ undone[t] \in Nat
    BY DEF IInv, ClicksAreCounted, TypeOK
  <2>2. CASE InFlight(t) = 0
    BY <2>1, <2>2 DEF Used
  <2>3. CASE InFlight(t) # 0
    <3>1. PICK k \in Workers : pc[k] = "clicked" /\ task[k].token = t
      BY <2>3 DEF InFlight
    <3>2. Used(t) = 0 /\ InFlight(t) = 1
      BY <3>1, ClickersHold DEF InClick, Authorised, Used, InFlight
    <3> QED
      BY <2>1, <3>2
  <2> QED
    BY <2>2, <2>3
<1> QED
  BY <1>1, SupervisionIsSound, PTL

\* A run that says submitted has an employer that accepted.
THEOREM SubmittedMeansAccepted == Spec => []SubmittedIsReal
<1>1. IInv => SubmittedIsReal
  BY DEF IInv
<1> QED
  BY <1>1, SupervisionIsSound, PTL

\* A click needs a token that is not consumed, and consuming is for ever.
THEOREM ConsumedTokensClickNoMore == Spec => ConsumedTokenIsDead
<1> DEFINE Dead == \A t \in Tokens : Issued(t) /\ token[t].consumed => clicked'[t] = clicked[t]
<1>1. IInv /\ [Next]_vars => [Dead]_vars
  <2> SUFFICES ASSUME IInv, Next, NEW t \in Tokens, Issued(t), token[t].consumed
               PROVE  clicked'[t] = clicked[t]
    OBVIOUS
  <2>1. ASSUME NEW k \in Workers, NEW accepted \in BOOLEAN, NEW shown \in BOOLEAN,
               Clicks(k, accepted, shown)
        PROVE  clicked'[t] = clicked[t]
    <3>1. InClick(k) /\ clicked' = [clicked EXCEPT ![task[k].token] = @ + 1]
      BY <2>1 DEF Clicks, InClick
    <3>2. t # task[k].token
      BY <3>1, ClickersHold DEF Authorised
    <3> QED
      BY <3>1, <3>2 DEF IInv, TypeOK
  <2>2. CASE \A k \in Workers, accepted, shown \in BOOLEAN : ~Clicks(k, accepted, shown)
    <3>1. clicked' = clicked
      BY <2>2 DEF Next, Serves, Works, StartRun, ApprovalChanges, IssueReads, IssueCommits,
         IssueRollsBack, Pauses, GivesUp, FindsConfirmation, ReachesReview, ReadsGuard,
         PausesOnReview, StopsWithoutToken, IsRefused, IsAuthorised, Persists, RollsBack,
         world
    <3> QED
      BY <3>1
  <2> QED
    BY <2>1, <2>2
<1> QED
  BY <1>1, SupervisionIsSound, PTL DEF Spec, ConsumedTokenIsDead

=============================================================================
