--------------------- MODULE ApplicationLifecycleProofs ---------------------
(***************************************************************************)
(* Proofs about ApplicationLifecycle for any sets of applications, jobs    *)
(* and concurrent handlers.                                                *)
(*                                                                         *)
(* None of the invariants is inductive alone: what a handler commits is    *)
(* computed from what it read earlier.  The strengthening SeenIsHistory    *)
(* says what survives of a stale read: the status a request remembers was  *)
(* reached by its application, the log that shows it only grows, and it is *)
(* still the status if nothing was committed since the transaction began.  *)
(***************************************************************************)
EXTENDS ApplicationLifecycle, SequenceTheorems, TLAPS

\* The status a request remembers is one its application has been in, and
\* the one it is in if it has no record that is newer than the transaction.
Remembers(r, s) ==
  /\ subject[r] \in Apps
  /\ seen[r].status = s
  /\ \E k \in 1..Len(events[subject[r]]) : events[subject[r]][k].to = s
  /\ seen[r].began <= Len(events[subject[r]])
  /\ seen[r].began = Len(events[subject[r]]) => status[subject[r]] = s

Stopped(a) == \E k \in 1..Len(events[a]) : events[a][k].to = "stopped_before_submit"

SeenOK(r) ==
  /\ pc[r] = "create" => /\ subject[r] \in Jobs
                         /\ \A b \in seen[r].found : Stopped(b)
  /\ pc[r] \in {"generate", "generated"} => Remembers(r, "matched")
  /\ pc[r] = "generated" => seen[r].resume <= Len(materials[subject[r]])
  /\ pc[r] \in {"review", "reviewed"} => Remembers(r, "human_review")
  /\ pc[r] = "transition" => /\ Remembers(r, seen[r].status)
                             /\ MayTransition(seen[r].status, seen[r].goal)
  /\ pc[r] = "stop" => Remembers(r, "approved")

SeenIsHistory == \A r \in Handlers : SeenOK(r)

\* The i-th record of a log is grounded, submits nothing and, if it is an
\* approval, has a human behind it.
GoodMove(log, i) ==
  /\ Grounded(log, i)
  /\ log[i].to # "submitted"
  /\ log[i].to = "approved" => log[i].by = "human"

GoodLog(log) == \A i \in 1..Len(log) : GoodMove(log, i)

LogsAreGood ==
  \A a \in Apps :
    /\ GoodLog(events[a])
    /\ IF status[a] = None THEN events[a] = <<>>
       ELSE events[a] # <<>> /\ events[a][Len(events[a])].to = status[a]

GoodMaterials(rows, latest) ==
  /\ latest = Len(rows)
  /\ \A i \in 1..Len(rows) : rows[i].version = i

MaterialsAreGood == \A a \in Apps : GoodMaterials(materials[a], packet[a])

\* A row without a status is no application yet, and an application started
\* for a job is started after those that its request found had stopped.
OldOnesStopped ==
  \A a \in Apps : /\ status[a] = None => job[a] = None
                  /\ \A b \in older[a] : Stopped(b)

IInv == TypeOK /\ LogsAreGood /\ MaterialsAreGood /\ OldOnesStopped /\ SeenIsHistory

-----------------------------------------------------------------------------
(* Logs                                                                    *)

\* `moves` may follow `log`: the first starts in a status the log reached,
\* or creates the application, and each other one where the last one ended.
MayFollow(log, moves) ==
  \A i \in 1..Len(moves) :
    /\ moves[i].to # "submitted"
    /\ moves[i].to = "approved" => moves[i].by = "human"
    /\ IF i = 1 THEN \/ log = <<>> /\ moves[i].from = None /\ moves[i].to = "draft"
                     \/ /\ <<moves[i].from, moves[i].to>> \in TRANSITIONS
                        /\ \E k \in 1..Len(log) : log[k].to = moves[i].from
       ELSE /\ <<moves[i].from, moves[i].to>> \in TRANSITIONS
            /\ moves[i - 1].to = moves[i].from

\* A good log continued by moves that may follow it is good, keeps all it
\* recorded, and ends where the moves end.
LEMMA GoodLogGrows ==
  ASSUME NEW log \in Seq(Event), GoodLog(log),
         NEW moves \in Seq(Event), moves # <<>>, MayFollow(log, moves)
  PROVE  /\ log \o moves \in Seq(Event)
         /\ GoodLog(log \o moves)
         /\ log \o moves # <<>>
         /\ (log \o moves)[Len(log \o moves)].to = moves[Len(moves)].to
         /\ \A i \in 1..Len(log) : /\ i \in 1..Len(log \o moves)
                                   /\ (log \o moves)[i] = log[i]
<1> DEFINE new == log \o moves
<1>1. /\ new \in Seq(Event)
      /\ Len(new) = Len(log) + Len(moves)
      /\ \A i \in 1..Len(log) + Len(moves) :
           new[i] = IF i <= Len(log) THEN log[i] ELSE moves[i - Len(log)]
  BY ConcatProperties
<1>2. Len(log) \in Nat /\ Len(moves) \in Nat /\ Len(moves) # 0
  BY LenProperties, EmptySeq
<1>3. \A i \in 1..Len(log) : i \in 1..Len(new) /\ new[i] = log[i]
  BY <1>1, <1>2
<1>4. ASSUME NEW i \in 1..Len(new) PROVE GoodMove(new, i)
  <2>1. CASE i <= Len(log)
    <3>1. i \in 1..Len(log) /\ GoodMove(log, i)
      BY <2>1, <1>1, <1>2 DEF GoodLog
    <3>2. \A k \in 1..(i - 1) : new[k] = log[k]
      BY <3>1, <1>2, <1>3
    <3> QED
      BY <3>1, <3>2, <1>3 DEF GoodMove, Grounded
  <2>2. CASE i > Len(log)
    <3> DEFINE n == i - Len(log)
    <3>1. n \in 1..Len(moves) /\ new[i] = moves[n]
      BY <2>2, <1>1, <1>2
    <3>2. CASE n = 1
      <4>1. i = Len(log) + 1
        BY <3>2, <1>1, <1>2
      <4>2. CASE log = <<>> /\ moves[n].from = None /\ moves[n].to = "draft"
        <5>1. i = 1
          BY <4>1, <4>2, EmptySeq
        <5> QED
          BY <3>1, <4>2, <5>1 DEF MayFollow, GoodMove, Grounded
      <4>3. CASE /\ <<moves[n].from, moves[n].to>> \in TRANSITIONS
                 /\ \E k \in 1..Len(log) : log[k].to = moves[n].from
        <5>1. PICK k \in 1..Len(log) : log[k].to = moves[n].from
          BY <4>3
        <5>2. i # 1 /\ k \in 1..(i - 1) /\ new[k].to = new[i].from
          BY <5>1, <4>1, <3>1, <1>2, <1>3
        <5> QED
          BY <3>1, <4>3, <5>2 DEF MayFollow, GoodMove, Grounded
      <4> QED
        BY <3>1, <3>2, <4>2, <4>3 DEF MayFollow
    <3>3. CASE n # 1
      <4>1. /\ <<moves[n].from, moves[n].to>> \in TRANSITIONS
            /\ moves[n - 1].to = moves[n].from
        BY <3>1, <3>3 DEF MayFollow
      <4>2. /\ i - 1 \in 1..Len(new) /\ i # 1 /\ i - 1 \in 1..(i - 1)
            /\ new[i - 1] = moves[n - 1]
        BY <3>1, <3>3, <1>1, <1>2, <2>2
      <4> QED
        BY <3>1, <4>1, <4>2 DEF MayFollow, GoodMove, Grounded
    <3> QED
      BY <3>2, <3>3
  <2> QED
    BY <2>1, <2>2, <1>1, <1>2
<1>5. new # <<>> /\ new[Len(new)] = moves[Len(moves)]
  BY <1>1, <1>2, EmptySeq
<1> QED
  BY <1>1, <1>3, <1>4, <1>5 DEF GoodLog

-----------------------------------------------------------------------------
(* What every step does to the requests                                    *)

Places == {"idle", "create", "generate", "generated", "review", "reviewed",
           "transition", "stop"}

RequestsTyped ==
  /\ pc \in [Handlers -> Places]
  /\ subject \in [Handlers -> Apps \cup Jobs \cup {None}]
  /\ seen \in [Handlers -> Seen]

OthersUntouched(r) ==
  \A q \in Handlers \ {r} :
    pc'[q] = pc[q] /\ subject'[q] = subject[q] /\ seen'[q] = seen[q]

DatabaseGrows ==
  \A a \in Apps :
    /\ \A k \in 1..Len(events[a]) : /\ k \in 1..Len(events'[a])
                                    /\ events'[a][k] = events[a][k]
    /\ \A n \in Nat : n <= Len(events[a]) =>
         /\ n <= Len(events'[a])
         /\ n = Len(events'[a]) => n = Len(events[a]) /\ status'[a] = status[a]
    /\ \A n \in Nat : n <= Len(materials[a]) => n <= Len(materials'[a])

LEMMA ContinueMovesOne ==
  ASSUME RequestsTyped, NEW r \in Handlers, NEW where \in Places,
         NEW what \in Apps \cup Jobs \cup {None}, NEW read \in Seen,
         Continue(r, where, what, read)
  PROVE  /\ RequestsTyped'
         /\ OthersUntouched(r)
         /\ pc'[r] = where /\ subject'[r] = what /\ seen'[r] = read
BY DEF RequestsTyped, Continue, OthersUntouched

LEMMA ReplyForgets ==
  ASSUME RequestsTyped, NEW r \in Handlers, Reply(r)
  PROVE  RequestsTyped' /\ OthersUntouched(r) /\ SeenOK(r)'
<1>1. NothingSeen \in Seen /\ "idle" \in Places
  BY DEF NothingSeen, SeenStatus, Seen, Places
<1>2. RequestsTyped' /\ OthersUntouched(r) /\ pc'[r] = "idle"
  BY <1>1, ContinueMovesOne DEF Reply
<1> QED
  BY <1>2 DEF SeenOK

\* What the other requests remember stays true when the database grows.
LEMMA HistoryIsKept ==
  ASSUME RequestsTyped, SeenIsHistory, DatabaseGrows,
         NEW r \in Handlers, OthersUntouched(r), SeenOK(r)'
  PROVE  SeenIsHistory'
<1> SUFFICES ASSUME NEW q \in Handlers, q # r PROVE SeenOK(q)'
  BY DEF SeenIsHistory
<1>1. pc'[q] = pc[q] /\ subject'[q] = subject[q] /\ seen'[q] = seen[q] /\ SeenOK(q)
  BY DEF OthersUntouched, SeenIsHistory
<1>2. ASSUME NEW s, Remembers(q, s)
      PROVE  /\ subject'[q] \in Apps
             /\ seen'[q].status = s
             /\ \E k \in 1..Len(events'[subject'[q]]) : events'[subject'[q]][k].to = s
             /\ seen'[q].began <= Len(events'[subject'[q]])
             /\ seen'[q].began = Len(events'[subject'[q]]) => status'[subject'[q]] = s
  <2>1. PICK k \in 1..Len(events[subject[q]]) : events[subject[q]][k].to = s
    BY <1>2 DEF Remembers
  <2>2. k \in 1..Len(events'[subject[q]]) /\ events'[subject[q]][k] = events[subject[q]][k]
    BY <2>1, <1>2 DEF Remembers, DatabaseGrows
  <2>3. /\ seen[q].began \in Nat /\ seen[q].began <= Len(events[subject[q]])
        /\ seen[q].began = Len(events[subject[q]]) => status[subject[q]] = s
    BY <1>2 DEF Remembers, RequestsTyped, Seen
  <2>4. /\ seen[q].began <= Len(events'[subject[q]])
        /\ seen[q].began = Len(events'[subject[q]]) => status'[subject[q]] = s
    BY <1>2, <2>3 DEF Remembers, DatabaseGrows
  <2> QED
    BY <1>1, <1>2, <2>1, <2>2, <2>4 DEF Remembers
<1>3. pc[q] = "generated" => seen'[q].resume <= Len(materials'[subject'[q]])
  BY <1>1 DEF SeenOK, Remembers, DatabaseGrows, RequestsTyped, Seen
<1>4. ASSUME NEW b \in Apps, Stopped(b) PROVE Stopped(b)'
  BY <1>4 DEF Stopped, DatabaseGrows
<1>5. pc[q] = "create" => \A b \in seen'[q].found : Stopped(b)'
  BY <1>1, <1>4 DEF SeenOK, RequestsTyped, Seen
<1> QED
  BY <1>1, <1>2, <1>3, <1>5 DEF SeenOK, Remembers

-----------------------------------------------------------------------------
(* What a read step and a commit step do to the invariant                  *)

LEMMA TypeOKParts ==
  TypeOK <=> /\ RequestsTyped
             /\ status \in [Apps -> ApplicationStatus \cup {None}]
             /\ job \in [Apps -> Jobs \cup {None}]
             /\ packet \in [Apps -> Nat]
             /\ events \in [Apps -> Seq(Event)]
             /\ materials \in [Apps -> Seq([version : Nat, reviewed : BOOLEAN])]
             /\ older \in [Apps -> SUBSET Apps]
BY DEF TypeOK, RequestsTyped, Places

\* A step that leaves the database alone only has to justify what its own
\* request remembers.
LEMMA ReadKeepsIInv ==
  ASSUME IInv, UNCHANGED database, RequestsTyped',
         NEW r \in Handlers, OthersUntouched(r), SeenOK(r)'
  PROVE  IInv'
<1>1. RequestsTyped /\ SeenIsHistory
  BY TypeOKParts DEF IInv
<1>2. DatabaseGrows
  BY DEF DatabaseGrows, database
<1>3. SeenIsHistory'
  BY <1>1, <1>2, HistoryIsKept
<1>4. TypeOK'
  BY DEF IInv, TypeOK, RequestsTyped, Places, database
<1>5. LogsAreGood' /\ MaterialsAreGood' /\ OldOnesStopped'
  BY DEF IInv, LogsAreGood, MaterialsAreGood, OldOnesStopped, Stopped, database
<1> QED
  BY <1>3, <1>4, <1>5 DEF IInv

\* The update of a row together with audit records that may follow its log.
LEMMA RecordKeepsLogs ==
  ASSUME IInv, NEW a \in Apps, NEW new \in ApplicationStatus,
         NEW moves \in Seq(Event), moves # <<>>, moves[Len(moves)].to = new,
         MayFollow(events[a], moves), Record(a, new, moves)
  PROVE  /\ status' \in [Apps -> ApplicationStatus \cup {None}]
         /\ events' \in [Apps -> Seq(Event)]
         /\ LogsAreGood'
         /\ \A b \in Apps : \A k \in 1..Len(events[b]) :
              k \in 1..Len(events'[b]) /\ events'[b][k] = events[b][k]
         /\ \A b \in Apps : \A n \in Nat : n <= Len(events[b]) =>
              /\ n <= Len(events'[b])
              /\ n = Len(events'[b]) => n = Len(events[b]) /\ status'[b] = status[b]
<1>1. /\ status \in [Apps -> ApplicationStatus \cup {None}]
      /\ events \in [Apps -> Seq(Event)]
      /\ LogsAreGood
  BY DEF IInv, TypeOK
<1> DEFINE longer == events[a] \o moves
<1>2. /\ longer \in Seq(Event)
      /\ GoodLog(longer)
      /\ longer # <<>>
      /\ longer[Len(longer)].to = new
      /\ \A k \in 1..Len(events[a]) : k \in 1..Len(longer) /\ longer[k] = events[a][k]
  BY <1>1, GoodLogGrows DEF LogsAreGood
<1>3. /\ events' = [events EXCEPT ![a] = longer]
      /\ status' = [status EXCEPT ![a] = new]
  BY DEF Record
<1>6. Len(longer) = Len(events[a]) + Len(moves) /\ Len(moves) \in Nat \ {0}
      /\ Len(events[a]) \in Nat
  BY <1>1, ConcatProperties, LenProperties, EmptySeq
<1> HIDE DEF longer
<1>7. ASSUME NEW b \in Apps, NEW n \in Nat, n <= Len(events[b])
      PROVE  /\ n <= Len(events'[b])
             /\ n = Len(events'[b]) => n = Len(events[b]) /\ status'[b] = status[b]
  <2>1. CASE b = a
    BY <2>1, <1>1, <1>3, <1>6, <1>7
  <2>2. CASE b # a
    BY <2>2, <1>1, <1>3, <1>7
  <2> QED
    BY <2>1, <2>2
<1>4. new # None
  BY ConstantsAssumption
<1>5. LogsAreGood'
  <2> SUFFICES ASSUME NEW b \in Apps
               PROVE  /\ GoodLog(events'[b])
                      /\ IF status'[b] = None THEN events'[b] = <<>>
                         ELSE events'[b] # <<>> /\ events'[b][Len(events'[b])].to = status'[b]
    BY DEF LogsAreGood
  <2>1. CASE b = a
    BY <2>1, <1>1, <1>2, <1>3, <1>4
  <2>2. CASE b # a
    <3>1. events'[b] = events[b] /\ status'[b] = status[b]
      BY <2>2, <1>1, <1>3
    <3> QED
      BY <3>1, <1>1 DEF LogsAreGood
  <2> QED
    BY <2>1, <2>2
<1> QED
  BY <1>1, <1>2, <1>3, <1>5, <1>7

\* One audit record may follow a log that has reached its from_status.
LEMMA OneMove ==
  ASSUME NEW log \in Seq(Event), NEW from \in ApplicationStatus,
         NEW to \in ApplicationStatus, NEW by \in {"human", "system"},
         \E k \in 1..Len(log) : log[k].to = from,
         MayTransition(from, to), to = "approved" => by = "human"
  PROVE  LET moves == <<Moved(from, to, by)>>
         IN  /\ moves \in Seq(Event) /\ moves # <<>>
             /\ moves[Len(moves)].to = to
             /\ MayFollow(log, moves)
<1> DEFINE moves == <<Moved(from, to, by)>>
<1>1. Moved(from, to, by) \in Event
  BY DEF Moved, Event
<1>2. moves \in Seq(Event) /\ Len(moves) = 1 /\ moves[1] = Moved(from, to, by)
  BY <1>1
<1>3. moves # <<>>
  OBVIOUS
<1> HIDE DEF moves
<1>4. MayFollow(log, moves)
  BY <1>2 DEF MayFollow, Moved, MayTransition, INITIAL_MODE_BLOCKED
<1>5. moves[Len(moves)].to = to
  BY <1>2 DEF Moved
<1> QED
  BY <1>2, <1>3, <1>4, <1>5 DEF moves

-----------------------------------------------------------------------------
(* One lemma per kind of step: the SELECTs                                 *)

\* A status column shows a status that its log has reached.
LEMMA StatusWasReached ==
  ASSUME IInv, NEW a \in Apps, Exists(a)
  PROVE  /\ status[a] \in ApplicationStatus
         /\ \E k \in 1..Len(events[a]) : events[a][k].to = status[a]
<1>1. /\ status[a] \in ApplicationStatus
      /\ events[a] \in Seq(Event)
      /\ events[a] # <<>>
      /\ events[a][Len(events[a])].to = status[a]
  BY DEF IInv, TypeOK, LogsAreGood, Exists
<1>2. Len(events[a]) \in 1..Len(events[a])
  BY <1>1, EmptySeq, LenProperties
<1> QED
  BY <1>1, <1>2

\* A request that answers without writing.
LEMMA ReplyKeepsIInv ==
  ASSUME IInv, NEW r \in Handlers, Reply(r), UNCHANGED database
  PROVE  IInv'
<1>1. RequestsTyped
  BY TypeOKParts DEF IInv
<1>2. RequestsTyped' /\ OthersUntouched(r) /\ SeenOK(r)'
  BY <1>1, ReplyForgets
<1> QED
  BY <1>2, ReadKeepsIInv

\* A request accepted about an application whose status it remembers.
LEMMA ServeKeepsIInv ==
  ASSUME IInv, NEW r \in Handlers, NEW a \in Apps, Exists(a),
         NEW where \in {"generate", "review", "transition", "stop"},
         NEW goal \in ApplicationStatus \cup {None}, NEW allowed,
         NEW began \in TransactionStarts(a),
         Serve(r, allowed, where, a, SeenStatus(status[a], goal, began)),
         allowed => /\ where = "generate" => status[a] = "matched"
                    /\ where = "review" => status[a] = "human_review"
                    /\ where = "transition" => MayTransition(status[a], goal)
                    /\ where = "stop" => status[a] = "approved"
  PROVE  IInv'
<1> DEFINE read == SeenStatus(status[a], goal, began)
<1>1. RequestsTyped
  BY TypeOKParts DEF IInv
<1>2. UNCHANGED database
  BY DEF Serve
<1>3. CASE allowed
  <2>1. /\ status[a] \in ApplicationStatus
        /\ \E k \in 1..Len(events[a]) : events[a][k].to = status[a]
    BY StatusWasReached
  <2>8. began \in Nat /\ began <= Len(events[a])
    BY LenProperties DEF TransactionStarts, IInv, TypeOK
  <2>2. read \in Seen /\ read.status = status[a] /\ read.goal = goal /\ read.began = began
    BY <2>1, <2>8 DEF SeenStatus, Seen
  <2> HIDE DEF read
  <2>3. Continue(r, where, a, read)
    BY <1>3 DEF Serve, read
  <2>4. /\ RequestsTyped' /\ OthersUntouched(r)
        /\ pc'[r] = where /\ subject'[r] = a /\ seen'[r] = read
    BY <1>1, <2>2, <2>3, ContinueMovesOne DEF Places
  <2>5. events' = events /\ status' = status
    BY <1>2 DEF database
  <2>6. \A s : s = status[a] => Remembers(r, s)'
    BY <2>1, <2>2, <2>4, <2>5, <2>8 DEF Remembers
  <2>7. SeenOK(r)'
    BY <1>3, <2>2, <2>4, <2>6 DEF SeenOK
  <2> QED
    BY <1>2, <2>4, <2>7, ReadKeepsIInv
<1>4. CASE ~allowed
  BY <1>2, <1>4, ReplyKeepsIInv DEF Serve
<1> QED
  BY <1>3, <1>4

LEMMA GenerateReadsKeepsIInv ==
  ASSUME IInv, NEW r \in Handlers, NEW a \in Apps, GenerateReads(r, a)
  PROVE  IInv'
BY ServeKeepsIInv DEF GenerateReads

LEMMA ReviewReadsKeepsIInv ==
  ASSUME IInv, NEW r \in Handlers, NEW a \in Apps, ReviewReads(r, a)
  PROVE  IInv'
BY ServeKeepsIInv DEF ReviewReads

LEMMA StopReadsKeepsIInv ==
  ASSUME IInv, NEW r \in Handlers, NEW a \in Apps, StopReads(r, a)
  PROVE  IInv'
BY ServeKeepsIInv DEF StopReads

LEMMA TransitionReadsKeepsIInv ==
  ASSUME IInv, NEW r \in Handlers, NEW a \in Apps, NEW goal \in ApplicationStatus,
         TransitionReads(r, a, goal)
  PROVE  IInv'
BY ServeKeepsIInv DEF TransitionReads

\* An application that is no longer active was stopped: none is submitted.
LEMMA InactiveIsStopped ==
  ASSUME IInv, NEW b \in Apps, Exists(b), status[b] \notin ActiveStatuses
  PROVE  Stopped(b)
<1>1. PICK k \in 1..Len(events[b]) : events[b][k].to = status[b]
  BY StatusWasReached
<1>2. events[b][k].to # "submitted"
  BY DEF IInv, LogsAreGood, GoodLog, GoodMove
<1>3. status[b] \in ApplicationStatus
  BY StatusWasReached
<1> QED
  BY <1>1, <1>2, <1>3 DEF ActiveStatuses, Stopped

LEMMA CreateReadsKeepsIInv ==
  ASSUME IInv, NEW r \in Handlers, NEW j \in Jobs, CreateReads(r, j)
  PROVE  IInv'
<1> DEFINE found == {a \in Apps : job[a] = j}
           allowed == \A a \in found : status[a] \notin ActiveStatuses
           read == SeenApplications(found)
<1>1. RequestsTyped
  BY TypeOKParts DEF IInv
<1>2. UNCHANGED database
  BY DEF CreateReads, Serve
<1>3. CASE allowed
  <2>1. read \in Seen /\ read.found = found
    <3>1. NothingSeen \in Seen
      BY DEF NothingSeen, SeenStatus, Seen
    <3>2. found \in SUBSET Apps
      OBVIOUS
    <3>3. read = [NothingSeen EXCEPT !.found = found]
      BY Zenon DEF SeenApplications
    <3> HIDE DEF read, found
    <3> QED
      BY <3>1, <3>2, <3>3 DEF Seen
  <2>2. Continue(r, "create", j, read)
    BY <1>3 DEF CreateReads, Serve
  <2>3. ASSUME NEW b \in found PROVE Stopped(b)
    <3>1. Exists(b)
      BY ConstantsAssumption DEF IInv, OldOnesStopped, Exists
    <3> QED
      BY <1>3, <3>1, InactiveIsStopped
  <2> HIDE DEF read, found
  <2>4. /\ RequestsTyped' /\ OthersUntouched(r)
        /\ pc'[r] = "create" /\ subject'[r] = j /\ seen'[r] = read
    BY <1>1, <2>1, <2>2, ContinueMovesOne DEF Places
  <2>5. events' = events
    BY <1>2 DEF database
  <2>6. \A b \in found : Stopped(b)'
    BY <2>3, <2>5 DEF Stopped
  <2>7. SeenOK(r)'
    BY <2>1, <2>4, <2>6 DEF SeenOK
  <2> QED
    BY <1>2, <2>4, <2>7, ReadKeepsIInv
<1>4. CASE ~allowed
  BY <1>2, <1>4, ReplyKeepsIInv DEF CreateReads, Serve
<1> QED
  BY <1>3, <1>4

\* The newest resume of a contiguous series is its length.
LEMMA LatestIsLength ==
  ASSUME NEW rows \in Seq([version : Nat, reviewed : BOOLEAN]),
         \A i \in 1..Len(rows) : rows[i].version = i
  PROVE  LatestResume(rows) = Len(rows)
<1> DEFINE n == Len(rows)
<1>1. n \in Nat /\ DOMAIN rows = 1..n
  BY LenProperties
<1>2. CASE rows = <<>>
  BY <1>2, EmptySeq DEF LatestResume
<1>3. CASE rows # <<>>
  <2> DEFINE versions == {rows[i].version : i \in DOMAIN rows}
  <2>1. versions = 1..n
    BY <1>1
  <2>2. n \in versions /\ \A w \in versions : w <= n
    BY <1>1, <1>3, <2>1, EmptySeq
  <2> HIDE DEF n, versions
  <2>3. \A v \in 1..n : n <= v => v = n
    BY <1>1
  <2>4. (CHOOSE v \in versions : \A w \in versions : w <= v) = n
    BY <2>1, <2>2, <2>3
  <2> QED
    BY <1>3, <2>4 DEF LatestResume, versions, n
<1> QED
  BY <1>2, <1>3

LEMMA GenerateReadsPreviousKeepsIInv ==
  ASSUME IInv, NEW r \in Handlers, GenerateReadsPrevious(r)
  PROVE  IInv'
<1> DEFINE a == subject[r]
           read == [seen[r] EXCEPT !.resume = LatestResume(materials[a])]
<1>1. /\ RequestsTyped /\ Remembers(r, "matched") /\ a \in Apps
      /\ materials[a] \in Seq([version : Nat, reviewed : BOOLEAN])
      /\ \A i \in 1..Len(materials[a]) : materials[a][i].version = i
  BY TypeOKParts DEF IInv, SeenIsHistory, SeenOK, Remembers, MaterialsAreGood,
     GoodMaterials, GenerateReadsPrevious
<1>2. LatestResume(materials[a]) = Len(materials[a]) /\ Len(materials[a]) \in Nat
  BY <1>1, LatestIsLength, LenProperties
<1>3. /\ read \in Seen /\ read.status = seen[r].status /\ read.resume = Len(materials[a])
      /\ read.began = seen[r].began
  BY <1>1, <1>2 DEF RequestsTyped, Seen
<1> HIDE DEF read
<1>4. Continue(r, "generated", a, read) /\ UNCHANGED database
  BY DEF GenerateReadsPrevious, read
<1>5. /\ RequestsTyped' /\ OthersUntouched(r)
      /\ pc'[r] = "generated" /\ subject'[r] = a /\ seen'[r] = read
  BY <1>1, <1>3, <1>4, ContinueMovesOne DEF Places
<1>6. Remembers(r, "matched")'
  BY <1>1, <1>3, <1>4, <1>5 DEF Remembers, database
<1>7. seen'[r].resume <= Len(materials'[subject'[r]])
  BY <1>2, <1>3, <1>4, <1>5 DEF database
<1>8. SeenOK(r)'
  BY <1>5, <1>6, <1>7 DEF SeenOK
<1> QED
  BY <1>4, <1>5, <1>8, ReadKeepsIInv

LEMMA ReviewReadsMaterialsKeepsIInv ==
  ASSUME IInv, NEW r \in Handlers, ReviewReadsMaterials(r)
  PROVE  IInv'
<1> DEFINE a == subject[r]
           read == [seen[r] EXCEPT !.resume = Len(materials[a])]
<1>1. UNCHANGED database
  BY DEF ReviewReadsMaterials
<1>2. CASE Len(materials[a]) = 0
  BY <1>1, <1>2, ReplyKeepsIInv DEF ReviewReadsMaterials
<1>3. CASE Len(materials[a]) # 0
  <2>1. /\ RequestsTyped /\ Remembers(r, "human_review") /\ a \in Apps
        /\ materials[a] \in Seq([version : Nat, reviewed : BOOLEAN])
    BY TypeOKParts DEF IInv, SeenIsHistory, SeenOK, Remembers, ReviewReadsMaterials
  <2>2. read \in Seen /\ read.status = seen[r].status /\ read.began = seen[r].began
    BY <2>1, LenProperties DEF RequestsTyped, Seen
  <2> HIDE DEF read
  <2>3. Continue(r, "reviewed", a, read)
    BY <1>3 DEF ReviewReadsMaterials, read
  <2>4. /\ RequestsTyped' /\ OthersUntouched(r)
        /\ pc'[r] = "reviewed" /\ subject'[r] = a /\ seen'[r] = read
    BY <2>1, <2>2, <2>3, ContinueMovesOne DEF Places
  <2>5. Remembers(r, "human_review")'
    BY <1>1, <2>1, <2>2, <2>4 DEF Remembers, database
  <2>6. SeenOK(r)'
    BY <2>4, <2>5 DEF SeenOK
  <2> QED
    BY <1>1, <2>4, <2>6, ReadKeepsIInv
<1> QED
  BY <1>2, <1>3

-----------------------------------------------------------------------------
(* One lemma per kind of step: the COMMITs                                 *)

\* A commit that records moves and keeps the materials good.
LEMMA CommitKeepsIInv ==
  ASSUME IInv, NEW r \in Handlers, Reply(r),
         NEW a \in Apps, NEW new \in ApplicationStatus,
         NEW moves \in Seq(Event), moves # <<>>, moves[Len(moves)].to = new,
         MayFollow(events[a], moves), Record(a, new, moves),
         job' \in [Apps -> Jobs \cup {None}],
         packet' \in [Apps -> Nat],
         materials' \in [Apps -> Seq([version : Nat, reviewed : BOOLEAN])],
         MaterialsAreGood',
         \A b \in Apps : \A n \in Nat : n <= Len(materials[b]) => n <= Len(materials'[b]),
         older' \in [Apps -> SUBSET Apps],
         \A b \in Apps : /\ b # a => job'[b] = job[b]
                         /\ older'[b] = older[b] \/ \A c \in older'[b] : Stopped(c)
  PROVE  IInv'
<1>1. RequestsTyped /\ SeenIsHistory
  BY TypeOKParts DEF IInv
<1>2. RequestsTyped' /\ OthersUntouched(r) /\ SeenOK(r)'
  BY <1>1, ReplyForgets
<1>3. /\ status' \in [Apps -> ApplicationStatus \cup {None}]
      /\ events' \in [Apps -> Seq(Event)]
      /\ LogsAreGood'
      /\ DatabaseGrows
  BY RecordKeepsLogs DEF DatabaseGrows
<1>4. SeenIsHistory'
  BY <1>1, <1>2, <1>3, HistoryIsKept
<1>5. TypeOK'
  BY <1>2, <1>3 DEF TypeOK, RequestsTyped, Places
<1>6. OldOnesStopped'
  <2> SUFFICES ASSUME NEW b \in Apps
               PROVE  /\ status'[b] = None => job'[b] = None
                      /\ \A c \in older'[b] : Stopped(c)'
    BY DEF OldOnesStopped
  <2>1. status'[b] = None => b # a /\ status[b] = None
    BY ConstantsAssumption DEF Record, IInv, TypeOK
  <2>2. ASSUME NEW c \in older'[b] PROVE Stopped(c)'
    <3>1. c \in Apps /\ Stopped(c)
      BY <2>2 DEF IInv, OldOnesStopped
    <3> QED
      BY <3>1, <1>3 DEF Stopped, DatabaseGrows
  <2> QED
    BY <2>1, <2>2 DEF IInv, OldOnesStopped
<1> QED
  BY <1>3, <1>4, <1>5, <1>6 DEF IInv

\* A commit that moves one application along one edge it remembers.
LEMMA MoveKeepsIInv ==
  ASSUME IInv, NEW r \in Handlers, Reply(r),
         NEW new \in ApplicationStatus, NEW by \in {"human", "system"},
         Remembers(r, seen[r].status), MayTransition(seen[r].status, new),
         new = "approved" => by = "human",
         Record(subject[r], new, <<Moved(seen[r].status, new, by)>>),
         UNCHANGED <<job, packet, older>>,
         materials' \in [Apps -> Seq([version : Nat, reviewed : BOOLEAN])],
         MaterialsAreGood',
         \A b \in Apps : Len(materials'[b]) = Len(materials[b])
  PROVE  IInv'
<1> DEFINE a == subject[r]
           from == seen[r].status
           moves == <<Moved(from, new, by)>>
<1>1. /\ a \in Apps /\ events[a] \in Seq(Event)
      /\ \E k \in 1..Len(events[a]) : events[a][k].to = from
      /\ from \in ApplicationStatus
  BY DEF IInv, TypeOK, Remembers, MayTransition, TRANSITIONS, ApplicationStatus
<1>2. /\ moves \in Seq(Event) /\ moves # <<>>
      /\ moves[Len(moves)].to = new /\ MayFollow(events[a], moves)
  BY <1>1, OneMove
<1>3. /\ job' \in [Apps -> Jobs \cup {None}] /\ packet' \in [Apps -> Nat]
      /\ older' \in [Apps -> SUBSET Apps]
  BY DEF IInv, TypeOK
<1> HIDE DEF moves
<1>4. Record(a, new, moves)
  BY DEF moves
<1> QED
  BY <1>1, <1>2, <1>3, <1>4, CommitKeepsIInv

\* POST /applications: a draft and its first move.
LEMMA CreateCommitsKeepsIInv ==
  ASSUME IInv, NEW r \in Handlers, NEW a \in Apps, CreateCommits(r, a)
  PROVE  IInv'
<1> DEFINE moves == <<Moved(None, "draft", "human"), Moved("draft", "matched", "system")>>
<1>1. events[a] = <<>>
  BY DEF IInv, LogsAreGood, CreateCommits, Exists
<1>2. /\ Moved(None, "draft", "human") \in Event
      /\ Moved("draft", "matched", "system") \in Event
  BY DEF Moved, Event, ApplicationStatus
<1>3. /\ moves \in Seq(Event) /\ moves # <<>> /\ Len(moves) = 2
      /\ moves[1] = Moved(None, "draft", "human")
      /\ moves[2] = Moved("draft", "matched", "system")
  BY <1>2
<1> HIDE DEF moves
<1>4. moves[Len(moves)].to = "matched"
  BY <1>3 DEF Moved
<1>5. MayFollow(events[a], moves)
  BY <1>1, <1>3 DEF MayFollow, Moved, TRANSITIONS
<1>6. Record(a, "matched", moves) /\ Reply(r) /\ UNCHANGED <<packet, materials>>
  BY DEF CreateCommits, moves
<1>7. subject[r] \in Jobs /\ \A b \in seen[r].found : Stopped(b)
  BY DEF IInv, SeenIsHistory, SeenOK, CreateCommits
<1>8. /\ job' \in [Apps -> Jobs \cup {None}]
      /\ older' \in [Apps -> SUBSET Apps]
      /\ \A b \in Apps : /\ b # a => job'[b] = job[b]
                         /\ older'[b] = older[b] \/ \A c \in older'[b] : Stopped(c)
  BY <1>7 DEF IInv, TypeOK, CreateCommits, Seen
<1>9. /\ packet' \in [Apps -> Nat]
      /\ materials' \in [Apps -> Seq([version : Nat, reviewed : BOOLEAN])]
      /\ MaterialsAreGood'
  BY <1>6 DEF IInv, TypeOK, MaterialsAreGood
<1>10. "matched" \in ApplicationStatus
  BY DEF ApplicationStatus
<1> QED
  BY <1>3, <1>4, <1>5, <1>6, <1>8, <1>9, <1>10, CommitKeepsIInv

\* The three moves of a generated packet may follow a log that was matched.
LEMMA MaterialsMovesFollow ==
  ASSUME NEW log \in Seq(Event), \E k \in 1..Len(log) : log[k].to = "matched"
  PROVE  LET moves == MaterialsGenerated("matched")
         IN  /\ moves \in Seq(Event) /\ moves # <<>>
             /\ moves[Len(moves)].to = "human_review"
             /\ MayFollow(log, moves)
<1> DEFINE moves == MaterialsGenerated("matched")
<1>1. /\ Moved("matched", "packet_draft", "system") \in Event
      /\ Moved("packet_draft", "packet_ready", "system") \in Event
      /\ Moved("packet_ready", "human_review", "system") \in Event
  BY DEF Moved, Event, ApplicationStatus
<1>2. /\ moves \in Seq(Event) /\ moves # <<>> /\ Len(moves) = 3
      /\ moves[1] = Moved("matched", "packet_draft", "system")
      /\ moves[2] = Moved("packet_draft", "packet_ready", "system")
      /\ moves[3] = Moved("packet_ready", "human_review", "system")
  BY <1>1 DEF MaterialsGenerated
<1> HIDE DEF moves
<1>3. moves[Len(moves)].to = "human_review"
  BY <1>2 DEF Moved
<1>4. ASSUME NEW i \in 1..Len(moves) PROVE i = 1 \/ i = 2 \/ i = 3
  BY <1>2
<1>5. MayFollow(log, moves)
  BY <1>2, <1>4 DEF MayFollow, Moved, TRANSITIONS
<1> QED
  BY <1>2, <1>3, <1>5 DEF moves

\* One more resume keeps the series contiguous, when the constraint admits it.
LEMMA NextResumeIsContiguous ==
  ASSUME NEW rows \in Seq([version : Nat, reviewed : BOOLEAN]),
         \A i \in 1..Len(rows) : rows[i].version = i,
         NEW previous \in Nat, previous <= Len(rows),
         ~UniqueViolation(rows, NextResume(previous))
  PROVE  LET more == Append(rows, NewMaterial(NextResume(previous)))
         IN  /\ more \in Seq([version : Nat, reviewed : BOOLEAN])
             /\ Len(more) = Len(rows) + 1
             /\ GoodMaterials(more, PacketFingerprint(NextResume(previous)))
<1> DEFINE version == NextResume(previous)
           material == NewMaterial(version)
           more == Append(rows, material)
<1>1. /\ Len(rows) \in Nat /\ DOMAIN rows = 1..Len(rows)
      /\ version \in Nat /\ version = previous + 1
  BY LenProperties DEF NextResume
<1> HIDE DEF version
<1>2. version = Len(rows) + 1
  BY <1>1 DEF UniqueViolation, version
<1>3. material \in [version : Nat, reviewed : BOOLEAN] /\ material.version = version
  BY <1>1 DEF NewMaterial
<1> HIDE DEF material
<1>4. /\ more \in Seq([version : Nat, reviewed : BOOLEAN])
      /\ Len(more) = Len(rows) + 1
      /\ \A i \in 1..Len(rows) : more[i] = rows[i]
      /\ more[Len(rows) + 1] = material
  BY <1>3, AppendProperties
<1> HIDE DEF more
<1>5. \A i \in 1..Len(more) : more[i].version = i
  BY <1>1, <1>2, <1>3, <1>4
<1>6. GoodMaterials(more, PacketFingerprint(version))
  BY <1>2, <1>4, <1>5 DEF GoodMaterials, PacketFingerprint
<1> QED
  BY <1>4, <1>6 DEF more, material, version

LEMMA GenerateCommitsKeepsIInv ==
  ASSUME IInv, NEW r \in Handlers, GenerateCommits(r)
  PROVE  IInv'
<1> DEFINE a == subject[r]
           previous == seen[r].resume
           version == NextResume(previous)
           more == Append(materials[a], NewMaterial(version))
           moves == MaterialsGenerated("matched")
<1>1. Reply(r)
  BY DEF GenerateCommits
<1>2. CASE UniqueViolation(materials[a], version)
  BY <1>1, <1>2, ReplyKeepsIInv DEF GenerateCommits
<1>3. CASE ~UniqueViolation(materials[a], version)
  <2>1. /\ a \in Apps /\ seen[r].status = "matched"
        /\ \E k \in 1..Len(events[a]) : events[a][k].to = "matched"
        /\ previous <= Len(materials[a])
    BY DEF IInv, SeenIsHistory, SeenOK, Remembers, GenerateCommits
  <2>2. /\ events[a] \in Seq(Event) /\ previous \in Nat
        /\ materials[a] \in Seq([version : Nat, reviewed : BOOLEAN])
        /\ \A i \in 1..Len(materials[a]) : materials[a][i].version = i
    BY <2>1 DEF IInv, TypeOK, Seen, MaterialsAreGood, GoodMaterials
  <2>3. /\ moves \in Seq(Event) /\ moves # <<>>
        /\ moves[Len(moves)].to = "human_review" /\ MayFollow(events[a], moves)
    BY <2>1, <2>2, MaterialsMovesFollow
  <2>4. /\ more \in Seq([version : Nat, reviewed : BOOLEAN])
        /\ Len(more) = Len(materials[a]) + 1
        /\ GoodMaterials(more, PacketFingerprint(version))
    BY <1>3, <2>1, <2>2, NextResumeIsContiguous
  <2>5. /\ materials' = [materials EXCEPT ![a] = more]
        /\ packet' = [packet EXCEPT ![a] = PacketFingerprint(version)]
        /\ Record(a, "human_review", moves)
        /\ job' = job /\ older' = older
    BY <1>3, <2>1 DEF GenerateCommits
  <2>6. version \in Nat
    BY <2>2 DEF NextResume
  <2> HIDE DEF moves, more, version
  <2>7. /\ job' \in [Apps -> Jobs \cup {None}]
        /\ older' \in [Apps -> SUBSET Apps]
        /\ packet' \in [Apps -> Nat]
        /\ materials' \in [Apps -> Seq([version : Nat, reviewed : BOOLEAN])]
    BY <2>4, <2>5, <2>6 DEF IInv, TypeOK, PacketFingerprint
  <2>8. MaterialsAreGood'
    BY <2>1, <2>4, <2>5 DEF IInv, TypeOK, MaterialsAreGood
  <2>9. \A b \in Apps : \A n \in Nat : n <= Len(materials[b]) => n <= Len(materials'[b])
    <3> SUFFICES ASSUME NEW b \in Apps, NEW n \in Nat, n <= Len(materials[b])
                 PROVE  n <= Len(materials'[b])
      OBVIOUS
    <3>1. Len(materials[b]) \in Nat
      BY LenProperties DEF IInv, TypeOK
    <3>2. materials'[b] = IF b = a THEN more ELSE materials[b]
      BY <2>5 DEF IInv, TypeOK
    <3> QED
      BY <3>1, <3>2, <2>4
  <2>10. "human_review" \in ApplicationStatus
    BY DEF ApplicationStatus
  <2> QED
    BY <1>1, <2>1, <2>3, <2>5, <2>7, <2>8, <2>9, <2>10, CommitKeepsIInv
<1> QED
  BY <1>2, <1>3

LEMMA MarkingKeepsSeries ==
  ASSUME NEW rows \in Seq([version : Nat, reviewed : BOOLEAN]), NEW read
  PROVE  LET marked == MarkReviewed(rows, read)
         IN  /\ marked \in Seq([version : Nat, reviewed : BOOLEAN])
             /\ Len(marked) = Len(rows)
             /\ \A i \in 1..Len(rows) : marked[i].version = rows[i].version
<1> DEFINE marked == MarkReviewed(rows, read)
<1>1. Len(rows) \in Nat /\ DOMAIN rows = 1..Len(rows)
  BY LenProperties
<1>2. /\ marked \in [1..Len(rows) -> [version : Nat, reviewed : BOOLEAN]]
      /\ \A i \in 1..Len(rows) : marked[i].version = rows[i].version
  <2>1. marked = [i \in 1..Len(rows) |->
                    [rows[i] EXCEPT !.reviewed = rows[i].reviewed \/ i <= read]]
    BY <1>1, Zenon DEF MarkReviewed
  <2>2. ASSUME NEW row \in [version : Nat, reviewed : BOOLEAN], NEW flag \in BOOLEAN
        PROVE  /\ [row EXCEPT !.reviewed = flag] \in [version : Nat, reviewed : BOOLEAN]
               /\ [row EXCEPT !.reviewed = flag].version = row.version
    BY <2>2
  <2>3. ASSUME NEW i \in 1..Len(rows)
        PROVE  /\ rows[i] \in [version : Nat, reviewed : BOOLEAN]
               /\ (rows[i].reviewed \/ i <= read) \in BOOLEAN
    BY <1>1, ElementOfSeq
  <2>4. ASSUME NEW i \in 1..Len(rows)
        PROVE  /\ [rows[i] EXCEPT !.reviewed = rows[i].reviewed \/ i <= read]
                    \in [version : Nat, reviewed : BOOLEAN]
               /\ [rows[i] EXCEPT !.reviewed = rows[i].reviewed \/ i <= read].version
                    = rows[i].version
    BY <2>2, <2>3, Zenon
  <2> HIDE DEF marked
  <2> QED
    BY <2>1, <2>4, Zenon
<1> HIDE DEF marked
<1>3. marked \in Seq([version : Nat, reviewed : BOOLEAN])
  BY <1>1, <1>2, SeqDef
<1>4. Len(marked) = Len(rows)
  BY <1>1, <1>2, <1>3, LenProperties
<1> QED
  BY <1>2, <1>3, <1>4 DEF marked

LEMMA ReviewCommitsKeepsIInv ==
  ASSUME IInv, NEW r \in Handlers, ReviewCommits(r)
  PROVE  IInv'
<1> DEFINE a == subject[r]
           marked == MarkReviewed(materials[a], seen[r].resume)
<1>1. a \in Apps /\ Remembers(r, "human_review") /\ seen[r].status = "human_review"
  BY DEF IInv, SeenIsHistory, SeenOK, Remembers, ReviewCommits
<1>2. materials \in [Apps -> Seq([version : Nat, reviewed : BOOLEAN])]
  BY DEF IInv, TypeOK
<1>3. /\ marked \in Seq([version : Nat, reviewed : BOOLEAN])
      /\ Len(marked) = Len(materials[a])
      /\ \A i \in 1..Len(materials[a]) : marked[i].version = materials[a][i].version
  BY <1>1, <1>2, MarkingKeepsSeries
<1>4. /\ Reply(r)
      /\ Record(a, "approved", <<Moved(seen[r].status, "approved", "human")>>)
      /\ UNCHANGED <<job, packet, older>>
      /\ materials' = [materials EXCEPT ![a] = marked]
  BY DEF ReviewCommits
<1> HIDE DEF marked
<1>5. \A b \in Apps : Len(materials'[b]) = Len(materials[b])
  BY <1>1, <1>2, <1>3, <1>4
<1>6. MaterialsAreGood'
  BY <1>1, <1>2, <1>3, <1>4 DEF IInv, MaterialsAreGood, GoodMaterials
<1>7. materials' \in [Apps -> Seq([version : Nat, reviewed : BOOLEAN])]
  BY <1>1, <1>2, <1>3, <1>4
<1>8. MayTransition(seen[r].status, "approved") /\ "approved" \in ApplicationStatus
  BY <1>1 DEF MayTransition, TRANSITIONS, INITIAL_MODE_BLOCKED, ApplicationStatus
<1> QED
  BY <1>1, <1>4, <1>5, <1>6, <1>7, <1>8, MoveKeepsIInv

LEMMA TransitionCommitsKeepsIInv ==
  ASSUME IInv, NEW r \in Handlers, TransitionCommits(r)
  PROVE  IInv'
<1>1. /\ Remembers(r, seen[r].status)
      /\ MayTransition(seen[r].status, seen[r].goal)
  BY DEF IInv, SeenIsHistory, SeenOK, TransitionCommits
<1>2. seen[r].goal \in ApplicationStatus
  BY <1>1 DEF MayTransition, TRANSITIONS, ApplicationStatus
<1>3. /\ Reply(r)
      /\ Record(subject[r], seen[r].goal, <<Moved(seen[r].status, seen[r].goal, "human")>>)
      /\ UNCHANGED <<job, packet, materials, older>>
  BY DEF TransitionCommits
<1>4. /\ materials' \in [Apps -> Seq([version : Nat, reviewed : BOOLEAN])]
      /\ MaterialsAreGood'
      /\ \A b \in Apps : Len(materials'[b]) = Len(materials[b])
  BY <1>3 DEF IInv, TypeOK, MaterialsAreGood
<1> QED
  BY <1>1, <1>2, <1>3, <1>4, MoveKeepsIInv

LEMMA StopCommitsKeepsIInv ==
  ASSUME IInv, NEW r \in Handlers, StopCommits(r)
  PROVE  IInv'
<1>1. Remembers(r, "approved") /\ seen[r].status = "approved"
  BY DEF IInv, SeenIsHistory, SeenOK, Remembers, StopCommits
<1>2. /\ MayTransition(seen[r].status, "stopped_before_submit")
      /\ "stopped_before_submit" \in ApplicationStatus
  BY <1>1 DEF MayTransition, TRANSITIONS, INITIAL_MODE_BLOCKED, ApplicationStatus
<1>3. /\ Reply(r)
      /\ Record(subject[r], "stopped_before_submit",
                <<Moved(seen[r].status, "stopped_before_submit", "system")>>)
      /\ UNCHANGED <<job, packet, materials, older>>
  BY DEF StopCommits
<1>4. /\ materials' \in [Apps -> Seq([version : Nat, reviewed : BOOLEAN])]
      /\ MaterialsAreGood'
      /\ \A b \in Apps : Len(materials'[b]) = Len(materials[b])
  BY <1>3 DEF IInv, TypeOK, MaterialsAreGood
<1> QED
  BY <1>1, <1>2, <1>3, <1>4, MoveKeepsIInv

-----------------------------------------------------------------------------
(* The invariant and what follows from it                                  *)

LEMMA InitEstablishesIInv ==
  ASSUME Init
  PROVE  IInv
<1>1. NothingSeen \in Seen
  BY DEF NothingSeen, SeenStatus, Seen
<1>2. TypeOK
  BY <1>1 DEF Init, TypeOK
<1> DEFINE empty == <<>>
<1>3. Len(empty) = 0 /\ 1..Len(empty) = {}
  OBVIOUS
<1>4. \A a \in Apps : events[a] = empty /\ materials[a] = empty /\ status[a] = None
                      /\ packet[a] = 0
  BY DEF Init
<1> HIDE DEF empty
<1>5. LogsAreGood
  <2>1. GoodLog(empty)
    BY <1>3 DEF GoodLog
  <2> QED
    BY <1>4, <2>1 DEF LogsAreGood, empty
<1>6. MaterialsAreGood
  <2>1. GoodMaterials(empty, 0)
    BY <1>3 DEF GoodMaterials
  <2> QED
    BY <1>4, <2>1 DEF MaterialsAreGood
<1>7. SeenIsHistory
  BY DEF Init, SeenIsHistory, SeenOK
<1>8. OldOnesStopped
  BY DEF Init, OldOnesStopped
<1> QED
  BY <1>2, <1>5, <1>6, <1>7, <1>8 DEF IInv

LEMMA NextKeepsIInv ==
  ASSUME IInv, [Next]_vars
  PROVE  IInv'
<1>1. CASE UNCHANGED vars
  <2>1. UNCHANGED database /\ UNCHANGED requests
    BY <1>1 DEF vars
  <2>2. TypeOK'
    BY <2>1 DEF IInv, TypeOK, database, requests
  <2>3. LogsAreGood' /\ MaterialsAreGood' /\ OldOnesStopped'
    BY <2>1 DEF IInv, LogsAreGood, MaterialsAreGood, OldOnesStopped, Stopped, database
  <2>4. SeenIsHistory'
    BY <2>1 DEF IInv, SeenIsHistory, SeenOK, Remembers, Stopped, database, requests
  <2> QED
    BY <2>2, <2>3, <2>4 DEF IInv
<1>2. CASE Next
  <2> SUFFICES ASSUME NEW r \in Handlers, Reads(r) \/ Commits(r) PROVE IInv'
    BY <1>2 DEF Next
  <2>1. CASE \E j \in Jobs : CreateReads(r, j)
    BY <2>1, CreateReadsKeepsIInv
  <2>2. CASE \E a \in Apps : GenerateReads(r, a)
    BY <2>2, GenerateReadsKeepsIInv
  <2>3. CASE GenerateReadsPrevious(r)
    BY <2>3, GenerateReadsPreviousKeepsIInv
  <2>4. CASE \E a \in Apps : ReviewReads(r, a)
    BY <2>4, ReviewReadsKeepsIInv
  <2>5. CASE ReviewReadsMaterials(r)
    BY <2>5, ReviewReadsMaterialsKeepsIInv
  <2>6. CASE \E a \in Apps, goal \in ApplicationStatus : TransitionReads(r, a, goal)
    BY <2>6, TransitionReadsKeepsIInv
  <2>7. CASE \E a \in Apps : StopReads(r, a)
    BY <2>7, StopReadsKeepsIInv
  <2>8. CASE RollBack(r)
    BY <2>8, ReplyKeepsIInv DEF RollBack
  <2>9. CASE \E a \in Apps : CreateCommits(r, a)
    BY <2>9, CreateCommitsKeepsIInv
  <2>10. CASE GenerateCommits(r)
    BY <2>10, GenerateCommitsKeepsIInv
  <2>11. CASE ReviewCommits(r)
    BY <2>11, ReviewCommitsKeepsIInv
  <2>12. CASE TransitionCommits(r)
    BY <2>12, TransitionCommitsKeepsIInv
  <2>13. CASE StopCommits(r)
    BY <2>13, StopCommitsKeepsIInv
  <2> QED
    BY <2>1, <2>2, <2>3, <2>4, <2>5, <2>6, <2>7, <2>8, <2>9, <2>10, <2>11,
       <2>12, <2>13 DEF Reads, Commits
<1> QED
  BY <1>1, <1>2

\* The strengthening is an invariant of the specification.
THEOREM IInvHolds == Spec => []IInv
  BY InitEstablishesIInv, NextKeepsIInv, PTL DEF Spec

\* Every variable keeps the type of the column or local it stands for.
THEOREM TypeCorrect == Spec => []TypeOK
<1>1. IInv => TypeOK
  BY DEF IInv
<1> QED
  BY <1>1, IInvHolds, PTL

\* No interleaving of the handlers submits an application or records that
\* it was: the gate of state_machine/application.py has no way round it.
THEOREM SubmissionIsBlocked == Spec => []NeverSubmitted
<1>1. IInv => NeverSubmitted
  <2> SUFFICES ASSUME IInv, NEW a \in Apps
               PROVE  /\ status[a] # "submitted"
                      /\ \A i \in DOMAIN events[a] : events[a][i].to # "submitted"
    BY DEF NeverSubmitted
  <2>1. events[a] \in Seq(Event)
    BY DEF IInv, TypeOK
  <2>2. DOMAIN events[a] = 1..Len(events[a])
    BY <2>1, LenProperties
  <2>3. \A i \in 1..Len(events[a]) : events[a][i].to # "submitted"
    BY DEF IInv, LogsAreGood, GoodLog, GoodMove
  <2>4. CASE status[a] = None
    BY <2>2, <2>3, <2>4, ConstantsAssumption DEF ApplicationStatus
  <2>5. CASE status[a] # None
    BY <2>2, <2>3, <2>5, StatusWasReached DEF Exists
  <2> QED
    BY <2>4, <2>5
<1> QED
  BY <1>1, IInvHolds, PTL

\* Every audit record leaves a status its application had really reached,
\* along an edge of the state machine, however stale its handler was.
THEOREM AuditIsGrounded == Spec => []MovesAreGrounded
<1>1. IInv => MovesAreGrounded
  <2> SUFFICES ASSUME IInv, NEW a \in Apps, NEW i \in DOMAIN events[a]
               PROVE  Grounded(events[a], i)
    BY DEF MovesAreGrounded
  <2>1. i \in 1..Len(events[a])
    BY LenProperties DEF IInv, TypeOK
  <2> QED
    BY <2>1 DEF IInv, LogsAreGood, GoodLog, GoodMove
<1> QED
  BY <1>1, IInvHolds, PTL

\* No application stops before submit unless a human approved it earlier:
\* the only edge into that status leaves "approved".
THEOREM StopNeedsApproval == Spec => []StopFollowsApproval
<1>1. IInv => StopFollowsApproval
  <2> SUFFICES ASSUME IInv, NEW a \in Apps, NEW i \in DOMAIN events[a],
                      events[a][i].to = "stopped_before_submit"
               PROVE  \E k \in 1..(i - 1) : ApprovedByHuman(events[a], k)
    BY DEF StopFollowsApproval
  <2>1. i \in 1..Len(events[a]) /\ Len(events[a]) \in Nat
    BY LenProperties DEF IInv, TypeOK
  <2>2. \A k \in 1..Len(events[a]) : GoodMove(events[a], k)
    BY DEF IInv, LogsAreGood, GoodLog
  <2>3. Grounded(events[a], i)
    BY <2>1, <2>2 DEF GoodMove
  <2>4. PICK k \in 1..(i - 1) : events[a][k].to = events[a][i].from
    BY <2>3 DEF Grounded
  <2>5. events[a][i].from = "approved"
    BY <2>3 DEF Grounded, TRANSITIONS
  <2>6. k \in 1..Len(events[a])
    BY <2>1
  <2> QED
    BY <2>2, <2>4, <2>5, <2>6 DEF GoodMove, ApprovedByHuman
<1> QED
  BY <1>1, IInvHolds, PTL

\* Concurrent generations never skip or repeat a resume version: a version
\* computed from a stale SELECT is refused by the unique constraint.
THEOREM ResumesAreContiguous == Spec => []ResumeVersionsContiguous
<1>1. IInv => ResumeVersionsContiguous
  <2> SUFFICES ASSUME IInv, NEW a \in Apps, NEW i \in DOMAIN materials[a]
               PROVE  materials[a][i].version = i
    BY DEF ResumeVersionsContiguous
  <2>1. i \in 1..Len(materials[a])
    BY LenProperties DEF IInv, TypeOK
  <2> QED
    BY <2>1 DEF IInv, MaterialsAreGood, GoodMaterials
<1> QED
  BY <1>1, IInvHolds, PTL

\* The packet fingerprint always names the newest resume.
THEOREM PacketIsCurrent == Spec => []PacketNamesLatestResume
<1>1. IInv => PacketNamesLatestResume
  <2> SUFFICES ASSUME IInv, NEW a \in Apps
               PROVE  packet[a] = LatestResume(materials[a])
    BY DEF PacketNamesLatestResume
  <2>1. materials[a] \in Seq([version : Nat, reviewed : BOOLEAN])
    BY DEF IInv, TypeOK
  <2>2. /\ packet[a] = Len(materials[a])
        /\ \A i \in 1..Len(materials[a]) : materials[a][i].version = i
    BY DEF IInv, MaterialsAreGood, GoodMaterials
  <2> QED
    BY <2>1, <2>2, LatestIsLength
<1> QED
  BY <1>1, IInvHolds, PTL

-----------------------------------------------------------------------------
(* How a commit continues a log, and the applications for one job          *)

\* A commit of one move starts in the status its request remembers.
LEMMA FirstMove ==
  ASSUME NEW from \in ApplicationStatus, NEW to \in ApplicationStatus,
         NEW by \in {"human", "system"}
  PROVE  LET moves == <<Moved(from, to, by)>>
         IN  moves \in Seq(Event) /\ moves # <<>> /\ moves[1].from = from
BY DEF Moved, Event

\* So does the commit of a generated packet.
LEMMA FirstMoveOfMaterials ==
  LET moves == MaterialsGenerated("matched")
  IN  moves \in Seq(Event) /\ moves # <<>> /\ moves[1].from = "matched"
BY DEF MaterialsGenerated, Moved, Event, ApplicationStatus

\* A transaction that started after every earlier record of an application
\* was committed continues its log: what such a request remembers is still
\* the status when it commits, and the status is where the log ends.
THEOREM LogContinues == Spec => RecordsContinue
<1> DEFINE Continues(r, a) ==
             Wrote(r, a) /\ seen[r].began = Len(events[a]) =>
               events'[a][Len(events[a]) + 1].from = events[a][Len(events[a])].to
<1>1. ASSUME IInv, Next, NEW r \in Handlers, NEW a \in Apps PROVE Continues(r, a)
  <2> SUFFICES ASSUME Wrote(r, a), seen[r].began = Len(events[a])
               PROVE  events'[a][Len(events[a]) + 1].from = events[a][Len(events[a])].to
    OBVIOUS
  <2> DEFINE from == seen[r].status
  <2>1. RequestsTyped /\ events[a] \in Seq(Event) /\ Len(events[a]) \in Nat
    <3>1. RequestsTyped /\ events[a] \in Seq(Event)
      BY <1>1, TypeOKParts DEF IInv
    <3> QED
      BY <3>1, LenProperties
  <2>2. PICK q \in Handlers : Reads(q) \/ Commits(q)
    BY <1>1 DEF Next
  <2>3. ~Reads(q)
    <3>1. \A j \in Jobs : CreateReads(q, j) => UNCHANGED database
      BY DEF CreateReads, Serve
    <3>2. \A b \in Apps : GenerateReads(q, b) \/ ReviewReads(q, b) \/ StopReads(q, b)
                          => UNCHANGED database
      BY DEF GenerateReads, ReviewReads, StopReads, Serve
    <3>3. \A b \in Apps, goal \in ApplicationStatus :
            TransitionReads(q, b, goal) => UNCHANGED database
      BY DEF TransitionReads, Serve
    <3>4. GenerateReadsPrevious(q) \/ ReviewReadsMaterials(q) \/ RollBack(q)
            => UNCHANGED database
      BY DEF GenerateReadsPrevious, ReviewReadsMaterials, RollBack
    <3>5. Reads(q) => UNCHANGED database
      BY <3>1, <3>2, <3>3, <3>4 DEF Reads
    <3> QED
      BY <3>5 DEF Wrote, database
  <2>4. q = r
    <3>1. Commits(q) => Reply(q)
      BY DEF Commits, CreateCommits, GenerateCommits, ReviewCommits, TransitionCommits,
         StopCommits
    <3>2. q # r => pc'[r] = pc[r]
      BY <2>1, <2>2, <2>3, <3>1, ReplyForgets DEF OthersUntouched
    <3> QED
      BY <3>2 DEF Wrote
  <2>5. pc[r] # "create"
    BY ConstantsAssumption, <1>1 DEF Wrote, IInv, SeenIsHistory, SeenOK
  <2>6. PICK new, moves : /\ Record(a, new, moves)
                          /\ moves \in Seq(Event) /\ moves # <<>>
                          /\ moves[1].from = from
    <3>1. CASE GenerateCommits(r)
      <4>1. Record(a, "human_review", MaterialsGenerated(from))
        BY <3>1 DEF GenerateCommits, Wrote, database
      <4>2. from = "matched"
        BY <3>1, <1>1 DEF GenerateCommits, IInv, SeenIsHistory, SeenOK, Remembers
      <4> QED
        BY <4>1, <4>2, FirstMoveOfMaterials
    <3>2. CASE ReviewCommits(r)
      <4>1. Record(a, "approved", <<Moved(from, "approved", "human")>>)
        BY <3>2 DEF ReviewCommits, Wrote
      <4>2. from = "human_review"
        BY <3>2, <1>1 DEF ReviewCommits, IInv, SeenIsHistory, SeenOK, Remembers
      <4>3. from \in ApplicationStatus /\ "approved" \in ApplicationStatus
        BY <4>2 DEF ApplicationStatus
      <4> DEFINE moves == <<Moved(from, "approved", "human")>>
      <4>4. moves \in Seq(Event) /\ moves # <<>> /\ moves[1].from = from
        BY <4>3, FirstMove
      <4>5. Record(a, "approved", moves)
        BY <4>1
      <4> HIDE DEF moves
      <4> QED
        BY <4>4, <4>5, Zenon
    <3>3. CASE TransitionCommits(r)
      <4>1. Record(a, seen[r].goal, <<Moved(from, seen[r].goal, "human")>>)
        BY <3>3 DEF TransitionCommits, Wrote
      <4>2. MayTransition(from, seen[r].goal)
        BY <3>3, <1>1 DEF TransitionCommits, IInv, SeenIsHistory, SeenOK
      <4>3. from \in ApplicationStatus /\ seen[r].goal \in ApplicationStatus
        BY <4>2 DEF MayTransition, TRANSITIONS, ApplicationStatus
      <4> DEFINE moves == <<Moved(from, seen[r].goal, "human")>>
      <4>4. moves \in Seq(Event) /\ moves # <<>> /\ moves[1].from = from
        BY <4>3, FirstMove
      <4>5. Record(a, seen[r].goal, moves)
        BY <4>1
      <4> HIDE DEF moves
      <4> QED
        BY <4>4, <4>5, Zenon
    <3>4. CASE StopCommits(r)
      <4>1. Record(a, "stopped_before_submit",
                   <<Moved(from, "stopped_before_submit", "system")>>)
        BY <3>4 DEF StopCommits, Wrote
      <4>2. from = "approved"
        BY <3>4, <1>1 DEF StopCommits, IInv, SeenIsHistory, SeenOK, Remembers
      <4>3. from \in ApplicationStatus /\ "stopped_before_submit" \in ApplicationStatus
        BY <4>2 DEF ApplicationStatus
      <4> DEFINE moves == <<Moved(from, "stopped_before_submit", "system")>>
      <4>4. moves \in Seq(Event) /\ moves # <<>> /\ moves[1].from = from
        BY <4>3, FirstMove
      <4>5. Record(a, "stopped_before_submit", moves)
        BY <4>1
      <4> HIDE DEF moves
      <4> QED
        BY <4>4, <4>5, Zenon
    <3> QED
      BY <2>2, <2>3, <2>4, <2>5, <3>1, <3>2, <3>3, <3>4 DEF Commits, CreateCommits
  <2>7. events'[a][Len(events[a]) + 1] = moves[1]
    <3>1. events'[a] = events[a] \o moves
      BY <2>6, <1>1 DEF Record, IInv, TypeOK
    <3>2. Len(moves) \in Nat \ {0}
      BY <2>6, LenProperties, EmptySeq
    <3>3. (events[a] \o moves)[Len(events[a]) + 1] = moves[1]
      BY <2>1, <2>6, <3>2, ConcatProperties
    <3> QED
      BY <3>1, <3>3
  <2>8. Remembers(r, from)
    BY <2>2, <2>3, <2>4, <2>5, <1>1
       DEF Commits, CreateCommits, GenerateCommits, ReviewCommits, TransitionCommits,
           StopCommits, IInv, SeenIsHistory, SeenOK, Remembers
  <2>9. status[a] = from
    BY <2>8 DEF Remembers, Wrote
  <2>10. events[a][Len(events[a])].to = status[a]
    <3>1. \E k \in 1..Len(events[a]) : events[a][k].to = from
      BY <2>8 DEF Remembers, Wrote
    <3>2. events[a] # <<>>
      BY <3>1
    <3> QED
      BY <3>2, <1>1 DEF IInv, LogsAreGood
  <2> QED
    BY <2>6, <2>7, <2>9, <2>10
<1>2. ASSUME IInv, [Next]_vars
      PROVE  [\A r \in Handlers, a \in Apps : Continues(r, a)]_vars
  BY <1>1, <1>2
<1> QED
  BY <1>2, IInvHolds, PTL DEF Spec, RecordsContinue

\* A request that finds an application in flight for its job starts no other:
\* two of them come from creations that overlap or from one that had stopped.
THEOREM OneApplicationIsActive == Spec => []OneActiveApplication
<1>1. IInv => OneActiveApplication
  <2> SUFFICES ASSUME IInv, NEW a \in Apps, NEW b \in Apps, ~CreatedApart(a, b)
               PROVE  WasStopped(a) \/ WasStopped(b)
    BY DEF OneActiveApplication
  <2>1. Stopped(a) \/ Stopped(b)
    BY DEF CreatedApart, IInv, OldOnesStopped
  <2>2. \A c \in Apps : DOMAIN events[c] = 1..Len(events[c])
    BY LenProperties DEF IInv, TypeOK
  <2> QED
    BY <2>1, <2>2 DEF Stopped, WasStopped
<1> QED
  BY <1>1, IInvHolds, PTL

=============================================================================
