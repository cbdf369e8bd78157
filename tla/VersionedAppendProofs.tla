------------------------ MODULE VersionedAppendProofs ------------------------
(***************************************************************************)
(* Proofs about VersionedAppend for any number of requests and attempts:   *)
(* the optimistic loop implements an atomic append, and a request is       *)
(* refused only as often as others overtook it.                            *)
(***************************************************************************)
EXTENDS VersionedAppend, TLAPS

Numbered == \A i \in 1..Len(rows) : rows[i] = i

\* What has been read is at most the end of the series, and is the end of it
\* while a row with the next version is inserted and not yet committed.
ReadsAreBounded ==
  \A h \in Handlers :
    /\ latest[h] <= Len(rows)
    /\ pc[h] = "inserted" => latest[h] = Len(rows)

OneInserter ==
  \A g, h \in Handlers : pc[g] = "inserted" /\ pc[h] = "inserted" => g = h

\* The versions that have appeared since the last SELECT of a request are
\* commits of others that it has not paid for yet.
Balance ==
  \A h \in Handlers :
    /\ tries[h] <= others[h]
    /\ pc[h] = "insert" => Len(rows) + tries[h] <= latest[h] + others[h]

\* A request starts with all of its attempts and ends when it has none left.
RoundsAreCounted ==
  \A h \in Handlers :
    /\ pc[h] = "idle" => tries[h] = 0
    /\ pc[h] # "refused" => tries[h] < Attempts

IInv ==
  /\ TypeOK
  /\ Numbered
  /\ ReadsAreBounded
  /\ OneInserter
  /\ Balance
  /\ RoundsAreCounted

-----------------------------------------------------------------------------

LEMMA LatestIsLength ==
  ASSUME rows \in Seq(Nat), Numbered
  PROVE  Latest(rows) = Len(rows)
<1>1. CASE rows = <<>>
  BY <1>1 DEF Latest
<1>2. CASE rows # <<>>
  <2>1. Len(rows) \in Nat \ {0} /\ DOMAIN rows = 1..Len(rows)
    BY <1>2
  <2> DEFINE versions == {rows[i] : i \in DOMAIN rows}
             IsLatest(v) == \A i \in DOMAIN rows : rows[i] <= v
  <2>2. Len(rows) \in versions /\ IsLatest(Len(rows))
    BY <2>1 DEF Numbered
  <2>3. \A v \in versions : IsLatest(v) => v = Len(rows)
    BY <2>1 DEF Numbered
  <2>4. Latest(rows) = CHOOSE v \in versions : IsLatest(v)
    BY <1>2 DEF Latest
  <2> HIDE DEF versions, IsLatest
  <2>5. (CHOOSE v \in versions : IsLatest(v)) \in versions
        /\ IsLatest(CHOOSE v \in versions : IsLatest(v))
    BY <2>2
  <2> QED
    BY <2>3, <2>4, <2>5
<1> QED
  BY <1>1, <1>2

\* The constraint refuses exactly the versions that are not new.
LEMMA ViolationIsOld ==
  ASSUME rows \in Seq(Nat), Numbered, NEW v \in Nat
  PROVE  UniqueViolation(rows, v + 1) <=> v < Len(rows)
<1>1. Len(rows) \in Nat /\ DOMAIN rows = 1..Len(rows)
  OBVIOUS
<1>2. v < Len(rows) => v + 1 \in DOMAIN rows /\ rows[v + 1] = v + 1
  BY <1>1 DEF Numbered
<1> QED
  BY <1>1, <1>2 DEF UniqueViolation, Numbered

LEMMA InitIsCounted == Init => IInv
<1> SUFFICES ASSUME Init PROVE IInv
  OBVIOUS
<1> USE DEF Init
<1>1. rows \in Seq(Nat) /\ Len(rows) = 0
  OBVIOUS
<1>2. TypeOK
  BY <1>1, AttemptsAssumption DEF TypeOK
<1>3. Numbered /\ ReadsAreBounded /\ OneInserter /\ Balance /\ RoundsAreCounted
  BY <1>1, AttemptsAssumption DEF Numbered, ReadsAreBounded, OneInserter, Balance,
     RoundsAreCounted
<1> QED
  BY <1>2, <1>3 DEF IInv

\* What the invariant says of one request.
LEMMA RequestFacts ==
  ASSUME IInv, NEW h \in Handlers
  PROVE  /\ latest[h] \in Nat /\ tries[h] \in 0..Attempts /\ others[h] \in Nat
         /\ Len(rows) \in Nat /\ latest[h] <= Len(rows)
         /\ tries[h] \in Nat /\ Attempts \in Nat
BY AttemptsAssumption DEF IInv, TypeOK, ReadsAreBounded

\* A commit appends the next version, whatever the request read and when.
LEMMA CommitAppends ==
  ASSUME IInv, NEW h \in Handlers, Commits(h)
  PROVE  rows' = Append(rows, Len(rows) + 1)
BY DEF Commits, IInv, ReadsAreBounded

LEMMA CommitsKeepsIInv ==
  ASSUME IInv, NEW h \in Handlers, Commits(h)
  PROVE  IInv'
<1>1. /\ pc[h] = "inserted" /\ series' = series
      /\ pc' = [pc EXCEPT ![h] = "idle"]
      /\ latest' = [latest EXCEPT ![h] = 0]
      /\ tries' = [tries EXCEPT ![h] = 0]
      /\ others' = [g \in Handlers |-> IF g = h \/ pc[g] = "idle" THEN 0 ELSE others[g] + 1]
  BY DEF Commits, Reply, Goto
<1>2. /\ rows' = Append(rows, Len(rows) + 1)
      /\ rows \in Seq(Nat) /\ Len(rows) \in Nat
  BY CommitAppends DEF IInv, TypeOK
<1>3. /\ rows' \in Seq(Nat) /\ Len(rows') = Len(rows) + 1
      /\ \A i \in 1..Len(rows) : rows'[i] = rows[i]
      /\ rows'[Len(rows) + 1] = Len(rows) + 1
  BY <1>2
<1>4. TypeOK'
  <2>1. 0 \in 0..Attempts
    BY AttemptsAssumption
  <2>2. others' \in [Handlers -> Nat]
    BY <1>1 DEF IInv, TypeOK
  <2> QED
    BY <1>1, <1>3, <2>1, <2>2 DEF IInv, TypeOK
<1>5. Numbered'
  BY <1>2, <1>3 DEF IInv, Numbered
<1>6. ReadsAreBounded' /\ OneInserter'
  BY <1>1, <1>2, <1>3 DEF IInv, TypeOK, ReadsAreBounded, OneInserter
<1>7. ASSUME NEW g \in Handlers
      PROVE  /\ tries'[g] <= others'[g]
             /\ pc'[g] = "insert" => Len(rows') + tries'[g] <= latest'[g] + others'[g]
             /\ pc'[g] = "idle" => tries'[g] = 0
             /\ pc'[g] # "refused" => tries'[g] < Attempts
  <2>1. CASE g = h
    <3>1. pc'[g] = "idle" /\ tries'[g] = 0 /\ others'[g] = 0
      BY <1>1, <2>1 DEF IInv, TypeOK
    <3> QED
      BY <3>1, AttemptsAssumption
  <2>2. CASE g # h
    <3>1. /\ pc'[g] = pc[g] /\ tries'[g] = tries[g] /\ latest'[g] = latest[g]
          /\ others'[g] = IF pc[g] = "idle" THEN 0 ELSE others[g] + 1
      BY <1>1, <2>2 DEF IInv, TypeOK
    <3>2. /\ tries[g] <= others[g]
          /\ pc[g] = "insert" => Len(rows) + tries[g] <= latest[g] + others[g]
          /\ pc[g] = "idle" => tries[g] = 0
          /\ pc[g] # "refused" => tries[g] < Attempts
      BY DEF IInv, Balance, RoundsAreCounted
    <3> QED
      BY <1>3, <3>1, <3>2, RequestFacts
  <2> QED
    BY <2>1, <2>2
<1> QED
  BY <1>4, <1>5, <1>6, <1>7 DEF IInv, Balance, RoundsAreCounted

\* A step of one request that commits nothing.
LEMMA OwnStep ==
  ASSUME IInv, NEW h \in Handlers,
         NEW where \in {"idle", "read", "insert", "inserted", "refused"},
         NEW read \in Nat, NEW refusals \in 0..Attempts, NEW overtaken \in Nat,
         UNCHANGED <<series, rows>>,
         pc' = [pc EXCEPT ![h] = where],
         latest' = [latest EXCEPT ![h] = read],
         tries' = [tries EXCEPT ![h] = refusals],
         others' = [others EXCEPT ![h] = overtaken],
         read <= Len(rows),
         where = "inserted" =>
           read = Len(rows) /\ \A g \in Handlers : pc[g] # "inserted",
         refusals <= overtaken,
         where = "insert" => Len(rows) + refusals <= read + overtaken,
         where = "idle" => refusals = 0,
         where # "refused" => refusals < Attempts
  PROVE  IInv'
<1>1. TypeOK'
  BY DEF IInv, TypeOK
<1>2. Numbered'
  BY DEF IInv, Numbered
<1>3. ReadsAreBounded'
  BY DEF IInv, TypeOK, ReadsAreBounded
<1>4. OneInserter'
  BY DEF IInv, TypeOK, OneInserter
<1>5. Balance'
  BY DEF IInv, TypeOK, Balance
<1>6. RoundsAreCounted'
  BY DEF IInv, TypeOK, RoundsAreCounted
<1> QED
  BY <1>1, <1>2, <1>3, <1>4, <1>5, <1>6 DEF IInv

\* The same when only the place of the request changes.
LEMMA GotoStep ==
  ASSUME IInv, NEW h \in Handlers,
         NEW where \in {"read", "inserted"},
         UNCHANGED <<series, rows, latest, tries, others>>,
         Goto(h, where),
         pc[h] # "refused",
         where = "inserted" =>
           latest[h] = Len(rows) /\ \A g \in Handlers : pc[g] # "inserted"
  PROVE  IInv'
<1>1. /\ latest' = [latest EXCEPT ![h] = latest[h]]
      /\ tries' = [tries EXCEPT ![h] = tries[h]]
      /\ others' = [others EXCEPT ![h] = others[h]]
  BY DEF IInv, TypeOK
<1>2. pc' = [pc EXCEPT ![h] = where]
  BY DEF Goto
<1>3. tries[h] <= others[h] /\ tries[h] < Attempts
  BY DEF IInv, Balance, RoundsAreCounted
<1> QED
  BY <1>1, <1>2, <1>3, RequestFacts, OwnStep

LEMMA NextKeepsIInv == IInv /\ [Next]_vars => IInv'
<1> SUFFICES ASSUME IInv, [Next]_vars PROVE IInv'
  OBVIOUS
<1>1. rows \in Seq(Nat) /\ Numbered
  BY DEF IInv, TypeOK
<1>2. ASSUME NEW h \in Handlers, CreateProfile(h) PROVE IInv'
  <2>1. latest[h] = Len(rows) /\ \A g \in Handlers : pc[g] # "inserted"
    <3>1. Len(rows) = 0
      BY <1>1, <1>2 DEF CreateProfile
    <3> QED
      BY <1>2, <3>1, RequestFacts DEF CreateProfile
  <2> QED
    BY <1>2, <2>1, GotoStep DEF CreateProfile
<1>3. ASSUME NEW h \in Handlers, Request(h) PROVE IInv'
  BY <1>3, GotoStep DEF Request
<1>4. ASSUME NEW h \in Handlers, ReadsLatest(h) PROVE IInv'
  <2>1. /\ latest' = [latest EXCEPT ![h] = Len(rows)]
        /\ pc' = [pc EXCEPT ![h] = "insert"]
        /\ UNCHANGED <<series, rows>>
    BY <1>1, <1>4, LatestIsLength DEF ReadsLatest, Goto
  <2>2. /\ tries' = [tries EXCEPT ![h] = tries[h]]
        /\ others' = [others EXCEPT ![h] = others[h]]
    BY <1>4 DEF ReadsLatest, IInv, TypeOK
  <2>3. tries[h] <= others[h] /\ tries[h] < Attempts
    BY <1>4 DEF ReadsLatest, IInv, Balance, RoundsAreCounted
  <2>4. /\ Len(rows) \in Nat /\ tries[h] \in 0..Attempts /\ others[h] \in Nat
        /\ Len(rows) <= Len(rows)
        /\ Len(rows) + tries[h] <= Len(rows) + others[h]
    BY <2>3, RequestFacts
  <2> QED
    BY <2>1, <2>2, <2>3, <2>4, OwnStep
<1>5. ASSUME NEW h \in Handlers, Inserts(h) PROVE IInv'
  <2>1. latest[h] = Len(rows)
    <3>1. latest[h] \in Nat /\ Len(rows) \in Nat /\ latest[h] <= Len(rows)
      BY RequestFacts
    <3>2. ~(latest[h] < Len(rows))
      BY <1>1, <1>5, <3>1, ViolationIsOld DEF Inserts
    <3> QED
      BY <3>1, <3>2
  <2>2. \A g \in Handlers : pc[g] # "inserted"
    BY <1>5, <2>1 DEF Inserts, Waits, IInv, ReadsAreBounded
  <2> QED
    BY <1>5, <2>1, <2>2, GotoStep DEF Inserts
<1>6. ASSUME NEW h \in Handlers, IsRefused(h) PROVE IInv'
  <2>1. latest[h] < Len(rows)
    BY <1>1, <1>6, ViolationIsOld, RequestFacts DEF IsRefused
  <2>2. /\ tries[h] < Attempts
        /\ Len(rows) + tries[h] <= latest[h] + others[h]
    BY <1>6 DEF IsRefused, IInv, Balance, RoundsAreCounted
  <2>3. /\ NextRound(tries[h] + 1) \in {"read", "refused"}
        /\ NextRound(tries[h] + 1) # "refused" => tries[h] + 1 < Attempts
    BY DEF NextRound
  <2>4. /\ pc' = [pc EXCEPT ![h] = NextRound(tries[h] + 1)]
        /\ tries' = [tries EXCEPT ![h] = tries[h] + 1]
        /\ latest' = [latest EXCEPT ![h] = latest[h]]
        /\ others' = [others EXCEPT ![h] = others[h]]
        /\ UNCHANGED <<series, rows>>
    BY <1>6 DEF IsRefused, Goto, IInv, TypeOK
  <2>5. tries[h] + 1 \in 0..Attempts /\ tries[h] + 1 <= others[h]
    BY <2>1, <2>2, RequestFacts
  <2> QED
    BY <2>3, <2>4, <2>5, RequestFacts, OwnStep
<1>7. ASSUME NEW h \in Handlers, Commits(h) PROVE IInv'
  BY <1>7, CommitsKeepsIInv
<1>8. ASSUME NEW h \in Handlers, RollsBack(h) PROVE IInv'
  <2>1. /\ pc' = [pc EXCEPT ![h] = "idle"]
        /\ latest' = [latest EXCEPT ![h] = 0]
        /\ tries' = [tries EXCEPT ![h] = 0]
        /\ others' = [others EXCEPT ![h] = 0]
        /\ UNCHANGED <<series, rows>>
    BY <1>8 DEF RollsBack, Reply, Goto
  <2>2. /\ 0 \in 0..Attempts /\ 0 \in Nat /\ 0 <= Len(rows) /\ 0 <= 0
        /\ 0 < Attempts
    BY <1>1, AttemptsAssumption
  <2> QED
    BY <2>1, <2>2, OwnStep
<1>9. CASE UNCHANGED vars
  BY <1>9 DEF vars, IInv, TypeOK, Numbered, ReadsAreBounded, OneInserter, Balance,
     RoundsAreCounted
<1> QED
  BY <1>2, <1>3, <1>4, <1>5, <1>6, <1>7, <1>8, <1>9 DEF Next, Serves

-----------------------------------------------------------------------------

\* The inductive invariant holds in every reachable state.
THEOREM VersionsAreCounted == Spec => []IInv
BY InitIsCounted, NextKeepsIInv, PTL DEF Spec

\* Every variable keeps its type.
THEOREM VersionsAreTyped == Spec => []TypeOK
<1>1. IInv => TypeOK
  BY DEF IInv
<1> QED
  BY <1>1, VersionsAreCounted, PTL

\* A 409 costs other requests as many commits as the loop has rounds.
THEOREM ConflictsAreReal == Spec => []RefusalsArePaid
<1>1. IInv => RefusalsArePaid
  BY DEF IInv, Balance, RefusalsArePaid
<1> QED
  BY <1>1, VersionsAreCounted, PTL

\* The loop with its stale reads implements the atomic append.
THEOREM ImplementsALog == Spec => IsALog
<1>1. Init => Log!Init
  BY DEF Init, Log!Init
<1>2. IInv /\ [Next]_vars => [Log!Next]_rows
  <2> SUFFICES ASSUME IInv, [Next]_vars PROVE rows' = rows \/ Log!Next
    OBVIOUS
  <2>1. ASSUME NEW h \in Handlers, Commits(h) PROVE Log!Next
    BY <2>1, CommitAppends DEF Log!Next
  <2>2. ASSUME NEW h \in Handlers, Serves(h), ~Commits(h) PROVE rows' = rows
    BY <2>2 DEF Serves, CreateProfile, Request, ReadsLatest, Inserts, IsRefused, RollsBack
  <2> QED
    BY <2>1, <2>2 DEF Next, vars
<1> QED
  BY <1>1, <1>2, VersionsAreCounted, PTL DEF Spec, IsALog, Log!Spec

=============================================================================
