--------------------------- MODULE VersionedAppend ---------------------------
(***************************************************************************)
(* How the API appends a version to one series of rows: the versions of a  *)
(* profile, the preferences of a candidate, the answers to one question.   *)
(* A request reads the largest version, inserts the next one inside a      *)
(* savepoint and, when the unique constraint refuses it, tries again.      *)
(***************************************************************************)
EXTENDS Naturals, Sequences

CONSTANTS
  Handlers,  \* the requests the API can serve at the same time
  Attempts   \* how often one request tries: range(3)

ASSUME AttemptsAssumption == Attempts \in Nat \ {0}

VARIABLES
  series,  \* which of the three kinds of rows the series consists of
  rows,    \* the versions of the committed rows, in commit order
  pc,      \* where each request is
  latest,  \* the largest version the request has read, 0 for none
  tries,   \* how many inserts of the request were refused
  others   \* how many versions other requests committed since it began

vars == <<series, rows, pc, latest, tries, others>>

Kinds == {"profile", "preference", "answer"}

\* func.max(version), or 0
Latest(committed) ==
  IF committed = <<>> THEN 0
  ELSE CHOOSE v \in {committed[i] : i \in DOMAIN committed} :
         \A i \in DOMAIN committed : committed[i] <= v

-----------------------------------------------------------------------------

Goto(h, where) == pc' = [pc EXCEPT ![h] = where]

\* The request is answered: nothing of it is left behind.
Reply(h) ==
  /\ Goto(h, "idle")
  /\ latest' = [latest EXCEPT ![h] = 0]
  /\ tries' = [tries EXCEPT ![h] = 0]

\* POST /profiles: version 1 of a new id, which no request has seen yet.
CreateProfile(h) ==
  /\ series = "profile" /\ rows = <<>>
  /\ \A g \in Handlers : pc[g] = "idle"
  /\ Goto(h, "inserted")
  /\ UNCHANGED <<series, rows, latest, tries, others>>

\* PUT /profiles/{id} of an id without versions is refused.
Request(h) ==
  /\ series = "profile" => rows # <<>>
  /\ pc[h] = "idle"
  /\ Goto(h, "read")
  /\ UNCHANGED <<series, rows, latest, tries, others>>

ReadsLatest(h) ==
  /\ pc[h] = "read"
  /\ latest' = [latest EXCEPT ![h] = Latest(rows)]
  /\ Goto(h, "insert")
  /\ UNCHANGED <<series, rows, tries, others>>

\* The unique index makes an INSERT wait for the transaction that has
\* inserted the same version and not yet ended.
Waits(h) == \E g \in Handlers : pc[g] = "inserted" /\ latest[g] = latest[h]

\* Mutant: the table loses its constraint.
NoConstraint(committed, version) == FALSE

\* uq_profile_id_version, uq_preference_version, uq_answer_version
UniqueViolation(committed, version) ==
  \E i \in DOMAIN committed : committed[i] = version

Inserts(h) ==
  /\ pc[h] = "insert"
  /\ ~Waits(h)
  /\ ~UniqueViolation(rows, latest[h] + 1)
  /\ Goto(h, "inserted")
  /\ UNCHANGED <<series, rows, latest, tries, others>>

\* Mutant: the retry inserts the version it already failed with.
RetriesBlindly(refused) == IF refused < Attempts THEN "insert" ELSE "refused"

\* Mutant: one round too many.
OneMoreRound(refused) == IF refused <= Attempts THEN "read" ELSE "refused"

\* The next round of the loop starts with a fresh SELECT; after the last one
\* the request is answered with 409.
NextRound(refused) == IF refused < Attempts THEN "read" ELSE "refused"

IsRefused(h) ==
  /\ pc[h] = "insert"
  /\ ~Waits(h)
  /\ UniqueViolation(rows, latest[h] + 1)
  /\ tries' = [tries EXCEPT ![h] = @ + 1]
  /\ Goto(h, NextRound(tries[h] + 1))
  /\ UNCHANGED <<series, rows, latest, others>>

Commits(h) ==
  /\ pc[h] = "inserted"
  /\ rows' = Append(rows, latest[h] + 1)
  /\ others' = [g \in Handlers |-> IF g = h \/ pc[g] = "idle" THEN 0 ELSE others[g] + 1]
  /\ Reply(h)
  /\ UNCHANGED series

\* The 409, any other exception, or a killed server before the COMMIT.
RollsBack(h) ==
  /\ pc[h] # "idle"
  /\ others' = [others EXCEPT ![h] = 0]
  /\ Reply(h)
  /\ UNCHANGED <<series, rows>>

Init ==
  /\ series \in Kinds
  /\ rows = <<>>
  /\ pc = [h \in Handlers |-> "idle"]
  /\ latest = [h \in Handlers |-> 0]
  /\ tries = [h \in Handlers |-> 0]
  /\ others = [h \in Handlers |-> 0]

Serves(h) ==
  \/ CreateProfile(h)
  \/ Request(h)
  \/ ReadsLatest(h)
  \/ Inserts(h)
  \/ IsRefused(h)
  \/ Commits(h)
  \/ RollsBack(h)

Next == \E h \in Handlers : Serves(h)

Spec == Init /\ [][Next]_vars

-----------------------------------------------------------------------------

TypeOK ==
  /\ series \in Kinds
  /\ rows \in Seq(Nat)
  /\ pc \in [Handlers -> {"idle", "read", "insert", "inserted", "refused"}]
  /\ latest \in [Handlers -> Nat]
  /\ tries \in [Handlers -> 0..Attempts]
  /\ others \in [Handlers -> Nat]

\* A series is a log of versions that grows by one at its end, although
\* every request computes its version from an earlier SELECT.
Log == INSTANCE AppendOnlyLog WITH log <- rows
IsALog == Log!Spec

\* A refusal costs a commit: a request that has been refused n times was
\* overtaken by n others, so 409 means Attempts successes of other requests.
RefusalsArePaid == \A h \in Handlers : tries[h] <= others[h]

=============================================================================
