------------------------ MODULE ApplicationLifecycle ------------------------
(***************************************************************************)
(* The life of a job application in the CareerPilot API: the status        *)
(* machine, the audit log, the generated materials and the HTTP handlers   *)
(* that change them.                                                       *)
(*                                                                         *)
(* Every handler runs in one READ COMMITTED transaction and locks no row,  *)
(* so what it reads may be stale when it commits.  A handler is therefore  *)
(* a short process: one step per SELECT whose answer it keeps, and one     *)
(* step for its COMMIT, which makes all of its writes visible at once or,  *)
(* when a unique constraint fails, none of them.                           *)
(***************************************************************************)
EXTENDS Naturals, Sequences

CONSTANTS
  Apps,      \* identifiers of application rows
  Jobs,      \* the (job, candidate profile) pairs one can apply with
  Handlers,  \* the requests the API can serve at the same time
  None       \* SQL NULL, and "no such row"

VARIABLES
  status,     \* applications.status, None when the row does not exist
  job,        \* applications.(job_id, candidate_profile_id)
  packet,     \* resume_version in applications.packet_fingerprint, 0 for NULL
  events,     \* application_events of each application, by their COMMITs
  materials,  \* application_materials: one record per (resume, cover letter)
  pc,         \* where each request is
  subject,    \* the job or application a request is about
  seen,       \* what the request has read so far
  older       \* history: the applications for its job that the request which
              \* created an application had found

(***************************************************************************)
(* The order of events[a] is history too.  The rows of application_events  *)
(* have no order but created_at, which is func.now(), the start of their   *)
(* transaction: the rows of one COMMIT share it, and it may be earlier     *)
(* than that of rows committed before.  The records an application had     *)
(* when a transaction started, seen[r].began, stand for that time.         *)
(***************************************************************************)
database == <<status, job, packet, events, materials, older>>
requests == <<pc, subject, seen>>
vars     == <<database, requests>>

-----------------------------------------------------------------------------
(* The state machine of state_machine/application.py.                      *)

ApplicationStatus ==
  { "draft", "matched", "packet_draft", "packet_ready", "human_review",
    "approved", "stopped_before_submit", "submitted" }

ASSUME ConstantsAssumption ==
  /\ None \notin ApplicationStatus
  /\ None \notin Apps \cup Jobs
  /\ Apps \cap Jobs = {}

TRANSITIONS ==
  { <<"draft", "matched">>, <<"matched", "packet_draft">>,
    <<"packet_draft", "packet_ready">>, <<"packet_ready", "human_review">>,
    <<"human_review", "approved">>, <<"approved", "stopped_before_submit">>,
    <<"approved", "submitted">> }

INITIAL_MODE_BLOCKED == {"submitted"}

\* Mutant: only the gate is checked, not the edge.
AnyTransition(current, target) ==
  target \in ApplicationStatus \ INITIAL_MODE_BLOCKED

\* transition() returns its target or raises; it depends on no mode.
MayTransition(current, target) ==
  /\ <<current, target>> \in TRANSITIONS
  /\ target \notin INITIAL_MODE_BLOCKED

\* Mutant: an approved application is no longer in flight.
UnapprovedStatuses ==
  ApplicationStatus \ {"approved", "stopped_before_submit", "submitted"}

ActiveStatuses == ApplicationStatus \ {"stopped_before_submit", "submitted"}

Event == [from : ApplicationStatus \cup {None}, to : ApplicationStatus,
          by : {"human", "system"}]

Moved(from, to, by) == [from |-> from, to |-> to, by |-> by]

-----------------------------------------------------------------------------
(* What a request remembers between its SELECTs and its COMMIT.            *)

Seen == [status : ApplicationStatus \cup {None}, goal : ApplicationStatus \cup {None},
         resume : Nat, began : Nat, found : SUBSET Apps]

\* The transaction started when the application had `began` records.
SeenStatus(s, goal, began) ==
  [status |-> s, goal |-> goal, resume |-> 0, began |-> began, found |-> {}]

NothingSeen == SeenStatus(None, None, 0)

SeenApplications(found) == [NothingSeen EXCEPT !.found = found]

\* A transaction starts before its first SELECT: at best when all the records
\* that it finds were there, or earlier, for which 0 stands.
TransactionStarts(a) == {0, Len(events[a])}

Continue(r, where, what, read) ==
  /\ pc' = [pc EXCEPT ![r] = where]
  /\ subject' = [subject EXCEPT ![r] = what]
  /\ seen' = [seen EXCEPT ![r] = read]

\* The handler returned or raised: nothing of the request is left behind.
Reply(r) == Continue(r, "idle", None, NothingSeen)

\* Accept a request about `what` and, unless a check refuses it, keep `read`.
Serve(r, allowed, where, what, read) ==
  /\ pc[r] = "idle"
  /\ IF allowed THEN Continue(r, where, what, read) ELSE Reply(r)
  /\ UNCHANGED database

\* The row update and the audit records of one COMMIT.
Record(a, new, moves) ==
  /\ status' = [status EXCEPT ![a] = new]
  /\ events' = [events EXCEPT ![a] = @ \o moves]

Exists(a) == status[a] # None

-----------------------------------------------------------------------------
(* POST /applications                                                      *)

CreateReads(r, j) ==
  LET found == {a \in Apps : job[a] = j}
  IN  Serve(r, \A a \in found : status[a] \notin ActiveStatuses,
            "create", j, SeenApplications(found))

\* A new id never meets an old one, and no constraint forbids a second row
\* for the same job: the commit succeeds whatever else happened since.
CreateCommits(r, a) ==
  /\ pc[r] = "create"
  /\ ~Exists(a)
  /\ job' = [job EXCEPT ![a] = subject[r]]
  /\ older' = [older EXCEPT ![a] = seen[r].found]
  /\ Record(a, "matched", <<Moved(None, "draft", "human"),
                            Moved("draft", "matched", "system")>>)
  /\ Reply(r)
  /\ UNCHANGED <<packet, materials>>

-----------------------------------------------------------------------------
(* POST /applications/{id}/materials/generate                              *)

NewMaterial(version) == [version |-> version, reviewed |-> FALSE]

LatestResume(rows) ==
  LET versions == {rows[i].version : i \in DOMAIN rows}
  IN  IF rows = <<>> THEN 0
      ELSE CHOOSE v \in versions : \A w \in versions : w <= v

\* Mutant: the table loses its constraint.
NoUniqueConstraint(rows, version) == FALSE

\* UNIQUE (application_id, kind, version)
UniqueViolation(rows, version) == \E i \in DOMAIN rows : rows[i].version = version

\* Mutant: the version goes down.
EarlierResume(previous) == previous - 1

\* (previous_resume.version + 1) if previous_resume else 1
NextResume(previous) == previous + 1

\* Mutant: the fingerprint is built from the previous resume.
PreviousFingerprint(version) == version - 1

\* What the model keeps of build_packet_fingerprint: its resume_version.
PacketFingerprint(version) == version

\* Mutant: the loop over the three targets stops one short.
TwoMoves(from) ==
  << Moved(from, "packet_draft", "system"),
     Moved("packet_draft", "packet_ready", "system") >>

MaterialsGenerated(from) ==
  << Moved(from, "packet_draft", "system"),
     Moved("packet_draft", "packet_ready", "system"),
     Moved("packet_ready", "human_review", "system") >>

GenerateReads(r, a) ==
  /\ Exists(a)
  /\ \E began \in TransactionStarts(a) :
       Serve(r, status[a] = "matched", "generate", a,
             SeenStatus(status[a], None, began))

GenerateReadsPrevious(r) ==
  /\ pc[r] = "generate"
  /\ Continue(r, "generated", subject[r],
              [seen[r] EXCEPT !.resume = LatestResume(materials[subject[r]])])
  /\ UNCHANGED database

\* Either the constraint refuses the resume and everything rolls back, or the
\* materials, the packet fingerprint, three moves and the status commit.
GenerateCommits(r) ==
  LET a == subject[r]
      version == NextResume(seen[r].resume)
  IN  /\ pc[r] = "generated"
      /\ IF UniqueViolation(materials[a], version)
         THEN UNCHANGED database
         ELSE /\ materials' = [materials EXCEPT ![a] = Append(@, NewMaterial(version))]
              /\ packet' = [packet EXCEPT ![a] = PacketFingerprint(version)]
              /\ Record(a, "human_review", MaterialsGenerated(seen[r].status))
              /\ UNCHANGED <<job, older>>
      /\ Reply(r)

-----------------------------------------------------------------------------
(* POST /applications/{id}/review                                          *)

ReviewReads(r, a) ==
  /\ Exists(a)
  /\ \E began \in TransactionStarts(a) :
       Serve(r, packet[a] # 0 /\ status[a] = "human_review", "review", a,
             SeenStatus(status[a], None, began))

\* Rows are inserted in version order, so a read of them is a prefix.
ReviewReadsMaterials(r) ==
  LET read == Len(materials[subject[r]])
  IN  /\ pc[r] = "review"
      /\ IF read = 0 THEN Reply(r)
         ELSE Continue(r, "reviewed", subject[r], [seen[r] EXCEPT !.resume = read])
      /\ UNCHANGED database

MarkReviewed(rows, read) ==
  [i \in DOMAIN rows |-> [rows[i] EXCEPT !.reviewed = @ \/ i <= read]]

ReviewCommits(r) ==
  LET a == subject[r]
  IN  /\ pc[r] = "reviewed"
      /\ materials' = [materials EXCEPT ![a] = MarkReviewed(@, seen[r].resume)]
      /\ Record(a, "approved", <<Moved(seen[r].status, "approved", "human")>>)
      /\ Reply(r)
      /\ UNCHANGED <<job, packet, older>>

-----------------------------------------------------------------------------
(* POST /applications/{id}/transition                                      *)

TransitionReads(r, a, goal) ==
  /\ Exists(a)
  /\ \E began \in TransactionStarts(a) :
       Serve(r, MayTransition(status[a], goal), "transition", a,
             SeenStatus(status[a], goal, began))

TransitionCommits(r) ==
  /\ pc[r] = "transition"
  /\ Record(subject[r], seen[r].goal,
            <<Moved(seen[r].status, seen[r].goal, "human")>>)
  /\ Reply(r)
  /\ UNCHANGED <<job, packet, materials, older>>

-----------------------------------------------------------------------------
(* The last step of an assisted run: _stop_application_before_submit       *)

StopReads(r, a) ==
  /\ Exists(a)
  /\ \E began \in TransactionStarts(a) :
       Serve(r, status[a] = "approved", "stop", a,
             SeenStatus(status[a], None, began))

StopCommits(r) ==
  /\ pc[r] = "stop"
  /\ Record(subject[r], "stopped_before_submit",
            <<Moved(seen[r].status, "stopped_before_submit", "system")>>)
  /\ Reply(r)
  /\ UNCHANGED <<job, packet, materials, older>>

-----------------------------------------------------------------------------
\* An exception, a lost connection or a killed server before the COMMIT.
RollBack(r) ==
  /\ pc[r] # "idle"
  /\ Reply(r)
  /\ UNCHANGED database

Init ==
  /\ status = [a \in Apps |-> None]
  /\ job = [a \in Apps |-> None]
  /\ packet = [a \in Apps |-> 0]
  /\ events = [a \in Apps |-> <<>>]
  /\ materials = [a \in Apps |-> <<>>]
  /\ pc = [r \in Handlers |-> "idle"]
  /\ subject = [r \in Handlers |-> None]
  /\ seen = [r \in Handlers |-> NothingSeen]
  /\ older = [a \in Apps |-> {}]

Reads(r) ==
  \/ \E j \in Jobs : CreateReads(r, j)
  \/ \E a \in Apps : GenerateReads(r, a)
  \/ GenerateReadsPrevious(r)
  \/ \E a \in Apps : ReviewReads(r, a)
  \/ ReviewReadsMaterials(r)
  \/ \E a \in Apps, goal \in ApplicationStatus : TransitionReads(r, a, goal)
  \/ \E a \in Apps : StopReads(r, a)
  \/ RollBack(r)

Commits(r) ==
  \/ \E a \in Apps : CreateCommits(r, a)
  \/ GenerateCommits(r)
  \/ ReviewCommits(r)
  \/ TransitionCommits(r)
  \/ StopCommits(r)

Next == \E r \in Handlers : Reads(r) \/ Commits(r)

Spec == Init /\ [][Next]_vars

-----------------------------------------------------------------------------
(* Properties that hold however requests overlap.                          *)

TypeOK ==
  /\ status \in [Apps -> ApplicationStatus \cup {None}]
  /\ job \in [Apps -> Jobs \cup {None}]
  /\ packet \in [Apps -> Nat]
  /\ events \in [Apps -> Seq(Event)]
  /\ materials \in [Apps -> Seq([version : Nat, reviewed : BOOLEAN])]
  /\ pc \in [Handlers -> {"idle", "create", "generate", "generated", "review",
                                    "reviewed", "transition", "stop"}]
  /\ subject \in [Handlers -> Apps \cup Jobs \cup {None}]
  /\ seen \in [Handlers -> Seen]
  /\ older \in [Apps -> SUBSET Apps]

\* The safety boundary of state_machine/application.py: no application is
\* ever submitted and no audit record says it was, whatever mode is set.
NeverSubmitted ==
  \A a \in Apps :
    /\ status[a] # "submitted"
    /\ \A i \in DOMAIN events[a] : events[a][i].to # "submitted"

\* Every audit record is grounded: it moves along an edge of TRANSITIONS and
\* leaves a status the application was really in at some earlier time, even
\* if a stale handler wrote it after the status had moved on.
Grounded(log, i) ==
  IF i = 1 THEN log[i].from = None /\ log[i].to = "draft"
  ELSE /\ <<log[i].from, log[i].to>> \in TRANSITIONS
       /\ \E k \in 1..(i - 1) : log[k].to = log[i].from

MovesAreGrounded == \A a \in Apps : \A i \in DOMAIN events[a] : Grounded(events[a], i)

\* An application stops before submit only after a human approved it.
ApprovedByHuman(log, i) == log[i].to = "approved" /\ log[i].by = "human"

StopFollowsApproval ==
  \A a \in Apps : \A i \in DOMAIN events[a] :
    events[a][i].to = "stopped_before_submit" =>
      \E k \in 1..(i - 1) : ApprovedByHuman(events[a], k)

\* Resume versions are 1, 2, 3, ... without a gap or a repeat, although each
\* generate computes its version from an earlier, possibly stale, SELECT.
ResumeVersionsContiguous ==
  \A a \in Apps : \A i \in DOMAIN materials[a] : materials[a][i].version = i

\* The fingerprint names the newest resume of the application: the one that
\* get_launch_context serves to the assisted run.
PacketNamesLatestResume == \A a \in Apps : packet[a] = LatestResume(materials[a])

\* The audit log replays as far as its times tell: a transaction that started
\* after every earlier record was committed continues the log where it ends.
\* Only transactions that overlap can break it.
Wrote(r, a) ==
  /\ events'[a] # events[a]
  /\ subject[r] = a /\ pc[r] # "idle" /\ pc'[r] = "idle"

RecordsContinue ==
  [][\A r \in Handlers, a \in Apps :
       Wrote(r, a) /\ seen[r].began = Len(events[a]) =>
         events'[a][Len(events[a]) + 1].from = events[a][Len(events[a])].to]_vars

\* The state machine lets the application move on, now or in another mode.
InFlight(a) == \E target \in ApplicationStatus : <<status[a], target>> \in TRANSITIONS

\* Neither of the requests that made the two applications could see the other.
CreatedApart(a, b) == a \notin older[b] /\ b \notin older[a]

WasStopped(a) == \E i \in DOMAIN events[a] : events[a][i].to = "stopped_before_submit"

\* create_application returns the application in flight for a job instead of
\* starting a second one.  There are two ways to have two of them: creations
\* that overlap, and an application that was stopped and that a stale request
\* put back in flight.
OneActiveApplication ==
  \A a, b \in Apps :
    a # b /\ Exists(a) /\ job[a] = job[b] /\ InFlight(a) /\ InFlight(b) =>
      CreatedApart(a, b) \/ WasStopped(a) \/ WasStopped(b)

-----------------------------------------------------------------------------
(* What the documents say and the code does not do.                        *)

\* ADR 0006: approval needs a packet fingerprint and reviews every material.
ApprovalReviewsPacket ==
  \A a \in Apps :
    status[a] = "approved" =>
      /\ packet[a] # 0
      /\ \A i \in DOMAIN materials[a] : materials[a][i].reviewed

=============================================================================
