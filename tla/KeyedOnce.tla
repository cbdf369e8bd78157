------------------------------ MODULE KeyedOnce ------------------------------
(***************************************************************************)
(* What an idempotency key promises: the work under a key is taken up at   *)
(* most once, stays within that one execution, and when the execution is   *)
(* closed its report says how much was done and never changes.             *)
(***************************************************************************)
CONSTANTS
  Keys,     \* idempotency keys
  Items,    \* what the work under a key consists of
  Size(_),  \* the number of items in a set
  Nothing   \* what is reported before the key is closed: 0

VARIABLES
  phase,  \* of each key: "free", "held" or "closed"
  done,   \* the items done under each key
  report  \* what is reported of each key

vars == <<phase, done, report>>

Take(k) ==
  /\ phase[k] = "free"
  /\ phase' = [phase EXCEPT ![k] = "held"]
  /\ UNCHANGED <<done, report>>

Do(k, i) ==
  /\ phase[k] = "held"
  /\ i \notin done[k]
  /\ done' = [done EXCEPT ![k] = @ \cup {i}]
  /\ UNCHANGED <<phase, report>>

Close(k) ==
  /\ phase[k] = "held"
  /\ phase' = [phase EXCEPT ![k] = "closed"]
  /\ report' = [report EXCEPT ![k] = Size(done[k])]
  /\ UNCHANGED done

Init ==
  /\ phase = [k \in Keys |-> "free"]
  /\ done = [k \in Keys |-> {}]
  /\ report = [k \in Keys |-> Nothing]

Next == \E k \in Keys : Take(k) \/ Close(k) \/ \E i \in Items : Do(k, i)

Spec == Init /\ [][Next]_vars

=============================================================================
