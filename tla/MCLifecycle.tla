---------------------------- MODULE MCLifecycle -----------------------------
(* Bounds for TLC: identifiers are interchangeable, and an audit log with  *)
(* more than MaxMoves records is not continued.                            *)
EXTENDS ApplicationLifecycle, TLC

CONSTANT MaxMoves

Identical == Permutations(Apps) \cup Permutations(Handlers)

ShortLogs == \A a \in Apps : Len(events[a]) <= MaxMoves

=============================================================================
