----------------------------- MODULE MCAssisted -----------------------------
(* Bounds for TLC: identifiers are interchangeable, and a run with more    *)
(* than MaxRecords step records is not followed further.                   *)
EXTENDS AssistedRun, TLC

CONSTANT MaxRecords

Identical == Permutations(Runs) \cup Permutations(Handlers)

FewRecords == \A r \in Runs : Len(steps[r]) <= MaxRecords

=============================================================================
