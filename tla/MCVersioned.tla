---------------------------- MODULE MCVersioned ----------------------------
(* Bounds for TLC: requests are interchangeable, and a series with more    *)
(* than MaxRows versions is not continued.                                 *)
EXTENDS VersionedAppend, TLC

CONSTANT MaxRows

Identical == Permutations(Handlers)

FewRows == Len(rows) <= MaxRows

=============================================================================
