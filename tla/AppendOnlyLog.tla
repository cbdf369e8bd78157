--------------------------- MODULE AppendOnlyLog ---------------------------
(***************************************************************************)
(* What the API promises of candidate profiles, search preferences and     *)
(* library answers: each is a log of versions 1, 2, 3, ... that only grows *)
(* at its end, one version at a time, and forgets nothing.                 *)
(***************************************************************************)
EXTENDS Naturals, Sequences

VARIABLE log

Init == log = <<>>

Next == log' = Append(log, Len(log) + 1)

Spec == Init /\ [][Next]_log

=============================================================================
