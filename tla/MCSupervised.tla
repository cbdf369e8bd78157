---------------------------- MODULE MCSupervised ----------------------------
(* Bounds for TLC: identifiers are interchangeable, and a behaviour with   *)
(* more than MaxClicks clicks is not followed further.                     *)
EXTENDS SupervisedSubmission, FiniteSetsExt, TLC

CONSTANT MaxClicks

Identical ==
  Permutations(Runs) \cup Permutations(Tokens) \cup Permutations(Pages)
  \cup Permutations(Workers) \cup Permutations(Clerks)

FewClicks == MapThenSumSet(LAMBDA t : clicked[t], Tokens) <= MaxClicks

=============================================================================
