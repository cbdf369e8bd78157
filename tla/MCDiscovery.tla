----------------------------- MODULE MCDiscovery -----------------------------
(* Bounds for TLC: one board lists all the jobs; the cycle meets a row of  *)
(* an unknown ATS before the row of that board.                            *)
EXTENDS DiscoveryPipeline

CONSTANTS Known, Unknown

OneBoard == [j \in Jobs |-> Known]

UnknownFirst == [s \in Listed |-> IF s = Unknown THEN 1 ELSE 2]

=============================================================================
