----------------------------- MODULE MCMatching -----------------------------
(* The scores are compared with what the documents promise of them over    *)
(* all jobs and profiles of a few tokens, before the requests are explored.*)
EXTENDS MatchRefresh, MatchEngine, TLC

CONSTANTS Tokens, Types

Identical == Permutations(Requests) \cup Permutations(Jobs) \cup Permutations(Contents)

MCJobs == [title : SUBSET Tokens, requirements : SUBSET Tokens, technologies : {{}} \cup {Tokens}]

MCProfiles == [skills : SUBSET Tokens, experience : SUBSET Tokens, education : SUBSET Tokens]

Gap(m, n) == IF m < n THEN n - m ELSE m - n

\* A score is between 0 and 100, and the points of its evidence add up to it
\* but for rounding.
ASSUME EvidenceAddsUp ==
  \A j \in MCJobs, p \in MCProfiles :
    /\ Score(j, p) <= 10000
    /\ Gap(Score(j, p), TotalPoints(j, p)) <= 2

\* To know more never lowers a score.
ASSUME MoreSkillsNeverHurt ==
  \A j \in MCJobs, p \in MCProfiles, t \in Tokens :
    Score(j, p) <= Score(j, [p EXCEPT !.skills = @ \cup {t}])

Postings ==
  [location : (SUBSET Tokens) \cup {Missing}, remote : BOOLEAN, employment : Types \cup {Missing}]

Wishes ==
  [remoteOnly : BOOLEAN, locations : SUBSET SUBSET Tokens, employmentTypes : SUBSET Types]

\* To allow one more place, where some are listed, excludes no job.
ASSUME MorePlacesAllowMore ==
  \A j \in Postings, w \in Wishes : \A place \in SUBSET Tokens :
    w.locations # {} => 
      Reasons(j, [w EXCEPT !.locations = @ \cup {place}]) \subseteq Reasons(j, w)

=============================================================================
