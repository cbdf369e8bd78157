----------------------------- MODULE MatchEngine -----------------------------
(***************************************************************************)
(* The score of a job for a profile: evaluate_match and build_evidence as  *)
(* operators.  A text is the set of its tokens, an absent one is Missing.  *)
(* Scores and points are in hundredths; Python rounds a tie to the even    *)
(* neighbour, Rounded to the upper one.                                    *)
(***************************************************************************)
EXTENDS Naturals, FiniteSets

CONSTANT Missing

\* An empty list allows every place; a blank item of a list allows none.
LocationAllowed(job, constraints) ==
  \/ constraints.locations = {}
  \/ /\ job.location # Missing
     /\ \E place \in constraints.locations : place # {} /\ place \subseteq job.location

Reasons(job, constraints) ==
  LET blocked ==
        [remote     |-> constraints.remoteOnly /\ ~job.remote,
         location   |-> ~LocationAllowed(job, constraints),
         employment |-> /\ constraints.employmentTypes # {}
                        /\ job.employment \notin constraints.employmentTypes]
  IN  {why \in DOMAIN blocked : blocked[why]}

\* What of the posting is looked for in the profile, and what of it is found.
Parts(job, profile) ==
  LET Found(wanted, has) == [matched |-> wanted \cap has, of |-> wanted]
  IN  [skills     |-> Found(job.requirements \cup job.technologies, profile.skills),
       title      |-> Found(job.title, profile.skills),
       experience |-> Found(job.title, profile.experience),
       education  |-> Found(job.requirements, profile.education)]

Weight == [skills |-> 50, title |-> 20, experience |-> 20, education |-> 10]

Rounded(n, d) == (2 * n + d) \div (2 * d)

\* The denominator of a ratio, the same for title and experience; a part of an
\* empty text has the ratio 0.
Size(part) == IF part.of = {} THEN 1 ELSE Cardinality(part.of)

\* The common denominator of the four ratios.
Whole(part) == Size(part.skills) * Size(part.title) * Size(part.education)

\* Hundredths of a point, of that denominator.
Share(part, weight, whole) ==
  100 * weight * Cardinality(part.matched) * (whole \div Size(part))

Score(job, profile) ==
  LET part  == Parts(job, profile)
      whole == Whole(part)
  IN  Rounded(  Share(part.skills, Weight.skills, whole)
              + Share(part.title, Weight.title, whole)
              + Share(part.experience, Weight.experience, whole)
              + Share(part.education, Weight.education, whole), whole)

Evaluate(job, profile, constraints) ==
  LET reasons == Reasons(job, constraints)
  IN  [eligible |-> reasons = {}, reasons |-> reasons,
       score |-> IF reasons = {} THEN Score(job, profile) ELSE 0]

\* The points of one part in the evidence: its ratio is rounded to four
\* digits first.
Points(part, weight) ==
  Rounded(weight * Rounded(10000 * Cardinality(part.matched), Size(part)), 100)

TotalPoints(job, profile) ==
  LET part == Parts(job, profile)
  IN    Points(part.skills, Weight.skills) + Points(part.title, Weight.title)
      + Points(part.experience, Weight.experience)
      + Points(part.education, Weight.education)

=============================================================================
