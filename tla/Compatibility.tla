----------------------------- MODULE Compatibility -----------------------------
(***************************************************************************)
(* The rules that compare a professional's skills with the ones a job      *)
(* requires, and the rule that says when a résumé is complete.  They keep  *)
(* no state: the listing of a job's applicants, the search for jobs, the   *)
(* automatic applications and the indicators all evaluate them.            *)
(***************************************************************************)
EXTENDS Ordering

-----------------------------------------------------------------------------
\* The compatibility engine.

Score(required, skills) ==
    [matched |-> required \cap skills, missing |-> required \ skills]

MatchedCount(score) == Cardinality(score.matched)
RequiredCount(score) == Cardinality(score.matched) + Cardinality(score.missing)

\* Hundredths of a percent, rounded half up: 3333 stands for 33.33 %.
RoundedShare(m, n) == (20000 * m + n) \div (2 * n)
Percentage(score) == RoundedShare(MatchedCount(score), RequiredCount(score))

HighlightThreshold == 50

\* Both thresholds compare the exact ratio, never the rounded percentage.
Reaches(score, threshold) ==
    MatchedCount(score) * 100 >= threshold * RequiredCount(score)
IsHighlighted(score) == Reaches(score, HighlightThreshold)
IsAutomaticMatch(score) == IsHighlighted(score)
QualifiesForAutomaticApplication(score, threshold) == Reaches(score, threshold)

\* Highest percentage first; equal percentages keep the order they came in.
RankedBefore(given, required, skillsOf) ==
    LET percentage(i) == Percentage(Score(required, skillsOf[given[i]]))
    IN  {p \in (DOMAIN given) \X (DOMAIN given) :
            \/ percentage(p[1]) > percentage(p[2])
            \/ percentage(p[1]) = percentage(p[2]) /\ p[1] < p[2]}
Rank(given, required, skillsOf) ==
    LET order == InOrder(DOMAIN given, RankedBefore(given, required, skillsOf))
    IN  [k \in DOMAIN given |-> given[order[k]]]

\* What the search for jobs and the applications show instead of a score.
MatchSkills(required, skills) ==
    [matched |-> Cardinality(required \cap skills),
     required |-> Cardinality(required),
     missing |-> required \ skills]

MatchRequirements(required, skills) ==
    [matched |-> Cardinality(required \cap skills), total |-> Cardinality(required)]

-----------------------------------------------------------------------------
\* Completeness of a résumé.  A text is absent, blank or not.

Texts == {"absent", "blank", "given"}
ResumeTexts == {"city", "state", "summary"}
ResumeSections == {"experiences", "education", "skills"}
ResumeFields == ResumeTexts \cup ResumeSections

\* The rule in Python: "not text or not text.strip()", and the empty sections.
MissingResumeFields(text, section) ==
    {f \in ResumeTexts : text[f] # "given"} \cup {f \in ResumeSections : ~ section[f]}

\* Mutant of TrimmedLength: the blanks are counted.
UntrimmedLength(value) == IF value = "absent" THEN 0 ELSE 1

\* The rule in SQL: what is left of the text without its blanks has a length.
TrimmedLength(value) == IF value = "given" THEN 1 ELSE 0
ResumeIsComplete(text, section) ==
    /\ \A f \in ResumeTexts : TrimmedLength(text[f]) > 0
    /\ \A f \in ResumeSections : section[f]

ResumeCompletionPercentage(missing) ==
    LET fields == Cardinality(ResumeFields)
        filled == fields - Cardinality(missing)
    IN  (filled * 200 + fields) \div (2 * fields)

=============================================================================
