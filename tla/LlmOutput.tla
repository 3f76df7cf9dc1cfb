------------------------------ MODULE LlmOutput ------------------------------
(***************************************************************************)
(* What the program makes of an answer of the LLM that has parsed.  Of a   *)
(* list of questions (question_generator.py) the distinct ones, cut to the *)
(* number asked for.  Of an analysis (report_service.py) the contradictions *)
(* escalated into risks (risk_backstops.py), then the scores and the risk  *)
(* level (scoring.py).  Each loop takes one item at a time.                *)
(*                                                                         *)
(* Scores are in tenths, weights in twentieths.  A key stands for a text   *)
(* up to what the code ignores in comparing it: the text of a question, or *)
(* the topic of a contradiction, which is also the title of the risk it is *)
(* escalated into.                                                         *)
(***************************************************************************)
EXTENDS Integers, Sequences

CONSTANTS
  Keys,       \* texts, topics, titles
  Lists,      \* the lists of questions the LLM answers with
  Analyses,   \* the analyses it answers with
  Wishes,     \* the values of settings.num_questions
  Weights,    \* CATEGORY_WEIGHTS, by category
  Sums,       \* Sums[c + 1]: the weights of the first c categories
  None        \* no level yet

Categories == 1..Len(Weights)

Whole == 20

Severities == {"LOW", "MEDIUM", "HIGH", "CRITICAL"}

Tiers == {"Excellent", "Strong", "Moderate", "Weak", "Critical"}

Strengths == {"High", "Medium", "Low"}

Contradiction == [topic : Keys, genuine : BOOLEAN, severity : Severities]

Risk == [title : Keys, severity : Severities]

\* The schema leaves the tier and the strength of evidence any strings.
Assessment == [category : Categories,
               tier : Tiers \cup {"unknown"},
               evidence : Strengths \cup {"unknown"}]

\* The validator of InterviewAnalysis: no category is missing.
AllPresent(assessments) ==
  \A c \in Categories : \E j \in DOMAIN assessments : assessments[j].category = c

ASSUME OutputAssumption ==
  /\ Lists \subseteq Seq(Keys)
  /\ Analyses \subseteq [contradictions : Seq(Contradiction),
                         risks : Seq(Risk),
                         assessments : Seq(Assessment)]
  /\ \A a \in Analyses : AllPresent(a.assessments)
  /\ Wishes \subseteq Int
  /\ None \notin Severities

\* scoring.py: the weights sum to 1.0.
ASSUME WeightsAssumption ==
  /\ Weights \in Seq(Nat) /\ Len(Weights) > 0
  /\ Sums \in [1..(Len(Weights) + 1) -> Nat]
  /\ Sums[1] = 0
  /\ \A c \in Categories : Sums[c + 1] = Sums[c] + Weights[c]
  /\ Sums[Len(Weights) + 1] = Whole

VARIABLES
  pc,       \* which loop it is in
  job,      \* what the answer is for
  list,     \* the questions
  analysis, \* the analysis
  wish,     \* settings.num_questions
  i,        \* the next item of the loop
  seen,     \* keys met so far
  kept,     \* the items that are kept, by their places
  scores,   \* category_scores
  total,    \* the sum of weighted scores, in two hundredths
  overall,  \* overall_score
  level     \* risk_level

input == <<job, list, analysis, wish>>
vars == <<pc, input, i, seen, kept, scores, total, overall, level>>

NoAnalysis == [contradictions |-> <<>>, risks |-> <<>>, assessments |-> <<>>]

Init ==
  /\ pc = "idle"
  /\ job = "questions"
  /\ list = <<>>
  /\ analysis = NoAnalysis
  /\ wish = 0
  /\ i = 1
  /\ seen = {}
  /\ kept = <<>>
  /\ scores = [c \in Categories |-> 0]
  /\ total = 0
  /\ overall = 0
  /\ level = None

Fresh ==
  /\ i' = 1
  /\ kept' = <<>>
  /\ scores' = [c \in Categories |-> 0]
  /\ total' = 0
  /\ overall' = 0
  /\ level' = None

\* generate_top_questions has a list.
ReceiveList(qs, n) ==
  /\ pc = "idle"
  /\ pc' = "listing"
  /\ job' = "questions"
  /\ list' = qs
  /\ wish' = n
  /\ analysis' = NoAnalysis
  /\ seen' = {}
  /\ Fresh

\* build_report has an analysis; the titles of its risks are taken.
ReceiveAnalysis(a) ==
  /\ pc = "idle"
  /\ pc' = "listing"
  /\ job' = "report"
  /\ list' = <<>>
  /\ wish' = 0
  /\ analysis' = a
  /\ seen' = {a.risks[j].title : j \in DOMAIN a.risks}
  /\ Fresh

-----------------------------------------------------------------------------
\* The items of the first loop, questions or contradictions.
Count == IF job = "questions" THEN Len(list) ELSE Len(analysis.contradictions)

Key(j) == IF job = "questions" THEN list[j] ELSE analysis.contradictions[j].topic

Severe(s) == s \in {"HIGH", "CRITICAL"}

\* Every question, and the genuine contradictions that are severe.
Wanted(j) ==
  \/ job = "questions"
  \/ /\ analysis.contradictions[j].genuine
     /\ Severe(analysis.contradictions[j].severity)

\* Mutant: an escalated title is not added to those there are.
TakeForgetting ==
  /\ pc = "listing" /\ i <= Count
  /\ i' = i + 1
  /\ IF Wanted(i) /\ Key(i) \notin seen
     THEN kept' = Append(kept, i)
     ELSE UNCHANGED kept
  /\ UNCHANGED <<pc, input, seen, scores, total, overall, level>>

\* Mutant: the key of every item is added, wanted or not.
TakeEager ==
  /\ pc = "listing" /\ i <= Count
  /\ i' = i + 1
  /\ seen' = seen \cup {Key(i)}
  /\ IF Wanted(i) /\ Key(i) \notin seen
     THEN kept' = Append(kept, i)
     ELSE UNCHANGED kept
  /\ UNCHANGED <<pc, input, scores, total, overall, level>>

\* _dedupe, escalate_risks_from_contradictions: one turn of the loop.
Take ==
  /\ pc = "listing" /\ i <= Count
  /\ i' = i + 1
  /\ IF Wanted(i) /\ Key(i) \notin seen
     THEN kept' = Append(kept, i) /\ seen' = seen \cup {Key(i)}
     ELSE UNCHANGED <<kept, seen>>
  /\ UNCHANGED <<pc, input, scores, total, overall, level>>

\* Zero usable questions are a failure.
Listed ==
  /\ pc = "listing" /\ i > Count
  /\ i' = 1
  /\ pc' = IF job = "report" THEN "rating"
           ELSE IF kept = <<>> THEN "failed" ELSE "done"
  /\ UNCHANGED <<input, seen, kept, scores, total, overall, level>>

Most(m, n) == IF m < n THEN n ELSE m

Least(m, n) == IF m < n THEN m ELSE n

\* What [:n] leaves: a negative n counts from the end.
Cut(n) == IF n >= 0 THEN Least(n, Len(kept)) ELSE Most(0, Len(kept) + n)

Questions == SubSeq(kept, 1, Cut(wish))

\* The risks of the report: the LLM's and the escalated ones.
Risks ==
  {analysis.risks[j] : j \in DOMAIN analysis.risks} \cup
  {[title |-> analysis.contradictions[j].topic,
    severity |-> analysis.contradictions[j].severity] :
     j \in {kept[n] : n \in DOMAIN kept}}

-----------------------------------------------------------------------------
Base == [Excellent |-> 95, Strong |-> 75, Moderate |-> 55, Weak |-> 35,
         Critical |-> 10]

Adjustment == [High |-> 4, Medium |-> 0, Low |-> -6]

\* score_category, where both words are known.
Score(a) == Most(0, Least(100, Base[a.tier] + Adjustment[a.evidence]))

\* Mutant: the first assessment of a category counts.
RateFirst ==
  /\ pc = "rating" /\ i <= Len(analysis.assessments)
  /\ LET a == analysis.assessments[i] IN
     IF a.tier \in Tiers /\ a.evidence \in Strengths
     THEN /\ i' = i + 1
          /\ scores' = [scores EXCEPT ![a.category] =
                          IF @ # 0 THEN @ ELSE Score(a)]
          /\ UNCHANGED pc
     ELSE pc' = "failed" /\ UNCHANGED <<i, scores>>
  /\ UNCHANGED <<input, seen, kept, total, overall, level>>

\* score_categories: an unknown word fails the report, a category assessed
\* again is overwritten.
Rate ==
  /\ pc = "rating" /\ i <= Len(analysis.assessments)
  /\ LET a == analysis.assessments[i] IN
     IF a.tier \in Tiers /\ a.evidence \in Strengths
     THEN /\ i' = i + 1
          /\ scores' = [scores EXCEPT ![a.category] = Score(a)]
          /\ UNCHANGED pc
     ELSE pc' = "failed" /\ UNCHANGED <<i, scores>>
  /\ UNCHANGED <<input, seen, kept, total, overall, level>>

Rated ==
  /\ pc = "rating" /\ i > Len(analysis.assessments)
  /\ pc' = "weighing"
  /\ i' = 1
  /\ UNCHANGED <<input, seen, kept, scores, total, overall, level>>

\* compute_overall_score: one term of the sum.
Weigh ==
  /\ pc = "weighing" /\ i <= Len(Weights)
  /\ total' = total + scores[i] * Weights[i]
  /\ i' = i + 1
  /\ UNCHANGED <<pc, input, seen, kept, scores, overall, level>>

\* Mutant: the sum is taken for the score.
RoundedNot(t) == {t}

\* round(total, 1): to the nearest tenth; what becomes of a tie is up to
\* the binary fractions.
Rounded(t) == {n \in 0..100 : Whole * n - t \in -10..10}

\* determine_risk_level.
Level(score) ==
  IF \E r \in Risks : r.severity = "CRITICAL" THEN "CRITICAL"
  ELSE IF score >= 80 THEN "LOW"
  ELSE IF score >= 60 THEN "MEDIUM"
  ELSE IF score >= 40 THEN "HIGH"
  ELSE "CRITICAL"

\* The report is judged and validated.
Judge ==
  /\ pc = "weighing" /\ i > Len(Weights)
  /\ \E score \in Rounded(total) :
       /\ overall' = score
       /\ level' = Level(score)
  /\ pc' = "done"
  /\ UNCHANGED <<input, i, seen, kept, scores, total>>

\* The result is returned, or the failure raised.
Return ==
  /\ pc \in {"done", "failed"}
  /\ pc' = "idle"
  /\ job' = "questions" /\ list' = <<>> /\ wish' = 0 /\ analysis' = NoAnalysis
  /\ seen' = {}
  /\ Fresh

-----------------------------------------------------------------------------
Receive ==
  \/ \E qs \in Lists, n \in Wishes : ReceiveList(qs, n)
  \/ \E a \in Analyses : ReceiveAnalysis(a)

Next == Receive \/ Take \/ Listed \/ Rate \/ Rated \/ Weigh \/ Judge \/ Return

Spec == Init /\ [][Next]_vars

-----------------------------------------------------------------------------
\* The variables have their types, every score in the range the report's
\* schema demands, and a finished report its level.
TypeOK ==
  /\ pc \in {"idle", "listing", "rating", "weighing", "done", "failed"}
  /\ job \in {"questions", "report"}
  /\ list \in Seq(Keys)
  /\ analysis \in [contradictions : Seq(Contradiction), risks : Seq(Risk),
                   assessments : Seq(Assessment)]
  /\ wish \in Int
  /\ i \in Nat \ {0}
  /\ seen \subseteq Keys
  /\ kept \in Seq(1..Count)
  /\ scores \in [Categories -> 0..100]
  /\ total \in Nat
  /\ overall \in 0..100
  /\ level \in Severities \cup {None}
  /\ level # None <=> pc = "done" /\ job = "report"

\* What is wanted, has no risk of the LLM's for it, and comes first of its
\* key: the definition the loops are measured against.
First(j) ==
  /\ Wanted(j)
  /\ job = "report" => \A n \in DOMAIN analysis.risks : analysis.risks[n].title # Key(j)
  /\ \A k \in 1..(j - 1) : Wanted(k) => Key(k) # Key(j)

Done == IF pc = "listing" THEN i - 1 ELSE IF pc = "idle" THEN 0 ELSE Count

\* The loops keep the first item of every key, in order, and no other.
FirstsKept ==
  /\ \A j \in 1..Done : First(j) <=> \E n \in DOMAIN kept : kept[n] = j
  /\ \A n \in DOMAIN kept : kept[n] \in 1..Done
  /\ \A m, n \in DOMAIN kept : m < n => kept[m] < kept[n]

\* A positive number of questions is met as far as the list has distinct
\* ones, and never with none at all; zero or less is an empty list or one
\* that lacks its tail, and no failure.
CutIsRight ==
  (pc = "done" /\ job = "questions") =>
    /\ Len(Questions) <= Len(kept)
    /\ wish > 0 => /\ Len(Questions) \in 1..wish
                   /\ Len(Questions) < wish => Questions = kept
    /\ wish < 0 => Len(Questions) < Len(kept)
    /\ wish = 0 => Questions = <<>>

\* The interview asks the first of every question, up to the number wanted;
\* a report gets one risk for each topic of a severe genuine contradiction
\* that the LLM has no risk for, from the first of the topic: a second one is
\* skipped, whatever its severity.
ListsAreRight == FirstsKept /\ CutIsRight

\* Every severe genuine contradiction is visible in the risks of the
\* report, as a risk of its title.
SevereIsVisible ==
  (pc = "done" /\ job = "report") =>
    \A j \in 1..Count : Wanted(j) => \E r \in Risks : r.title = Key(j)

\* The first severe genuine contradiction of a topic that the LLM has no risk
\* for is one with its own severity, which is all SeverityIsVisible can mean.
FirstIsEscalated ==
  (pc = "done" /\ job = "report") =>
    \A j \in 1..Count : First(j) =>
      [title |-> Key(j), severity |-> analysis.contradictions[j].severity] \in Risks

\* risk_backstops.py: any HIGH or CRITICAL contradiction is escalated into
\* an explicit risk, with its severity.
SeverityIsVisible ==
  (pc = "done" /\ job = "report") =>
    \A j \in 1..Count : Wanted(j) =>
      \E r \in Risks : r.title = Key(j) /\
        (analysis.contradictions[j].severity = "CRITICAL" => r.severity = "CRITICAL")

\* A category assessed more than once has the score of the last one, and
\* every category has a score.
LastAssessmentCounts ==
  (pc = "done" /\ job = "report") =>
    \A c \in Categories : \E j \in DOMAIN analysis.assessments :
      /\ analysis.assessments[j].category = c
      /\ scores[c] = Score(analysis.assessments[j])
      /\ \A k \in DOMAIN analysis.assessments :
           k > j => analysis.assessments[k].category # c

\* The overall score is a mean: between the least and the greatest score,
\* for all the rounding.
OverallIsMean ==
  (pc = "done" /\ job = "report") =>
    /\ \E c \in Categories : scores[c] <= overall
    /\ \E c \in Categories : overall <= scores[c]

\* The scores are those of the analysis, and the overall score is theirs.
ScoresAreRight == LastAssessmentCounts /\ OverallIsMean

\* No report flatters: a CRITICAL risk makes it CRITICAL whatever the
\* scores, and a score makes it what it is worth up to half a tenth.
LevelIsSound ==
  (pc = "done" /\ job = "report") =>
    /\ (\E r \in Risks : r.severity = "CRITICAL") => level = "CRITICAL"
    /\ level = "LOW" => total >= Whole * 80 - 10
    /\ level \in {"LOW", "MEDIUM"} => total >= Whole * 60 - 10
    /\ level = "CRITICAL" =>
         \/ total <= Whole * 40 - 10
         \/ \E r \in Risks : r.severity = "CRITICAL"

\* A contradiction reaches the risks, and a CRITICAL risk the level.
ReportIsSound == SevereIsVisible /\ FirstIsEscalated /\ LevelIsSound
=============================================================================
