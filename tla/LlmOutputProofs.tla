--------------------------- MODULE LlmOutputProofs ---------------------------
(***************************************************************************)
(* Proofs about LlmOutput, for all lists and analyses, every number of     *)
(* questions asked for and all weights that sum to the whole.              *)
(***************************************************************************)
EXTENDS LlmOutput, SequenceTheorems, TLAPS

-----------------------------------------------------------------------------
(***************************************************************************)
(* The inductive invariant.                                                *)
(***************************************************************************)

\* What each place says of the job.
PlaceInv ==
  /\ pc = "idle" => job = "questions" /\ kept = <<>> /\ seen = {}
  /\ pc \in {"rating", "weighing"} => job = "report"
  /\ pc = "listing" => i <= Count + 1
  /\ pc \in {"done", "failed"} /\ job = "questions" => (kept = <<>> <=> pc = "failed")
  /\ pc # "idle" /\ job = "report" => AllPresent(analysis.assessments)

Titles ==
  IF job = "report" THEN {analysis.risks[n].title : n \in DOMAIN analysis.risks} ELSE {}

\* What has been seen: the LLM's titles and the keys of what was wanted; and
\* where it is to be found.
SeenInv ==
  /\ \A j \in 1..Done : Wanted(j) => Key(j) \in seen
  /\ Titles \subseteq seen
  /\ \A k \in seen : k \in Titles \/ \E n \in DOMAIN kept : Key(kept[n]) = k
  /\ \A n \in DOMAIN kept : Wanted(kept[n])

\* The scores of the first n assessments.
RatedTo(n) ==
  \A c \in Categories :
    (\E j \in 1..n : analysis.assessments[j].category = c) =>
      \E j \in 1..n :
        /\ analysis.assessments[j].category = c
        /\ scores[c] = Score(analysis.assessments[j])
        /\ \A k \in (j + 1)..n : analysis.assessments[k].category # c

RateInv ==
  /\ pc = "rating" => i <= Len(analysis.assessments) + 1 /\ RatedTo(i - 1)
  /\ pc = "weighing" \/ (pc = "done" /\ job = "report") =>
       RatedTo(Len(analysis.assessments))

\* The sum of the first c terms is between any bounds of the scores.
Between(c) ==
  /\ \A lo \in 0..100 : (\A d \in Categories : lo <= scores[d]) => lo * Sums[c + 1] <= total
  /\ \A hi \in 0..100 : (\A d \in Categories : scores[d] <= hi) => total <= hi * Sums[c + 1]

MeanInv ==
  /\ pc = "rating" => total = 0
  /\ pc = "listing" => total = 0
  /\ pc = "weighing" => i <= Len(Weights) + 1 /\ Between(i - 1)
  /\ pc = "done" /\ job = "report" => Between(Len(Weights))

JudgeInv ==
  pc = "done" /\ job = "report" => overall \in Rounded(total) /\ level = Level(overall)

IInv ==
  /\ TypeOK
  /\ PlaceInv
  /\ FirstsKept
  /\ SeenInv
  /\ RateInv
  /\ MeanInv
  /\ JudgeInv

-----------------------------------------------------------------------------
(***************************************************************************)
(* Lemmas about the loops' operators.                                      *)
(***************************************************************************)

\* The number of items, and their keys.
LEMMA Items ==
  ASSUME TypeOK
  PROVE  /\ Count \in Nat
         /\ \A j \in 1..Count : Key(j) \in Keys
         /\ Titles \subseteq Keys
<1>1. /\ list \in Seq(Keys) /\ analysis.contradictions \in Seq(Contradiction)
      /\ analysis.risks \in Seq(Risk)
  BY DEF TypeOK
<1>2. \A j \in 1..Len(list) : list[j] \in Keys
  BY <1>1
<1>3. \A j \in 1..Len(analysis.contradictions) : analysis.contradictions[j].topic \in Keys
  <2>1. \A j \in 1..Len(analysis.contradictions) : analysis.contradictions[j] \in Contradiction
    BY <1>1
  <2> QED BY <2>1 DEF Contradiction
<1>4. Titles \subseteq Keys
  <2>1. \A n \in DOMAIN analysis.risks : analysis.risks[n] \in Risk
    BY <1>1
  <2> QED BY <2>1 DEF Titles, Risk
<1>5. Count \in Nat
  BY <1>1 DEF Count
<1> QED BY <1>2, <1>3, <1>4, <1>5 DEF Count, Key

\* While the input stays, so do the items.
LEMMA SameItems ==
  ASSUME UNCHANGED input
  PROVE  /\ Count' = Count
         /\ Titles' = Titles
         /\ \A j : Key(j)' = Key(j)
         /\ \A j : Wanted(j)' = Wanted(j)
         /\ \A j : First(j)' = First(j)
BY DEF input, Count, Titles, Key, Wanted, First

\* An assessment in known words has a score on the report's scale.
LEMMA ScoreRange ==
  ASSUME NEW a \in Assessment, a.tier \in Tiers, a.evidence \in Strengths
  PROVE  Score(a) \in 0..100
<1>1. /\ Base[a.tier] \in {95, 75, 55, 35, 10}
  BY DEF Base, Tiers
<1>2. Adjustment[a.evidence] \in {4, 0, -6}
  BY DEF Adjustment, Strengths
<1> QED BY <1>1, <1>2 DEF Score, Most, Least

\* What [:n] leaves is a prefix.
LEMMA CutRange ==
  ASSUME NEW n \in Int, kept \in Seq(1..Count)
  PROVE  /\ Cut(n) \in 0..Len(kept)
         /\ n >= 0 => Cut(n) = IF n < Len(kept) THEN n ELSE Len(kept)
         /\ n < 0 => Cut(n) < Len(kept) \/ Len(kept) = 0
BY DEF Cut, Most, Least

LEMMA WeightsSum ==
  /\ Len(Weights) \in Nat \ {0}
  /\ Categories = 1..Len(Weights)
  /\ \A c \in Categories : /\ Weights[c] \in Nat
                           /\ Sums[c] \in Nat /\ Sums[c + 1] \in Nat
                           /\ Sums[c + 1] = Sums[c] + Weights[c]
  /\ Sums[1] = 0
  /\ Sums[Len(Weights) + 1] = 20
<1>1. Weights \in Seq(Nat) /\ Len(Weights) > 0
  BY WeightsAssumption
<1>2. Len(Weights) \in Nat \ {0} /\ Categories = 1..Len(Weights)
  BY <1>1 DEF Categories
<1>3. \A c \in Categories : Weights[c] \in Nat
  BY <1>1, <1>2
<1>4. Sums \in [1..(Len(Weights) + 1) -> Nat]
  BY WeightsAssumption
<1>5. \A c \in Categories : Sums[c] \in Nat /\ Sums[c + 1] \in Nat
  BY <1>2, <1>4
<1> QED BY <1>2, <1>3, <1>5, WeightsAssumption DEF Whole

LEMMA Product ==
  ASSUME NEW x \in Nat, NEW y \in Nat, x <= y, NEW w \in Nat
  PROVE  /\ x * w \in Nat /\ y * w \in Nat
         /\ x * w <= y * w
<1>1. \A m, n \in Nat : m * n \in Nat
  OBVIOUS
<1>2. y - x \in Nat
  OBVIOUS
<1>3. (y - x) * w \in Nat
  BY <1>1, <1>2
<1>4. (y - x) * w = y * w - x * w
  OBVIOUS
<1> QED BY <1>1, <1>3, <1>4

-----------------------------------------------------------------------------
(***************************************************************************)
(* The first loop.                                                         *)
(***************************************************************************)

\* The item that comes next is the first of its key if the key is new.
LEMMA FirstIsNew ==
  ASSUME IInv, pc = "listing", i <= Count
  PROVE  First(i) <=> Wanted(i) /\ Key(i) \notin seen
<1>1. i \in 1..Count /\ Done = i - 1
  BY Items DEF IInv, TypeOK, Done
<1>2. \A j \in 1..(i - 1) : Wanted(j) => Key(j) \in seen
  BY <1>1 DEF IInv, SeenInv
<1>3. \A n \in DOMAIN kept : kept[n] \in 1..(i - 1) /\ Wanted(kept[n])
  BY <1>1 DEF IInv, SeenInv, FirstsKept
<1>4. ASSUME First(i) PROVE Wanted(i) /\ Key(i) \notin seen
  <2>1. Wanted(i)
    BY <1>4 DEF First
  <2>2. Key(i) \notin Titles
    BY <1>4 DEF First, Titles
  <2>3. \A n \in DOMAIN kept : Key(kept[n]) # Key(i)
    BY <1>3, <1>4 DEF First
  <2> QED BY <2>1, <2>2, <2>3 DEF IInv, SeenInv
<1>5. ASSUME Wanted(i), Key(i) \notin seen PROVE First(i)
  <2>1. job = "report" => \A n \in DOMAIN analysis.risks : analysis.risks[n].title # Key(i)
    BY <1>5 DEF IInv, SeenInv, Titles
  <2>2. \A k \in 1..(i - 1) : Wanted(k) => Key(k) # Key(i)
    BY <1>2, <1>5
  <2> QED BY <1>5, <2>1, <2>2 DEF First
<1> QED BY <1>4, <1>5

LEMMA TakeStep == IInv /\ Take => IInv'
<1> SUFFICES ASSUME IInv, Take PROVE IInv'
  OBVIOUS
<1>1. /\ pc = "listing" /\ i <= Count /\ i' = i + 1
      /\ UNCHANGED <<pc, job, list, analysis, wish, scores, total, overall, level>>
      /\ UNCHANGED input
  BY DEF Take, input
<1>2. /\ Count' = Count /\ Titles' = Titles
      /\ \A j : Key(j)' = Key(j)
      /\ \A j : Wanted(j)' = Wanted(j)
      /\ \A j : First(j)' = First(j)
  BY <1>1, SameItems
<1>3. /\ Count \in Nat /\ i \in 1..Count /\ Key(i) \in Keys
      /\ Done = i - 1 /\ Done' = i /\ kept \in Seq(1..Count) /\ seen \subseteq Keys
  BY <1>1, Items DEF IInv, TypeOK, Done
<1>4. /\ \A j \in 1..(i - 1) : First(j) <=> \E n \in DOMAIN kept : kept[n] = j
      /\ \A n \in DOMAIN kept : kept[n] \in 1..(i - 1)
      /\ \A m, n \in DOMAIN kept : m < n => kept[m] < kept[n]
  BY <1>3 DEF IInv, FirstsKept
<1>5. /\ \A j \in 1..(i - 1) : Wanted(j) => Key(j) \in seen
      /\ Titles \subseteq seen
      /\ \A k \in seen : k \in Titles \/ \E n \in DOMAIN kept : Key(kept[n]) = k
      /\ \A n \in DOMAIN kept : Wanted(kept[n])
  BY <1>3 DEF IInv, SeenInv
<1>6. PlaceInv' /\ RateInv' /\ MeanInv' /\ JudgeInv'
  BY <1>1, <1>2, <1>3 DEF IInv, PlaceInv, RateInv, MeanInv, JudgeInv
<1>7. CASE First(i)
  <2>1. kept' = Append(kept, i) /\ seen' = seen \cup {Key(i)} /\ Wanted(i)
    BY <1>1, <1>7, FirstIsNew DEF Take
  <2>2. /\ kept' \in Seq(1..Count)
        /\ DOMAIN kept' = DOMAIN kept \cup {Len(kept) + 1}
        /\ \A n \in DOMAIN kept : kept'[n] = kept[n]
        /\ kept'[Len(kept) + 1] = i
        /\ DOMAIN kept = 1..Len(kept) /\ Len(kept) \in Nat
    BY <1>3, <2>1
  <2>3. TypeOK'
    BY <1>1, <1>2, <1>3, <2>1, <2>2 DEF IInv, TypeOK
  <2>4. FirstsKept'
    <3>1. \A j \in 1..i : First(j) <=> \E n \in DOMAIN kept' : kept'[n] = j
      BY <1>3, <1>4, <1>7, <2>2
    <3>2. \A n \in DOMAIN kept' : kept'[n] \in 1..i
      BY <1>3, <1>4, <2>2
    <3>3. \A m, n \in DOMAIN kept' : m < n => kept'[m] < kept'[n]
      BY <1>3, <1>4, <2>2
    <3> QED BY <1>2, <1>3, <3>1, <3>2, <3>3 DEF FirstsKept
  <2>5. SeenInv'
    <3>1. \A j \in 1..i : Wanted(j) => Key(j) \in seen'
      BY <1>3, <1>5, <2>1
    <3>2. \A k \in seen' : k \in Titles \/ \E n \in DOMAIN kept' : Key(kept'[n]) = k
      BY <1>5, <2>1, <2>2
    <3>3. \A n \in DOMAIN kept' : Wanted(kept'[n])
      BY <1>5, <2>1, <2>2
    <3>4. \A j \in 1..i : Wanted(j)' => Key(j)' \in seen'
      BY <1>2, <3>1
    <3>5. Titles' \subseteq seen'
      BY <1>2, <1>5, <2>1
    <3>6. \A k \in seen' : k \in Titles' \/ \E n \in DOMAIN kept' : Key(kept[n])' = k
      BY <1>1, <1>2, <3>2 DEF Key
    <3>7. \A n \in DOMAIN kept' : Wanted(kept[n])'
      BY <1>1, <3>3 DEF Wanted
    <3> QED BY <1>3, <3>4, <3>5, <3>6, <3>7 DEF SeenInv
  <2> QED BY <1>6, <2>3, <2>4, <2>5 DEF IInv
<1>8. CASE ~ First(i)
  <2>1. kept' = kept /\ seen' = seen /\ ~(Wanted(i) /\ Key(i) \notin seen)
    BY <1>1, <1>8, FirstIsNew DEF Take
  <2>2. TypeOK'
    BY <1>1, <1>2, <1>3, <2>1 DEF IInv, TypeOK
  <2>3. FirstsKept'
    <3>1. \A n \in DOMAIN kept : kept[n] # i /\ kept[n] \in 1..i
      BY <1>3, <1>4
    <3>2. \A j \in 1..i : First(j) <=> \E n \in DOMAIN kept : kept[n] = j
      BY <1>3, <1>4, <1>8, <3>1
    <3> QED BY <1>2, <1>3, <1>4, <2>1, <3>1, <3>2 DEF FirstsKept
  <2>4. SeenInv'
    <3>1. \A j \in 1..i : Wanted(j) => Key(j) \in seen
      BY <1>3, <1>5, <2>1
    <3> QED BY <1>2, <1>3, <1>5, <2>1, <3>1 DEF SeenInv
  <2> QED BY <1>6, <2>2, <2>3, <2>4 DEF IInv
<1> QED BY <1>7, <1>8

-----------------------------------------------------------------------------
(***************************************************************************)
(* The beginning and the end.                                              *)
(***************************************************************************)

\* Before a job and at the start of one nothing has been kept.
LEMMA EmptyTypes ==
  /\ <<>> \in Seq(Keys) /\ <<>> \in Seq(1..Count)
  /\ NoAnalysis \in [contradictions : Seq(Contradiction), risks : Seq(Risk),
                     assessments : Seq(Assessment)]
  /\ [c \in Categories |-> 0] \in [Categories -> 0..100]
  /\ None \notin Severities
BY OutputAssumption DEF NoAnalysis

LEMMA InitIInv == Init => IInv
<1> SUFFICES ASSUME Init PROVE IInv
  OBVIOUS
<1>1. TypeOK
  BY EmptyTypes DEF Init, TypeOK
<1>2. Done = 0 /\ Titles = {} /\ DOMAIN kept = {} /\ seen = {}
  BY DEF Init, Done, Titles
<1>3. FirstsKept /\ SeenInv
  BY <1>2 DEF FirstsKept, SeenInv
<1>4. PlaceInv /\ RateInv /\ MeanInv /\ JudgeInv
  BY <1>2 DEF Init, PlaceInv, RateInv, MeanInv, JudgeInv
<1> QED BY <1>1, <1>3, <1>4 DEF IInv

LEMMA ReceiveStep ==
  ASSUME IInv, Receive
  PROVE  IInv'
<1>1. /\ pc' = "listing" /\ i' = 1 /\ kept' = <<>> /\ total' = 0 /\ overall' = 0
      /\ level' = None /\ scores' = [c \in Categories |-> 0]
  BY DEF Receive, ReceiveList, ReceiveAnalysis, Fresh
<1>2. \/ /\ job' = "questions" /\ list' \in Lists /\ wish' \in Wishes
         /\ analysis' = NoAnalysis /\ seen' = {}
      \/ /\ job' = "report" /\ list' = <<>> /\ wish' = 0 /\ analysis' \in Analyses
         /\ seen' = {analysis'.risks[j].title : j \in DOMAIN analysis'.risks}
  BY DEF Receive, ReceiveList, ReceiveAnalysis
<1>3. /\ list' \in Seq(Keys) /\ wish' \in Int /\ job' \in {"questions", "report"}
      /\ analysis' \in [contradictions : Seq(Contradiction), risks : Seq(Risk),
                        assessments : Seq(Assessment)]
      /\ job' = "report" => AllPresent(analysis'.assessments)
  <2>1. CASE job' = "questions"
    BY <1>2, <2>1, EmptyTypes, OutputAssumption
  <2>2. CASE job' = "report"
    <3>1. list' = <<>> /\ wish' = 0 /\ analysis' \in Analyses
      BY <1>2, <2>2
    <3>2. AllPresent(analysis'.assessments)
      BY <3>1, OutputAssumption
    <3> QED BY <2>2, <3>1, <3>2, EmptyTypes, OutputAssumption
  <2> QED BY <1>2, <2>1, <2>2
<1>4. seen' = Titles' /\ seen' \subseteq Keys
  <2>1. seen' = Titles'
    BY <1>2 DEF Titles
  <2>2. \A n \in DOMAIN analysis'.risks : analysis'.risks[n] \in Risk
    BY <1>3
  <2>3. seen' \subseteq Keys
    BY <1>2, <2>2 DEF Risk
  <2> QED BY <2>1, <2>3
<1>5. Count' \in Nat
  BY <1>3 DEF Count
<1>6. <<>> \in Seq(1..Count')
  OBVIOUS
<1>7. TypeOK'
  BY <1>1, <1>3, <1>4, <1>6, EmptyTypes DEF TypeOK
<1>8. Done' = 0 /\ DOMAIN kept' = {}
  BY <1>1 DEF Done
<1>9. FirstsKept' /\ SeenInv'
  BY <1>4, <1>8 DEF FirstsKept, SeenInv
<1>10. PlaceInv'
  <2>1. i' <= Count' + 1
    <3>1. i' = 1
      BY <1>1
    <3>2. \A n \in Nat : 1 <= n + 1
      OBVIOUS
    <3> QED BY <1>5, <3>1, <3>2
  <2>2. job' = "report" => AllPresent(analysis.assessments)'
    BY <1>3 DEF AllPresent
  <2> QED BY <1>1, <2>1, <2>2 DEF PlaceInv
<1>11. RateInv' /\ MeanInv' /\ JudgeInv'
  BY <1>1 DEF RateInv, MeanInv, JudgeInv
<1> QED BY <1>7, <1>9, <1>10, <1>11 DEF IInv

LEMMA ReturnStep == IInv /\ Return => IInv'
<1> SUFFICES ASSUME IInv, Return PROVE IInv'
  OBVIOUS
<1>1. /\ pc' = "idle" /\ job' = "questions" /\ list' = <<>> /\ wish' = 0
      /\ analysis' = NoAnalysis /\ seen' = {} /\ i' = 1 /\ kept' = <<>>
      /\ scores' = [c \in Categories |-> 0] /\ total' = 0 /\ overall' = 0 /\ level' = None
  BY DEF Return, Fresh
<1>2. <<>> \in Seq(1..Count')
  OBVIOUS
<1>3. TypeOK'
  BY <1>1, <1>2, EmptyTypes DEF TypeOK
<1>4. Done' = 0 /\ Titles' = {} /\ DOMAIN kept' = {}
  BY <1>1 DEF Done, Titles
<1>5. FirstsKept' /\ SeenInv'
  BY <1>1, <1>4 DEF FirstsKept, SeenInv
<1>6. PlaceInv' /\ RateInv' /\ MeanInv' /\ JudgeInv'
  BY <1>1 DEF PlaceInv, RateInv, MeanInv, JudgeInv
<1> QED BY <1>3, <1>5, <1>6 DEF IInv

-----------------------------------------------------------------------------
(***************************************************************************)
(* The steps between: what has been kept and seen stays.                   *)
(***************************************************************************)
LEMMA SameFirsts ==
  ASSUME IInv, UNCHANGED input, UNCHANGED <<seen, kept>>, Done' = Done
  PROVE  FirstsKept' /\ SeenInv'
<1>1. /\ Count' = Count /\ Titles' = Titles
      /\ \A j : Key(j)' = Key(j)
      /\ \A j : Wanted(j)' = Wanted(j)
      /\ \A j : First(j)' = First(j)
  BY SameItems
<1>2. FirstsKept'
  BY <1>1 DEF IInv, FirstsKept
<1>3. SeenInv'
  BY <1>1 DEF IInv, SeenInv
<1> QED BY <1>2, <1>3

LEMMA ListedStep == IInv /\ Listed => IInv'
<1> SUFFICES ASSUME IInv, Listed PROVE IInv'
  OBVIOUS
<1>1. /\ pc = "listing" /\ i > Count /\ i' = 1
      /\ pc' \in {"rating", "failed", "done"}
      /\ pc' = "rating" <=> job = "report"
      /\ job # "report" => (pc' = "failed" <=> kept = <<>>)
      /\ UNCHANGED <<job, list, analysis, wish, seen, kept, scores, total, overall, level>>
      /\ UNCHANGED input
  BY DEF Listed, input
<1>2. Count' = Count /\ Count \in Nat /\ job \in {"questions", "report"}
  BY <1>1, Items, SameItems DEF IInv, TypeOK
<1>3. Done' = Done
  BY <1>1, <1>2 DEF IInv, TypeOK, PlaceInv, Done
<1>4. FirstsKept' /\ SeenInv'
  BY <1>1, <1>3, SameFirsts
<1>5. TypeOK'
  BY <1>1, <1>2 DEF IInv, TypeOK
<1>6. PlaceInv' /\ MeanInv' /\ JudgeInv'
  BY <1>1, <1>2 DEF IInv, PlaceInv, MeanInv, JudgeInv
<1>7. RateInv'
  <2>1. i' - 1 = 0 /\ Len(analysis.assessments) \in Nat /\ 1..0 = {}
    BY <1>1 DEF IInv, TypeOK
  <2> QED BY <1>1, <1>2, <2>1 DEF RateInv, RatedTo
<1> QED BY <1>4, <1>5, <1>6, <1>7 DEF IInv

LEMMA RateStep == IInv /\ Rate => IInv'
<1> SUFFICES ASSUME IInv, Rate PROVE IInv'
  OBVIOUS
<1> DEFINE as == analysis.assessments
           a == as[i]
<1>1. /\ pc = "rating" /\ i <= Len(as)
      /\ UNCHANGED <<job, list, analysis, wish, seen, kept, total, overall, level>>
      /\ UNCHANGED input
  BY DEF Rate, input
<1>2. as \in Seq(Assessment) /\ Len(as) \in Nat /\ i \in 1..Len(as) /\ a \in Assessment
  <2>1. as \in Seq(Assessment) /\ i \in Nat \ {0}
    BY DEF IInv, TypeOK
  <2> QED BY <1>1, <2>1
<1>3. job = "report" /\ Count' = Count /\ pc' # "listing" /\ pc' # "idle"
  BY <1>1, SameItems DEF IInv, PlaceInv, Rate
<1>4. Done' = Done
  BY <1>1, <1>3 DEF Done
<1>5. FirstsKept' /\ SeenInv'
  BY <1>1, <1>4, SameFirsts
<1>6. CASE a.tier \in Tiers /\ a.evidence \in Strengths
  <2>1. i' = i + 1 /\ pc' = pc /\ scores' = [scores EXCEPT ![a.category] = Score(a)]
    BY <1>6 DEF Rate
  <2>2. Score(a) \in 0..100 /\ a.category \in Categories
    BY <1>2, <1>6, ScoreRange DEF Assessment
  <2>3. TypeOK'
    BY <1>1, <1>3, <2>1, <2>2 DEF IInv, TypeOK
  <2>4. PlaceInv' /\ MeanInv' /\ JudgeInv'
    BY <1>1, <1>3, <2>1 DEF IInv, PlaceInv, MeanInv, JudgeInv
  <2>5. \A c \in Categories : (\E j \in 1..i : as[j].category = c) =>
          \E j \in 1..i : /\ as[j].category = c
                          /\ scores'[c] = Score(as[j])
                          /\ \A k \in (j + 1)..i : as[k].category # c
    <3> SUFFICES ASSUME NEW c \in Categories, NEW m \in 1..i, as[m].category = c
                 PROVE  \E j \in 1..i : /\ as[j].category = c
                                        /\ scores'[c] = Score(as[j])
                                        /\ \A k \in (j + 1)..i : as[k].category # c
      OBVIOUS
    <3>1. CASE a.category = c
      <4>1. scores'[c] = Score(a)
        BY <2>1, <2>2, <3>1 DEF IInv, TypeOK
      <4>2. \A k \in (i + 1)..i : FALSE
        BY <1>2
      <4> QED BY <1>2, <3>1, <4>1, <4>2
    <3>2. CASE a.category # c
      <4>1. m \in 1..(i - 1) /\ scores'[c] = scores[c]
        BY <1>2, <2>1, <3>2 DEF IInv, TypeOK
      <4>2. PICK j \in 1..(i - 1) : /\ as[j].category = c
                                    /\ scores[c] = Score(as[j])
                                    /\ \A k \in (j + 1)..(i - 1) : as[k].category # c
        BY <1>1, <4>1 DEF IInv, RateInv, RatedTo
      <4>3. \A k \in (j + 1)..i : as[k].category # c
        BY <1>2, <3>2, <4>2
      <4> QED BY <1>2, <4>1, <4>2, <4>3
    <3> QED BY <3>1, <3>2
  <2>6. RateInv'
    <3>1. i' - 1 = i /\ i' <= Len(as) + 1
      BY <1>2, <2>1
    <3> QED BY <1>1, <2>1, <2>5, <3>1 DEF RateInv, RatedTo
  <2> QED BY <1>5, <2>3, <2>4, <2>6 DEF IInv
<1>7. CASE ~(a.tier \in Tiers /\ a.evidence \in Strengths)
  <2>1. i' = i /\ pc' = "failed" /\ scores' = scores
    BY <1>7 DEF Rate
  <2>2. TypeOK'
    BY <1>1, <1>3, <2>1 DEF IInv, TypeOK
  <2>3. PlaceInv' /\ RateInv' /\ MeanInv' /\ JudgeInv'
    BY <1>1, <1>3, <2>1 DEF IInv, PlaceInv, RateInv, MeanInv, JudgeInv
  <2> QED BY <1>5, <2>2, <2>3 DEF IInv
<1> QED BY <1>6, <1>7

LEMMA RatedStep == IInv /\ Rated => IInv'
<1> SUFFICES ASSUME IInv, Rated PROVE IInv'
  OBVIOUS
<1>1. /\ pc = "rating" /\ i > Len(analysis.assessments) /\ pc' = "weighing" /\ i' = 1
      /\ UNCHANGED <<job, list, analysis, wish, seen, kept, scores, total, overall, level>>
      /\ UNCHANGED input
  BY DEF Rated, input
<1>2. Len(analysis.assessments) \in Nat /\ i \in Nat
  BY DEF IInv, TypeOK
<1>3. Count' = Count /\ Done' = Done
  BY <1>1, SameItems DEF Done
<1>4. FirstsKept' /\ SeenInv'
  BY <1>1, <1>3, SameFirsts
<1>5. TypeOK'
  <2>1. level' = None /\ pc' # "done"
    BY <1>1 DEF IInv, TypeOK
  <2>2. kept' \in Seq(1..Count')
    BY <1>1, <1>3 DEF IInv, TypeOK
  <2>3. /\ job' \in {"questions", "report"} /\ list' \in Seq(Keys) /\ wish' \in Int
        /\ analysis' \in [contradictions : Seq(Contradiction), risks : Seq(Risk),
                          assessments : Seq(Assessment)]
        /\ i' \in Nat \ {0} /\ seen' \subseteq Keys
    BY <1>1 DEF IInv, TypeOK
  <2>4. /\ scores' \in [Categories -> 0..100] /\ total' \in Nat /\ overall' \in 0..100
        /\ level' \in Severities \cup {None}
    BY <1>1 DEF IInv, TypeOK
  <2> QED BY <1>1, <2>1, <2>2, <2>3, <2>4 DEF TypeOK
<1>6. PlaceInv' /\ JudgeInv'
  BY <1>1, <1>3 DEF IInv, PlaceInv, JudgeInv
<1>7. RateInv'
  <2>1. i - 1 = Len(analysis.assessments)
    BY <1>1, <1>2 DEF IInv, RateInv
  <2> QED BY <1>1, <2>1 DEF IInv, RateInv, RatedTo
<1>8. MeanInv'
  <2>1. total' = 0 /\ i' - 1 = 0
    BY <1>1 DEF IInv, MeanInv
  <2>2. i' <= Len(Weights) + 1
    BY <1>1, WeightsSum
  <2>3. Sums[(i' - 1) + 1] = 0
    <3>1. (i' - 1) + 1 = 1
      BY <2>1
    <3> QED BY <3>1, WeightsSum
  <2>4. \A x \in 0..100 : x * 0 = 0
    OBVIOUS
  <2>5. Between(i - 1)'
    BY <2>1, <2>3, <2>4 DEF Between
  <2> QED BY <1>1, <2>2, <2>5 DEF MeanInv
<1> QED BY <1>4, <1>5, <1>6, <1>7, <1>8 DEF IInv

\* A term of the sum keeps it between the bounds of the scores.
LEMMA TermBetween ==
  ASSUME IInv, pc = "weighing", i <= Len(Weights)
  PROVE  /\ scores[i] * Weights[i] \in Nat
         /\ \A lo \in 0..100 : (\A d \in Categories : lo <= scores[d]) =>
              lo * Sums[i + 1] <= total + scores[i] * Weights[i]
         /\ \A hi \in 0..100 : (\A d \in Categories : scores[d] <= hi) =>
              total + scores[i] * Weights[i] <= hi * Sums[i + 1]
<1> DEFINE w == Weights[i]
           x == scores[i]
           s == Sums[i]
<1>1. i \in Categories /\ i \in Nat /\ (i - 1) + 1 = i
  BY WeightsSum DEF IInv, TypeOK
<1>2. w \in Nat /\ s \in Nat /\ Sums[i + 1] = s + w
  BY <1>1, WeightsSum
<1>3. x \in 0..100 /\ total \in Nat
  BY <1>1 DEF IInv, TypeOK
<1>4. /\ \A lo \in 0..100 : (\A d \in Categories : lo <= scores[d]) => lo * s <= total
      /\ \A hi \in 0..100 : (\A d \in Categories : scores[d] <= hi) => total <= hi * s
  BY <1>1 DEF IInv, MeanInv, Between
<1> HIDE DEF w, x, s
<1>5. x * w \in Nat
  BY <1>2, <1>3, Product
<1>6. ASSUME NEW lo \in 0..100, lo <= x, lo * s <= total
      PROVE  lo * (s + w) <= total + x * w
  <2>1. lo * w \in Nat /\ lo * w <= x * w
    BY <1>2, <1>3, <1>6, Product
  <2>2. lo * (s + w) = lo * s + lo * w
    BY <1>2
  <2>3. lo * s \in Nat
    BY <1>2, Product
  <2> QED BY <1>3, <1>5, <1>6, <2>1, <2>2, <2>3
<1>7. ASSUME NEW hi \in 0..100, x <= hi, total <= hi * s
      PROVE  total + x * w <= hi * (s + w)
  <2>1. hi * w \in Nat /\ x * w <= hi * w
    BY <1>2, <1>3, <1>7, Product
  <2>2. hi * (s + w) = hi * s + hi * w
    BY <1>2
  <2>3. hi * s \in Nat
    BY <1>2, Product
  <2> QED BY <1>3, <1>5, <1>7, <2>1, <2>2, <2>3
<1>8. \A lo \in 0..100 : (\A d \in Categories : lo <= scores[d]) => lo <= x
  BY <1>1 DEF x
<1>9. \A hi \in 0..100 : (\A d \in Categories : scores[d] <= hi) => x <= hi
  BY <1>1 DEF x
<1>10. /\ \A lo \in 0..100 : (\A d \in Categories : lo <= scores[d]) =>
            lo * (s + w) <= total + x * w
       /\ \A hi \in 0..100 : (\A d \in Categories : scores[d] <= hi) =>
            total + x * w <= hi * (s + w)
  BY <1>4, <1>6, <1>7, <1>8, <1>9
<1> QED BY <1>2, <1>5, <1>10 DEF w, x

LEMMA WeighStep == IInv /\ Weigh => IInv'
<1> SUFFICES ASSUME IInv, Weigh PROVE IInv'
  OBVIOUS
<1>1. /\ pc = "weighing" /\ i <= Len(Weights) /\ i' = i + 1
      /\ total' = total + scores[i] * Weights[i]
      /\ UNCHANGED <<pc, job, list, analysis, wish, seen, kept, scores, overall, level>>
      /\ UNCHANGED input
  BY DEF Weigh, input
<1>2. Count' = Count /\ Done' = Done
  BY <1>1, SameItems DEF Done
<1>3. FirstsKept' /\ SeenInv'
  BY <1>1, <1>2, SameFirsts
<1>4. scores[i] * Weights[i] \in Nat
  BY <1>1, TermBetween
<1>5. total' \in Nat /\ i' \in Nat \ {0}
  <2>1. total \in Nat /\ i \in Nat \ {0}
    BY DEF IInv, TypeOK
  <2> DEFINE term == scores[i] * Weights[i]
  <2>2. term \in Nat /\ total' = total + term
    BY <1>1, <1>4
  <2> HIDE DEF term
  <2> QED BY <1>1, <2>1, <2>2
<1>6. TypeOK'
  <2>1. kept' \in Seq(1..Count')
    BY <1>1, <1>2 DEF IInv, TypeOK
  <2>2. /\ UNCHANGED <<pc, job, list, analysis, wish, seen, scores, overall, level>>
    BY <1>1
  <2> QED BY <1>5, <2>1, <2>2 DEF IInv, TypeOK
<1>7. PlaceInv' /\ RateInv' /\ JudgeInv'
  BY <1>1, <1>2 DEF IInv, PlaceInv, RateInv, RatedTo, JudgeInv
<1>8. MeanInv'
  <2>1. i' - 1 = i /\ i' <= Len(Weights) + 1
    BY <1>1, WeightsSum DEF IInv, TypeOK
  <2>2. (i' - 1) + 1 = i + 1
    BY <2>1
  <2>3. Between(i - 1)'
    BY <1>1, <2>2, TermBetween DEF Between
  <2> QED BY <1>1, <2>1, <2>3 DEF MeanInv
<1> QED BY <1>3, <1>6, <1>7, <1>8 DEF IInv

LEMMA JudgeStep == IInv /\ Judge => IInv'
<1> SUFFICES ASSUME IInv, Judge PROVE IInv'
  OBVIOUS
<1>1. /\ pc = "weighing" /\ i > Len(Weights) /\ pc' = "done"
      /\ overall' \in Rounded(total) /\ level' = Level(overall')
      /\ UNCHANGED <<job, list, analysis, wish, i, seen, kept, scores, total>>
      /\ UNCHANGED input
  BY DEF Judge, input
<1>2. Count' = Count /\ Done' = Done /\ job = "report"
  BY <1>1, SameItems DEF IInv, PlaceInv, Done
<1>3. FirstsKept' /\ SeenInv'
  BY <1>1, <1>2, SameFirsts
<1>4. overall' \in 0..100
  BY <1>1 DEF Rounded
<1>5. level' \in Severities /\ level' # None
  <2>1. level' \in {"LOW", "MEDIUM", "HIGH", "CRITICAL"}
    BY <1>1 DEF Level
  <2> QED BY <2>1, OutputAssumption DEF Severities
<1>6. TypeOK'
  <2>1. kept' \in Seq(1..Count')
    BY <1>1, <1>2 DEF IInv, TypeOK
  <2>2. UNCHANGED <<job, list, analysis, wish, i, seen, scores, total>>
    BY <1>1
  <2> QED BY <1>1, <1>2, <1>4, <1>5, <2>1, <2>2 DEF IInv, TypeOK
<1>7. PlaceInv' /\ RateInv'
  BY <1>1, <1>2 DEF IInv, PlaceInv, RateInv, RatedTo
<1>8. MeanInv'
  <2>1. i - 1 = Len(Weights)
    BY <1>1, WeightsSum DEF IInv, TypeOK, MeanInv
  <2> QED BY <1>1, <2>1 DEF IInv, MeanInv, Between
<1>9. JudgeInv'
  <2>1. Risks' = Risks
    BY <1>1 DEF Risks
  <2>2. Level(overall)' = Level(overall')
    BY <2>1 DEF Level
  <2>3. Rounded(total)' = Rounded(total)
    BY <1>1 DEF Rounded
  <2> QED BY <1>1, <2>2, <2>3 DEF JudgeInv
<1> QED BY <1>3, <1>6, <1>7, <1>8, <1>9 DEF IInv

LEMMA StepIInv == IInv /\ [Next]_vars => IInv'
<1> SUFFICES ASSUME IInv, [Next]_vars PROVE IInv'
  OBVIOUS
<1>1. CASE UNCHANGED vars
  <2>1. UNCHANGED <<pc, job, list, analysis, wish, i, seen, kept, scores, total, overall, level>>
        /\ UNCHANGED input
    BY <1>1 DEF vars, input
  <2>2. Count' = Count /\ Done' = Done
    BY <2>1, SameItems DEF Done
  <2>3. FirstsKept' /\ SeenInv'
    BY <2>1, <2>2, SameFirsts
  <2>4. TypeOK'
    BY <2>1, <2>2 DEF IInv, TypeOK
  <2>5. PlaceInv' /\ RateInv'
    BY <2>1, <2>2 DEF IInv, PlaceInv, RateInv, RatedTo
  <2>6. MeanInv'
    BY <2>1, <2>2 DEF IInv, MeanInv, Between
  <2>7. JudgeInv'
    <3>1. Risks' = Risks
      BY <2>1 DEF Risks
    <3>2. Level(overall)' = Level(overall) /\ Rounded(total)' = Rounded(total)
      BY <2>1, <3>1 DEF Level, Rounded
    <3> QED BY <2>1, <3>2 DEF IInv, JudgeInv
  <2> QED BY <2>3, <2>4, <2>5, <2>6, <2>7 DEF IInv
<1>2. CASE Next
  BY <1>2, ReceiveStep, TakeStep, ListedStep, RateStep, RatedStep, WeighStep, JudgeStep,
     ReturnStep DEF Next
<1> QED BY <1>1, <1>2

\* IInv is an invariant of what becomes of an answer.
THEOREM Invariance == Spec => []IInv
BY InitIInv, StepIInv, PTL DEF Spec

-----------------------------------------------------------------------------
\* The loops' state, the scores, the level and the result have their types.
THEOREM TypeCorrectness == Spec => []TypeOK
<1>1. IInv => TypeOK
  BY DEF IInv
<1> QED BY <1>1, Invariance, PTL

\* Of a list of any length deduplication keeps exactly the first of each
\* text, and escalation the first of each topic that has no risk yet.
THEOREM FirstsHold == Spec => []FirstsKept
<1>1. IInv => FirstsKept
  BY DEF IInv
<1> QED BY <1>1, Invariance, PTL

\* Whatever number of questions is asked for, the cut gives no more, fewer
\* only for want of distinct ones, and none only if none were wanted.
THEOREM CutHolds == Spec => []CutIsRight
<1>1. IInv => CutIsRight
  <2> SUFFICES ASSUME IInv, pc = "done", job = "questions"
               PROVE  /\ Len(Questions) <= Len(kept)
                      /\ wish > 0 => /\ Len(Questions) \in 1..wish
                                     /\ Len(Questions) < wish => Questions = kept
                      /\ wish < 0 => Len(Questions) < Len(kept)
                      /\ wish = 0 => Questions = <<>>
    BY DEF CutIsRight
  <2> DEFINE S == 1..Count
  <2>1. kept \in Seq(S) /\ kept # <<>> /\ wish \in Int
    BY DEF IInv, TypeOK, PlaceInv
  <2> HIDE DEF S
  <2>2. Len(kept) \in Nat \ {0} /\ \A n \in 1..Len(kept) : kept[n] \in S
    BY <2>1, EmptySeq
  <2>3. /\ Cut(wish) \in 0..Len(kept)
        /\ wish >= 0 => Cut(wish) = IF wish < Len(kept) THEN wish ELSE Len(kept)
        /\ wish < 0 => Cut(wish) < Len(kept)
    BY <2>1, <2>2, CutRange DEF S
  <2>4. Len(Questions) = Cut(wish)
    <3>1. \A n \in 1..Cut(wish) : kept[n] \in S
      BY <2>2, <2>3
    <3>2. Len(SubSeq(kept, 1, Cut(wish))) = IF 1 <= Cut(wish) THEN Cut(wish) - 1 + 1 ELSE 0
      BY <2>3, <3>1, SubSeqProperties
    <3> QED BY <2>3, <3>2 DEF Questions
  <2>5. Cut(wish) = Len(kept) => Questions = kept
    BY <2>1, SubSeqFull DEF Questions
  <2>6. Cut(wish) = 0 => Questions = <<>>
    BY SubSeqEmpty DEF Questions
  <2> QED BY <2>1, <2>2, <2>3, <2>4, <2>5, <2>6
<1> QED BY <1>1, Invariance, PTL

\* No severe contradiction, however many there are, is missing from the
\* titles of the report's risks.
THEOREM SevereHolds == Spec => []SevereIsVisible
<1>1. IInv => SevereIsVisible
  <2> SUFFICES ASSUME IInv, pc = "done", job = "report",
                      NEW j \in 1..Count, Wanted(j)
               PROVE  \E r \in Risks : r.title = Key(j)
    BY DEF SevereIsVisible
  <2>1. Key(j) \in seen
    BY DEF IInv, SeenInv, Done
  <2>2. CASE Key(j) \in Titles
    <3>1. PICK n \in DOMAIN analysis.risks : analysis.risks[n].title = Key(j)
      BY <2>2 DEF Titles
    <3> QED BY <3>1 DEF Risks
  <2>3. CASE \E n \in DOMAIN kept : Key(kept[n]) = Key(j)
    <3>1. PICK n \in DOMAIN kept : Key(kept[n]) = Key(j)
      BY <2>3
    <3> DEFINE risk == [title |-> analysis.contradictions[kept[n]].topic,
                        severity |-> analysis.contradictions[kept[n]].severity]
    <3>2. risk \in Risks
      BY DEF Risks
    <3>3. risk.title = Key(j)
      BY <3>1 DEF Key
    <3> QED BY <3>2, <3>3
  <2> QED BY <2>1, <2>2, <2>3 DEF IInv, SeenInv
<1> QED BY <1>1, Invariance, PTL

\* The first contradiction of a topic is escalated as it is; the ones that it
\* hides are the finding of SeverityIsVisible.
THEOREM EscalationHolds == Spec => []FirstIsEscalated
<1>1. IInv => FirstIsEscalated
  <2> SUFFICES ASSUME IInv, pc = "done", job = "report", NEW j \in 1..Count, First(j)
               PROVE  [title |-> Key(j), severity |-> analysis.contradictions[j].severity]
                        \in Risks
    BY DEF FirstIsEscalated
  <2>1. PICK n \in DOMAIN kept : kept[n] = j
    BY DEF IInv, FirstsKept, Done
  <2>2. Key(j) = analysis.contradictions[j].topic
    BY DEF Key
  <2> QED BY <2>1, <2>2 DEF Risks
<1> QED BY <1>1, Invariance, PTL

\* However often a category is assessed, its score is the last one's.
THEOREM LastAssessmentHolds == Spec => []LastAssessmentCounts
<1>1. IInv => LastAssessmentCounts
  <2> SUFFICES ASSUME IInv, pc = "done", job = "report", NEW c \in Categories
               PROVE  \E j \in DOMAIN analysis.assessments :
                        /\ analysis.assessments[j].category = c
                        /\ scores[c] = Score(analysis.assessments[j])
                        /\ \A k \in DOMAIN analysis.assessments :
                             k > j => analysis.assessments[k].category # c
    BY DEF LastAssessmentCounts
  <2> DEFINE as == analysis.assessments
             n == Len(as)
  <2>1. n \in Nat /\ DOMAIN as = 1..n
    BY DEF IInv, TypeOK
  <2>2. \E j \in 1..n : as[j].category = c
    BY <2>1 DEF IInv, PlaceInv, AllPresent
  <2>3. PICK j \in 1..n : /\ as[j].category = c
                          /\ scores[c] = Score(as[j])
                          /\ \A k \in (j + 1)..n : as[k].category # c
    BY <2>2 DEF IInv, RateInv, RatedTo
  <2>4. \A k \in 1..n : k > j => k \in (j + 1)..n
    BY <2>1
  <2> QED BY <2>1, <2>3, <2>4
<1> QED BY <1>1, Invariance, PTL

\* For all weights that sum to the whole, the overall score is between the
\* least and the greatest score of a category, rounding included.
THEOREM MeanHolds == Spec => []OverallIsMean
<1>1. IInv => OverallIsMean
  <2> SUFFICES ASSUME IInv, pc = "done", job = "report"
               PROVE  /\ \E c \in Categories : scores[c] <= overall
                      /\ \E c \in Categories : overall <= scores[c]
    BY DEF OverallIsMean
  <2>1. /\ overall \in 0..100 /\ total \in Nat
        /\ 20 * overall - total \in -10..10
    BY DEF IInv, TypeOK, JudgeInv, Rounded, Whole
  <2>2. \A c \in Categories : scores[c] \in 0..100
    BY DEF IInv, TypeOK
  <2>3. /\ \A lo \in 0..100 : (\A d \in Categories : lo <= scores[d]) => lo * 20 <= total
        /\ \A hi \in 0..100 : (\A d \in Categories : scores[d] <= hi) => total <= hi * 20
    BY WeightsSum DEF IInv, MeanInv, Between
  <2>4. 1 \in Categories
    BY WeightsSum
  <2>5. \E c \in Categories : scores[c] <= overall
    <3> SUFFICES ASSUME \A c \in Categories : ~(scores[c] <= overall) PROVE FALSE
      OBVIOUS
    <3>1. \A c \in Categories : overall + 1 <= scores[c]
      BY <2>1, <2>2
    <3>2. overall + 1 \in 0..100
      BY <2>1, <2>2, <2>4, <3>1
    <3>3. (overall + 1) * 20 <= total
      BY <2>3, <3>1, <3>2
    <3> QED BY <2>1, <3>3
  <2>6. \E c \in Categories : overall <= scores[c]
    <3> SUFFICES ASSUME \A c \in Categories : ~(overall <= scores[c]) PROVE FALSE
      OBVIOUS
    <3>1. \A c \in Categories : scores[c] <= overall - 1
      BY <2>1, <2>2
    <3>2. overall - 1 \in 0..100
      BY <2>1, <2>2, <2>4, <3>1
    <3>3. total <= (overall - 1) * 20
      BY <2>3, <3>1, <3>2
    <3> QED BY <2>1, <3>3
  <2> QED BY <2>5, <2>6
<1> QED BY <1>1, Invariance, PTL

\* No report is better than its CRITICAL risks or, by more than half a
\* tenth, its weighted scores allow.
THEOREM LevelHolds == Spec => []LevelIsSound
<1>1. IInv => LevelIsSound
  <2> DEFINE critical == \E r \in Risks : r.severity = "CRITICAL"
  <2> SUFFICES ASSUME IInv, pc = "done", job = "report"
               PROVE  /\ critical => level = "CRITICAL"
                      /\ level = "LOW" => total >= Whole * 80 - 10
                      /\ level \in {"LOW", "MEDIUM"} => total >= Whole * 60 - 10
                      /\ level = "CRITICAL" => total <= Whole * 40 - 10 \/ critical
    BY DEF LevelIsSound
  <2>1. /\ overall \in 0..100 /\ total \in Nat
        /\ 20 * overall - total \in -10..10
    BY DEF IInv, TypeOK, JudgeInv, Rounded, Whole
  <2>2. level = IF critical THEN "CRITICAL"
                ELSE IF overall >= 80 THEN "LOW"
                ELSE IF overall >= 60 THEN "MEDIUM"
                ELSE IF overall >= 40 THEN "HIGH"
                ELSE "CRITICAL"
    BY DEF IInv, JudgeInv, Level
  <2> HIDE DEF critical
  <2>3. /\ critical => level = "CRITICAL"
        /\ level = "LOW" => overall >= 80
        /\ level \in {"LOW", "MEDIUM"} => overall >= 60
        /\ level = "CRITICAL" => overall < 40 \/ critical
    BY <2>1, <2>2
  <2> QED BY <2>1, <2>3 DEF Whole
<1> QED BY <1>1, Invariance, PTL

\* The questions asked and the contradictions escalated are the right ones.
THEOREM ListsHold == Spec => []ListsAreRight
BY FirstsHold, CutHolds, PTL DEF ListsAreRight

\* The scores are those of the last assessments and their weighted mean.
THEOREM ScoresHold == Spec => []ScoresAreRight
BY LastAssessmentHolds, MeanHolds, PTL DEF ScoresAreRight

\* Nothing severe is lost between the contradictions and the level.
THEOREM ReportSound == Spec => []ReportIsSound
BY SevereHolds, EscalationHolds, LevelHolds, PTL DEF ReportIsSound

-----------------------------------------------------------------------------
(***************************************************************************)
(* Two assessments, two reports: how the scores and the level compare.  No *)
(* run of one report at a time can say.                                    *)
(***************************************************************************)
TierRank == [Excellent |-> 5, Strong |-> 4, Moderate |-> 3, Weak |-> 2, Critical |-> 1]

StrengthRank == [High |-> 3, Medium |-> 2, Low |-> 1]

LevelRank == [LOW |-> 1, MEDIUM |-> 2, HIGH |-> 3, CRITICAL |-> 4]

\* score_category orders the assessments by tier and, within a tier, by the
\* strength of the evidence: no evidence makes up for a tier, and the clamp
\* to 0..100 makes no two of them equal.
THEOREM ScoreOrders ==
  ASSUME NEW a \in Assessment, a.tier \in Tiers, a.evidence \in Strengths,
         NEW b \in Assessment, b.tier \in Tiers, b.evidence \in Strengths
  PROVE  Score(a) < Score(b) <=>
           \/ TierRank[a.tier] < TierRank[b.tier]
           \/ /\ a.tier = b.tier
              /\ StrengthRank[a.evidence] < StrengthRank[b.evidence]
<1>1. ASSUME NEW c \in Assessment, c.tier \in Tiers, c.evidence \in Strengths
      PROVE  /\ TierRank[c.tier] \in 1..5
             /\ Adjustment[c.evidence] = IF c.evidence = "High" THEN 4
                                         ELSE IF c.evidence = "Low" THEN -6 ELSE 0
             /\ StrengthRank[c.evidence] = IF c.evidence = "High" THEN 3
                                           ELSE IF c.evidence = "Low" THEN 1 ELSE 2
             /\ Score(c) = Base[c.tier] + Adjustment[c.evidence]
             /\ Base[c.tier] = IF TierRank[c.tier] = 1 THEN 10
                               ELSE 20 * TierRank[c.tier] - 5
  <2>1. /\ TierRank[c.tier] \in 1..5
        /\ Base[c.tier] = IF TierRank[c.tier] = 1 THEN 10
                          ELSE 20 * TierRank[c.tier] - 5
    BY <1>1 DEF TierRank, Base, Tiers
  <2>2. /\ Adjustment[c.evidence] = IF c.evidence = "High" THEN 4
                                    ELSE IF c.evidence = "Low" THEN -6 ELSE 0
        /\ StrengthRank[c.evidence] = IF c.evidence = "High" THEN 3
                                      ELSE IF c.evidence = "Low" THEN 1 ELSE 2
    BY <1>1 DEF Adjustment, StrengthRank, Strengths
  <2>3. Score(c) = Base[c.tier] + Adjustment[c.evidence]
    BY <2>1, <2>2 DEF Score, Most, Least
  <2> QED BY <2>1, <2>2, <2>3
<1>2. TierRank[a.tier] = TierRank[b.tier] <=> a.tier = b.tier
  BY DEF TierRank, Tiers
<1> QED BY <1>1, <1>2 DEF Strengths

\* Of two reports with the same risks the one with the greater sum has no
\* lower overall score and no worse level, rounding and thresholds included.
THEOREM LevelFollowsSum ==
  ASSUME NEW s \in Nat, NEW t \in Nat, s < t,
         NEW m \in Rounded(s), NEW n \in Rounded(t)
  PROVE  /\ m <= n
         /\ LevelRank[Level(n)] <= LevelRank[Level(m)]
<1>1. m \in 0..100 /\ n \in 0..100 /\ 20 * m - s <= 10 /\ 20 * n - t >= -10
  BY DEF Rounded, Whole
<1>2. m <= n
  BY <1>1
<1>3. LevelRank["LOW"] = 1 /\ LevelRank["MEDIUM"] = 2 /\ LevelRank["HIGH"] = 3
      /\ LevelRank["CRITICAL"] = 4
  BY DEF LevelRank
<1>4. LevelRank[Level(n)] <= LevelRank[Level(m)]
  <2> DEFINE critical == \E r \in Risks : r.severity = "CRITICAL"
  <2>1. CASE critical
    BY <1>3, <2>1 DEF Level
  <2>2. CASE ~ critical
    <3> HIDE DEF critical
    <3> QED BY <1>1, <1>2, <1>3, <2>2 DEF Level, critical
  <2> QED BY <2>1, <2>2
<1> QED BY <1>2, <1>4
=============================================================================
