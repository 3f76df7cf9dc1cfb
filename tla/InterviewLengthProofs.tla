------------------------ MODULE InterviewLengthProofs ------------------------
(***************************************************************************)
(* Proofs about how long an interview can be, from the inductive invariant *)
(* of InterviewProofs: it shrinks with every answer, it takes a bounded    *)
(* number of them, and as long as it is open there is a question to ask.   *)
(***************************************************************************)
EXTENDS InterviewProofs, FiniteSetTheorems

\* The questions the settings allow for.
Allowed == Ranks \X (1..(MaxFollowups + 1))

LEMMA LastAllowed ==
  ASSUME IInv, NEW t \in Ranks
  PROVE  /\ Len(thread[t]) \in 1..(MaxFollowups + 1)
         /\ <<t, Len(thread[t])>> \in Allowed
<1>1. Len(thread[t]) \in Nat
  BY DEF IInv, TypeOK
<1>2. Len(thread[t]) > 0 /\ Len(thread[t]) <= MaxFollowups + 1
  BY DEF IInv, TablesInv, DepthCap
<1>3. MaxFollowups \in Nat
  BY ConfigAssumption
<1> QED BY <1>1, <1>2, <1>3 DEF Allowed

\* A question that is open is still to be asked for.
LEMMA PendingStillToAsk ==
  ASSUME IInv
  PROVE  Pending \subseteq StillToAsk
<1> SUFFICES ASSUME NEW q \in Pending PROVE q \in StillToAsk
  OBVIOUS
<1>1. q \in Questions /\ q \notin answered
  BY DEF Pending
<1>2. PICK t \in Ranks : \E i \in 1..Len(thread[t]) : q = <<t, i>>
  BY <1>1, QuestionsTyped DEF IInv
<1>3. q = <<t, Len(thread[t])>>
  BY <1>1, <1>2 DEF IInv, TablesInv, OnePendingPerThread
<1>4. Len(thread[t]) \in 1..(MaxFollowups + 1)
  BY LastAllowed
<1> QED BY <1>1, <1>3, <1>4 DEF StillToAsk

\* An answered question is not, nor is one beyond the settings.
LEMMA AnsweredAllowed ==
  ASSUME IInv
  PROVE  /\ answered \subseteq Allowed
         /\ answered \cap StillToAsk = {}
<1> SUFFICES ASSUME NEW q \in answered
             PROVE  q \in Allowed /\ q \notin StillToAsk
  OBVIOUS
<1>1. q \in Questions
  BY DEF IInv, TablesInv
<1>2. PICK t \in Ranks : \E i \in 1..Len(thread[t]) : q = <<t, i>>
  BY <1>1, QuestionsTyped DEF IInv
<1>3. Len(thread[t]) \in 1..(MaxFollowups + 1) /\ MaxFollowups \in Nat
  BY LastAllowed, ConfigAssumption
<1>4. q \in Allowed
  BY <1>2, <1>3 DEF Allowed
<1>5. ASSUME q \in StillToAsk PROVE FALSE
  <2>1. q[1] = t /\ q[2] >= Len(thread[t]) /\ <<t, Len(thread[t])>> \notin answered
    BY <1>2, <1>5 DEF StillToAsk
  <2>2. q = <<t, Len(thread[t])>>
    BY <1>2, <1>3, <2>1
  <2> QED BY <2>1, <2>2
<1> QED BY <1>4, <1>5

-----------------------------------------------------------------------------
(***************************************************************************)
(* The interview shrinks.                                                  *)
(***************************************************************************)

\* Only the two transactions that store an answer change a question.
LEMMA QuestionsMove ==
  ASSUME NEW r \in Requests, Arrive(r) \/ Proceed(r) \/ Crash(r)
  PROVE  CommitFollowup(r) \/ CommitAnswer(r) \/ UNCHANGED <<thread, answered, answers>>
<1>1. CASE UNCHANGED db
  BY <1>1 DEF db
<1>2. CASE CloseSession(r) \/ StoreReport(r)
  BY <1>2 DEF CloseSession, StoreReport
<1>3. CASE Arrive(r)
  BY <1>1, <1>3 DEF Arrive, Reject, ReadQuestion, BeginComplete, GetReport, Respond, Begin
<1>4. CASE Crash(r) \/ Flush(r) \/ DecisionFails(r) \/ ReadNext(r) \/ CheckComplete(r)
           \/ ReportFails(r)
  BY <1>1, <1>4 DEF Crash, Flush, DecisionFails, ReadNext, CheckComplete, ReportFails
<1>5. CASE ReadTurns(r) \/ ReadFollowups(r) \/ Decide(r) \/ BuildReport(r)
  BY <1>1, <1>5 DEF ReadTurns, ReadFollowups, Decide, BuildReport, db
<1> QED BY <1>2, <1>3, <1>4, <1>5 DEF Proceed

\* A transaction that answers the last question of thread t, which is n long,
\* and adds at most one to it takes that question off those still to be
\* asked, and puts none on.
LEMMA AnsweringShrinks ==
  ASSUME NEW t \in Ranks, NEW n \in Nat \ {0}, n <= MaxFollowups + 1,
         Len(thread[t]) = n, <<t, n>> \notin answered,
         answered' = answered \cup {<<t, n>>},
         Len(thread'[t]) \in {n, n + 1},
         \A u \in Ranks \ {t} : Len(thread'[u]) = Len(thread[u])
  PROVE  StillToAsk' \subseteq StillToAsk /\ StillToAsk' # StillToAsk
<1>1. MaxFollowups \in Nat
  BY ConfigAssumption
<1>2. <<t, n>> \in StillToAsk
  BY <1>1 DEF StillToAsk
<1>3. /\ StillToAsk' \subseteq Ranks \X (1..(MaxFollowups + 1))
      /\ \A u \in Ranks : \A i \in 1..(MaxFollowups + 1) :
           <<u, i>> \in StillToAsk' =>
             <<u, Len(thread'[u])>> \notin answered' /\ i >= Len(thread'[u])
  BY DEF StillToAsk
<1>4. <<t, n>> \notin StillToAsk'
  <2>1. n \in 1..(MaxFollowups + 1)
    BY <1>1
  <2>2. <<t, n>> \in StillToAsk' =>
          <<t, Len(thread'[t])>> \notin answered' /\ n >= Len(thread'[t])
    BY <1>3, <2>1
  <2>3. ~ (n >= n + 1)
    OBVIOUS
  <2> QED BY <2>2, <2>3
<1>5. ASSUME NEW q \in StillToAsk' PROVE q \in StillToAsk
  <2>1. PICK u \in Ranks, i \in 1..(MaxFollowups + 1) : q = <<u, i>>
    BY <1>3, <1>5
  <2>2. <<u, Len(thread'[u])>> \notin answered' /\ i >= Len(thread'[u])
    BY <1>3, <1>5, <2>1
  <2>3. CASE u = t
    BY <2>1, <2>2, <2>3 DEF StillToAsk
  <2>4. CASE u # t
    BY <2>1, <2>2, <2>4 DEF StillToAsk
  <2> QED BY <2>3, <2>4
<1> QED BY <1>2, <1>4, <1>5

LEMMA CommitShrinks ==
  ASSUME IInv, TypeOK', NEW r \in Requests, CommitFollowup(r) \/ CommitAnswer(r)
  PROVE  StillToAsk' \subseteq StillToAsk /\ StillToAsk' # StillToAsk
<1> DEFINE t == target[r][1]
           n == Len(thread[t])
<1>1. pc[r] = "decided" /\ StoreAnswer(r)
  BY DEF CommitFollowup, CommitAnswer
<1>2. /\ t \in Ranks /\ n \in Nat \ {0} /\ target[r] = <<t, n>>
      /\ <<t, n>> \notin answered
  BY <1>1, HolderLast DEF Holding
<1>3. answered' = answered \cup {<<t, n>>}
  BY <1>1, <1>2 DEF StoreAnswer
<1>4. n <= MaxFollowups + 1
  BY <1>2, LastAllowed
<1>5. /\ Len(thread'[t]) \in {n, n + 1}
      /\ \A u \in Ranks \ {t} : Len(thread'[u]) = Len(thread[u])
  <2>1. CASE CommitFollowup(r)
    <3>1. thread' = [thread EXCEPT ![t] = Append(@, decision[r].question)]
      BY <2>1 DEF CommitFollowup
    <3>2. decision[r].question \in Texts /\ thread \in [Ranks -> Seq(Texts)]
      BY <2>1 DEF CommitFollowup, AsksFollowup, FollowupDecision, IInv, TypeOK
    <3>3. /\ thread'[t] = Append(thread[t], decision[r].question)
          /\ \A u \in Ranks \ {t} : thread'[u] = thread[u]
      BY <1>2, <3>1, <3>2
    <3> QED BY <1>2, <3>2, <3>3
  <2>2. CASE CommitAnswer(r)
    BY <2>2 DEF CommitAnswer
  <2> QED BY <2>1, <2>2
<1> HIDE DEF t
<1> QED BY <1>2, <1>3, <1>4, <1>5, AnsweringShrinks

LEMMA ShrinkStep ==
  ASSUME IInv, IInv', Pending' \subseteq StillToAsk', [Next]_vars
  PROVE  /\ StillToAsk' \subseteq StillToAsk
         /\ answers' # answers => StillToAsk' # StillToAsk
         /\ Pending' \subseteq StillToAsk'
<1>1. CASE UNCHANGED <<thread, answered, answers>>
  BY <1>1 DEF StillToAsk
<1>2. ASSUME NEW r \in Requests, CommitFollowup(r) \/ CommitAnswer(r)
      PROVE  StillToAsk' \subseteq StillToAsk /\ StillToAsk' # StillToAsk
  BY <1>2, CommitShrinks DEF IInv
<1>3. CASE UNCHANGED vars
  BY <1>1, <1>3 DEF vars, db
<1> QED BY <1>1, <1>2, <1>3, QuestionsMove DEF Next

\* Every answer accepted brings the interview nearer to its end, whatever
\* else is in flight: CommitFollowup puts a question one deeper in the place
\* of the one it answers, and the depth cap leaves that many.
THEOREM Shrinks == Spec => InterviewShrinks
<1>1. IInv => Pending \subseteq StillToAsk
  BY PendingStillToAsk
<1>2. IInv /\ IInv' /\ (Pending \subseteq StillToAsk)' /\ [Next]_vars =>
        [/\ StillToAsk' \subseteq StillToAsk
         /\ answers' # answers => StillToAsk' # StillToAsk
         /\ Pending' \subseteq StillToAsk']_vars
  BY ShrinkStep
<1> QED BY <1>1, <1>2, Invariance, PTL DEF Spec, InterviewShrinks

-----------------------------------------------------------------------------
(***************************************************************************)
(* The number of answers.                                                  *)
(***************************************************************************)
LEMMA AllowedFinite ==
  /\ IsFiniteSet(Allowed)
  /\ Cardinality(Allowed) = NumQuestions * (MaxFollowups + 1)
<1>1. NumQuestions \in Nat \ {0} /\ MaxFollowups \in Nat
  BY ConfigAssumption
<1>2. IsFiniteSet(Ranks) /\ Cardinality(Ranks) = NumQuestions
  BY <1>1, FS_Interval DEF Ranks
<1>3. /\ IsFiniteSet(1..(MaxFollowups + 1))
      /\ Cardinality(1..(MaxFollowups + 1)) = MaxFollowups + 1
  <2>1. MaxFollowups + 1 \in Int /\ ~ (1 > MaxFollowups + 1)
    BY <1>1
  <2> QED BY <1>1, <2>1, FS_Interval
<1> QED BY <1>2, <1>3, FS_Product DEF Allowed

\* The answers and the questions still to be asked fit in the questions the
\* settings allow for, side by side.
LEMMA AnswersFit ==
  ASSUME IInv
  PROVE  AnswersBounded
<1>1. /\ IsFiniteSet(answered) /\ IsFiniteSet(StillToAsk)
      /\ Cardinality(answered) + Cardinality(StillToAsk)
           <= NumQuestions * (MaxFollowups + 1)
  <2>1. StillToAsk \subseteq Allowed
    BY DEF StillToAsk, Allowed
  <2>2. answered \subseteq Allowed /\ answered \cap StillToAsk = {}
    BY AnsweredAllowed
  <2>3. IsFiniteSet(answered) /\ IsFiniteSet(StillToAsk)
    BY <2>1, <2>2, AllowedFinite, FS_Subset
  <2>4. Cardinality(answered \cup StillToAsk)
          = Cardinality(answered) + Cardinality(StillToAsk)
    <3>1. /\ Cardinality(answered) \in Nat /\ Cardinality(StillToAsk) \in Nat
          /\ Cardinality(answered \cap StillToAsk) = 0
      BY <2>2, <2>3, FS_CardinalityType, FS_EmptySet
    <3>2. Cardinality(answered \cup StillToAsk)
            = Cardinality(answered) + Cardinality(StillToAsk)
                - Cardinality(answered \cap StillToAsk)
      BY <2>3, FS_Union
    <3> QED BY <3>1, <3>2
  <2>5. Cardinality(answered \cup StillToAsk) <= Cardinality(Allowed)
    BY <2>1, <2>2, AllowedFinite, FS_Subset
  <2> QED BY <2>3, <2>4, <2>5, AllowedFinite
<1>2. IsFiniteSet(answers) /\ Cardinality(answers) <= Cardinality(answered)
  <2> DEFINE f == [a \in answers |-> a.question]
  <2>1. f \in [answers -> answered]
    BY DEF IInv, TablesInv, OneAnswerEach
  <2>2. \A a, b \in answers : f[a] = f[b] => a = b
    BY DEF IInv, TablesInv, OneAnswerEach
  <2>3. f \in Injection(answers, answered)
    BY <2>1, <2>2 DEF Injection, IsInjective
  <2> HIDE DEF f
  <2> QED BY <1>1, <2>3, FS_Injection
<1>3. /\ Cardinality(answers) \in Nat /\ Cardinality(answered) \in Nat
      /\ Cardinality(StillToAsk) \in Nat
  BY <1>1, <1>2, FS_CardinalityType
<1>4. NumQuestions * (MaxFollowups + 1) \in Nat
  BY ConfigAssumption
<1> HIDE DEF IInv
<1> QED BY <1>1, <1>2, <1>3, <1>4 DEF AnswersBounded

\* However the submits of a session interleave, it takes no more answers
\* than its number of questions times one more than its follow-ups.
THEOREM AnswersAreBounded == Spec => []AnswersBounded
<1>1. IInv => AnswersBounded
  BY AnswersFit
<1> QED BY <1>1, Invariance, PTL

-----------------------------------------------------------------------------
(***************************************************************************)
(* The current question.                                                   *)
(***************************************************************************)

\* A set of ranks has a least one.
LEMMA LeastRank ==
  ASSUME NEW T \in SUBSET Ranks, T # {}
  PROVE  \E t \in T : \A u \in T : t <= u
<1>1. T \subseteq Nat
  BY ConfigAssumption DEF Ranks
<1>2. PICK t \in T : \A u \in T : ~ (<<u, t>> \in OpToRel(<, Nat))
  BY <1>1, NatLessThanWellFounded, WFMin
<1>3. ASSUME NEW u \in T PROVE t <= u
  <2>1. u \in Nat /\ t \in Nat
    BY <1>1
  <2>2. ~ (u < t)
    BY <1>2, <2>1 DEF OpToRel
  <2> QED BY <2>1, <2>2
<1> QED BY <1>3

\* Of two open questions the one of the lower rank is asked first: a thread
\* has no second one.
LEMMA CurrentExists ==
  ASSUME IInv, Pending # {}
  PROVE  \E q \in Pending : \A p \in Pending : IsCurrent(p) <=> p = q
<1> DEFINE T == {p[1] : p \in Pending}
<1>1. \A p \in Pending : p[1] \in Ranks /\ p = <<p[1], Len(thread[p[1]])>>
                          /\ Len(thread[p[1]]) \in Nat
  <2> SUFFICES ASSUME NEW p \in Pending
               PROVE  /\ p[1] \in Ranks /\ p = <<p[1], Len(thread[p[1]])>>
                      /\ Len(thread[p[1]]) \in Nat
    OBVIOUS
  <2>1. p \in Questions /\ p \notin answered
    BY DEF Pending
  <2>2. PICK t \in Ranks : \E i \in 1..Len(thread[t]) : p = <<t, i>>
    BY <2>1, QuestionsTyped DEF IInv
  <2>3. p[2] = Len(thread[p[1]])
    BY <2>1 DEF IInv, TablesInv, OnePendingPerThread
  <2>4. Len(thread[t]) \in Nat
    BY DEF IInv, TypeOK
  <2> QED BY <2>2, <2>3, <2>4
<1>2. T \in SUBSET Ranks /\ T # {}
  BY <1>1
<1>3. PICK t \in T : \A u \in T : t <= u
  BY <1>2, LeastRank
<1>4. PICK q \in Pending : q[1] = t
  OBVIOUS
<1>5. \A p \in Pending : p[1] \in Nat /\ q[1] <= p[1] /\ (p[1] = q[1] => p = q)
  BY <1>1, <1>3, <1>4, ConfigAssumption DEF Ranks
<1>6. \A p \in Pending : p[2] \in Nat
  BY <1>1
<1>7. IsCurrent(q)
  BY <1>5, <1>6 DEF IsCurrent, Precedes
<1>8. ASSUME NEW p \in Pending, IsCurrent(p) PROVE p = q
  <2>1. ~ Precedes(q, p)
    BY <1>8 DEF IsCurrent
  <2> QED BY <1>5, <2>1 DEF Precedes
<1> QED BY <1>7, <1>8

\* get_current_question has exactly one answer whenever a question is open:
\* its ORDER BY leaves no tie.
THEOREM CurrentDefined == Spec => []CurrentIsDefined
<1>1. IInv => CurrentIsDefined
  BY CurrentExists DEF CurrentIsDefined
<1> QED BY <1>1, Invariance, PTL
=============================================================================
