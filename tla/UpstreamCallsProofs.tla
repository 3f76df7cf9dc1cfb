------------------------ MODULE UpstreamCallsProofs ------------------------
(***************************************************************************)
(* Proofs about UpstreamCalls, for every number of retries and repairs and *)
(* every size of a query.                                                  *)
(***************************************************************************)
EXTENDS UpstreamCalls, TLAPS

-----------------------------------------------------------------------------
(***************************************************************************)
(* The inductive invariant: in each place, between which numbers of        *)
(* requests the handler can have got there.                                *)
(***************************************************************************)

\* Requests that a number of used up completions can have cost.
Spent(n) == (RagRetries + 1) + n * (LlmRetries + 1)

\* Where the handler is bounds what it has sent, from both sides.
CountInv ==
  /\ pc = "retrieving" => requests = ragTries /\ attempt = 0 /\ llmTries = 0
  /\ pc = "completing" => /\ requests >= Retrieval + attempt + llmTries
                          /\ requests <= Spent(attempt) + llmTries
  /\ pc = "parsing"    => /\ requests >= Retrieval + 1 + attempt + llmTries
                          /\ requests <= Spent(attempt) + llmTries + 1

\* Until the LLM is asked only retries have been waited for.
WaitInv ==
  /\ pc = "retrieving" => timeouts <= ragTries
  /\ pc \in {"completing", "parsing"} => timeouts <= RagRetries
  /\ timeouts <= RagRetries + 1

\* Over HTTP the last retry is the only one that is not counted as such; in
\* the process there is none.
RetryInv == ragMode = "in_process" => ragTries = 0

\* The LLM is asked with what RAG was asked for, be it nothing.
ContextInv ==
  /\ pc = "retrieving" => context = "none"
  /\ pc \in {"completing", "parsing"} => context \in {"empty", "chunks"}

IInv ==
  /\ TypeOK
  /\ CountInv
  /\ WaitInv
  /\ RetryInv
  /\ ContextInv
  /\ RequestBudget
  /\ GivesUpExhausted

\* The nested loops' bound: a completion fits in what is left of the budget.
LEMMA Spending ==
  ASSUME NEW n \in 0..Repairs
  PROVE  /\ Spent(n) \in Nat
         /\ Spent(n) + LlmRetries + 1 = Spent(n + 1)
         /\ Spent(n) + LlmRetries + 1 <= Budget
         /\ Spent(0) = RagRetries + 1
         /\ Budget \in Nat
<1>1. RagRetries \in Nat /\ LlmRetries \in Nat /\ Repairs \in Nat
  BY CallsAssumption
<1>2. \A k, m \in Nat : k * m \in Nat
  OBVIOUS
<1>3. n \in Nat /\ n + 1 \in Nat /\ LlmRetries + 1 \in Nat
  BY <1>1
<1>4. n * (LlmRetries + 1) + (LlmRetries + 1) = (n + 1) * (LlmRetries + 1)
  BY <1>3
<1>5. (Repairs - n) * (LlmRetries + 1) >= 0
  <2>1. Repairs - n \in Nat
    BY <1>1
  <2> QED BY <2>1, <1>2, <1>3
<1>6. (Repairs - n) * (LlmRetries + 1) + (n + 1) * (LlmRetries + 1)
        = (Repairs + 1) * (LlmRetries + 1)
  BY <1>1, <1>3
<1>7. /\ n * (LlmRetries + 1) \in Nat
      /\ (n + 1) * (LlmRetries + 1) \in Nat
      /\ (Repairs + 1) * (LlmRetries + 1) \in Nat
      /\ (Repairs - n) * (LlmRetries + 1) \in Nat
      /\ 0 * (LlmRetries + 1) = 0
  <2>1. Repairs + 1 \in Nat /\ Repairs - n \in Nat
    BY <1>1
  <2> QED BY <2>1, <1>2, <1>3
<1> QED BY <1>1, <1>4, <1>5, <1>6, <1>7 DEF Spent, Budget

\* A request is counted: the bound of the model is never met.
LEMMA RequestCounts ==
  ASSUME IInv, NEW n \in 0..1, Request(n),
         pc \in {"retrieving", "completing"}
  PROVE  /\ requests' = requests + n
         /\ requests + 1 <= Budget
         /\ requests + 1 \in 0..MaxRequests
         /\ requests \in Nat
<1> DEFINE S == Spent(attempt)
<1>1. /\ S \in Nat
      /\ S + LlmRetries + 1 <= Budget
      /\ Budget \in Nat
      /\ Spent(0) = RagRetries + 1
  BY Spending DEF IInv, TypeOK
<1>2. requests < S + LlmRetries + 1
  BY <1>1, CallsAssumption DEF IInv, TypeOK, CountInv
<1> HIDE DEF S
<1>3. requests + 1 <= Budget /\ requests \in Nat
  BY <1>1, <1>2, CallsAssumption DEF IInv, TypeOK
<1> QED BY <1>1, <1>3, CallsAssumption DEF Request

LEMMA InitIInv == Init => IInv
<1>1. Budget \in Nat
  BY Spending, CallsAssumption
<1> QED BY <1>1, CallsAssumption DEF Init, IInv, TypeOK, CountInv, WaitInv, RetryInv, ContextInv,
        RequestBudget, GivesUpExhausted, Locations, Contexts, Causes

-----------------------------------------------------------------------------
(***************************************************************************)
(* The steps.                                                              *)
(***************************************************************************)
LEMMA BeginStep ==
  ASSUME IInv, NEW h \in Handlers, Begin(h)
  PROVE  IInv'
<1>1. Budget \in Nat
  BY Spending, CallsAssumption
<1>2. /\ requests' = 0 /\ ragTries' = 0 /\ llmTries' = 0 /\ attempt' = 0
      /\ timeouts' = 0 /\ context' = "none"
      /\ UNCHANGED <<ragMode, llmProvider>>
  BY DEF Begin, settings
<1>3. \/ pc' = "idle" /\ cause' = "query"
      \/ pc' = "retrieving" /\ cause' = "pending"
  BY DEF Begin, End
<1> QED BY <1>1, <1>2, <1>3, CallsAssumption DEF Begin, IInv, TypeOK, CountInv, WaitInv,
        RetryInv, ContextInv, RequestBudget, GivesUpExhausted, Locations, Contexts, Causes

LEMMA RagStep ==
  ASSUME IInv, RagAnswers \/ RagFails \/ SearchFails \/ RagRejects
  PROVE  IInv'
<1>1. /\ pc = "retrieving" /\ Request(Retrieval)
      /\ UNCHANGED <<ragMode, llmProvider, handler, llmTries, attempt>>
  BY DEF RagAnswers, RagFails, SearchFails, RagRejects, Retrieving, settings
<1>2. /\ requests + 1 <= Budget
      /\ requests + 1 \in 0..MaxRequests
      /\ requests \in Nat
      /\ Retrieval \in 0..1 /\ Retrieval' = Retrieval
      /\ requests' = requests + Retrieval
      /\ ragMode = "http" => Retrieval = 1 /\ requests' = requests + 1
      /\ ragMode # "http" => Retrieval = 0 /\ requests' = requests
  <2>1. Retrieval \in 0..1 /\ Retrieval' = Retrieval
    BY <1>1 DEF Retrieval
  <2>2. ragMode = "http" => Retrieval = 1
    BY DEF Retrieval
  <2>3. ragMode # "http" => Retrieval = 0
    BY DEF Retrieval
  <2>4. /\ requests + 1 <= Budget /\ requests + 1 \in 0..MaxRequests /\ requests \in Nat
        /\ requests' = requests + Retrieval
    BY <1>1, <2>1, RequestCounts
  <2> QED BY <2>1, <2>2, <2>3, <2>4
<1>3. requests = ragTries /\ attempt = 0 /\ llmTries = 0 /\ timeouts <= ragTries
  BY <1>1 DEF IInv, CountInv, WaitInv
<1>4. Spent(0) = RagRetries + 1
  BY Spending, CallsAssumption
<1>5. CASE RagAnswers
  <2>1. /\ context' \in {"empty", "chunks"}
        /\ \/ pc' = "completing" /\ cause' = cause
           \/ pc' = "idle" /\ cause' = "no_context"
    BY <1>5 DEF RagAnswers, End
  <2>2. UNCHANGED <<ragTries, timeouts>>
    BY <1>5 DEF RagAnswers
  <2> QED BY <1>1, <1>2, <1>3, <1>4, <2>1, <2>2, CallsAssumption DEF IInv, TypeOK,
          CountInv, WaitInv, RetryInv, ContextInv, RequestBudget, GivesUpExhausted, Locations, Contexts, Causes
<1>6. CASE RagFails /\ ragTries < RagRetries
  <2>1. /\ ragMode = "http" /\ timeouts' \in {timeouts, timeouts + 1}
        /\ ragTries' = ragTries + 1 /\ pc' = pc /\ cause' = cause
        /\ context' = context
    BY <1>6 DEF RagFails
  <2> QED BY <1>1, <1>2, <1>3, <1>6, <2>1, CallsAssumption DEF IInv, TypeOK, RagModes,
          Contexts, CountInv, WaitInv, RetryInv, ContextInv, RequestBudget, GivesUpExhausted
<1>7. CASE \/ RagFails /\ ~(ragTries < RagRetries)
           \/ SearchFails
  <2>1. /\ ragTries' = ragTries /\ pc' = "idle" /\ cause' = "rag_unavailable"
        /\ context' = context
        /\ timeouts' \in {timeouts, timeouts + 1}
        /\ ragMode = "http" => ragTries = RagRetries
    BY <1>7, CallsAssumption DEF RagFails, SearchFails, End, IInv, TypeOK
  <2>2. ragMode # "http" => ragTries = 0
    BY DEF IInv, TypeOK, RagModes, RetryInv
  <2>3. requests' = Retrieval * (RagRetries + 1)
    BY <1>2, <1>3, <2>1, <2>2, CallsAssumption DEF IInv, TypeOK
  <2>4. timeouts' <= RagRetries + 1 /\ timeouts' \in Nat
    BY <1>3, <2>1, CallsAssumption DEF IInv, TypeOK
  <2>5. requests' \in 0..MaxRequests /\ requests' <= Budget
    BY <1>2, CallsAssumption DEF IInv, RequestBudget, TypeOK
  <2>6. GivesUpExhausted'
    BY <1>2, <2>1, <2>3, CallsAssumption DEF GivesUpExhausted
  <2> QED BY <1>1, <2>1, <2>4, <2>5, <2>6 DEF IInv, TypeOK, CountInv, WaitInv, RetryInv, ContextInv,
          RequestBudget, Locations, Contexts, Causes
<1>8. CASE RagRejects
  <2>1. pc' = "idle" /\ cause' = "rag_rejected" /\ UNCHANGED <<ragTries, timeouts, context>>
    BY <1>8 DEF RagRejects, End
  <2> QED BY <1>1, <1>2, <1>3, <2>1, CallsAssumption DEF IInv, TypeOK, CountInv,
          WaitInv, RetryInv, ContextInv, RequestBudget, GivesUpExhausted, Locations, Contexts, Causes
<1> QED BY <1>5, <1>6, <1>7, <1>8

LEMMA EchoStep == IInv /\ EchoAnswers => IInv'
<1> SUFFICES ASSUME IInv, EchoAnswers PROVE IInv'
  OBVIOUS
<1>1. /\ pc' = "idle" /\ cause' = "ok"
      /\ UNCHANGED <<ragMode, llmProvider, handler, ragTries, llmTries, attempt,
                     requests, timeouts, context>>
  BY DEF EchoAnswers, End, settings
<1> QED BY <1>1 DEF IInv, TypeOK, CountInv, WaitInv, RetryInv, ContextInv, RequestBudget,
        GivesUpExhausted, Locations, Contexts, Causes

LEMMA LlmStep ==
  ASSUME IInv, LlmAnswers \/ LlmFails \/ LlmTimesOut \/ LlmRejects
  PROVE  IInv'
<1>1. /\ pc = "completing" /\ Request(1)
      /\ UNCHANGED <<ragMode, llmProvider, handler, ragTries, attempt, context>>
  BY DEF LlmAnswers, LlmFails, LlmTimesOut, LlmRejects, Completing, settings
<1>2. /\ requests + 1 <= Budget
      /\ requests + 1 \in 0..MaxRequests
      /\ requests \in Nat
      /\ requests' = requests + 1
      /\ Retrieval \in 0..1 /\ Retrieval' = Retrieval
  <2>1. Retrieval \in 0..1 /\ Retrieval' = Retrieval
    BY <1>1 DEF Retrieval
  <2> QED BY <1>1, <2>1, RequestCounts
<1>3. /\ requests >= Retrieval + attempt + llmTries
      /\ requests <= Spent(attempt) + llmTries
      /\ timeouts <= RagRetries
  BY <1>1 DEF IInv, CountInv, WaitInv
<1>4. Spent(attempt) \in Nat /\ Spent(attempt)' = Spent(attempt)
  BY <1>1, Spending DEF IInv, TypeOK, Spent
<1>5. CASE LlmAnswers
  <2>1. pc' = "parsing" /\ UNCHANGED <<llmTries, timeouts, cause>>
    BY <1>5 DEF LlmAnswers
  <2> QED BY <1>1, <1>2, <1>3, <1>4, <2>1, CallsAssumption DEF IInv, TypeOK,
          CountInv, WaitInv, RetryInv, ContextInv, RequestBudget, GivesUpExhausted, Locations, Contexts, Causes
<1>6. CASE LlmFails
  <2>1. UNCHANGED timeouts
    BY <1>6 DEF LlmFails
  <2>2. CASE llmTries < LlmRetries
    <3>1. llmTries' = llmTries + 1 /\ pc' = pc /\ cause' = cause
      BY <1>6, <2>2 DEF LlmFails
    <3> QED BY <1>1, <1>2, <1>3, <1>4, <2>1, <2>2, <3>1, CallsAssumption DEF IInv, TypeOK,
            CountInv, WaitInv, RetryInv, ContextInv, RequestBudget, GivesUpExhausted
  <2>3. CASE ~(llmTries < LlmRetries)
    <3>1. llmTries' = llmTries /\ pc' = "idle" /\ cause' = "llm_unavailable"
      BY <1>6, <2>3 DEF LlmFails, End
    <3> QED BY <1>1, <1>2, <1>3, <1>4, <2>1, <2>3, <3>1, CallsAssumption DEF IInv, TypeOK,
            CountInv, WaitInv, RetryInv, ContextInv, RequestBudget, GivesUpExhausted, Locations, Contexts, Causes
  <2> QED BY <2>2, <2>3
<1>7. CASE LlmTimesOut \/ LlmRejects
  <2>1. /\ UNCHANGED llmTries
        /\ pc' = "idle" /\ cause' \in {"llm_timeout", "llm_rejected"}
        /\ timeouts' \in {timeouts, timeouts + 1}
    BY <1>7 DEF LlmTimesOut, LlmRejects, End
  <2> QED BY <1>1, <1>2, <1>3, <2>1, CallsAssumption DEF IInv, TypeOK, CountInv,
          WaitInv, RetryInv, ContextInv, RequestBudget, GivesUpExhausted, Locations, Contexts, Causes
<1> QED BY <1>5, <1>6, <1>7

LEMMA ParseStep ==
  ASSUME IInv, Parses \/ ParseFails
  PROVE  IInv'
<1>1. /\ pc = "parsing"
      /\ UNCHANGED <<ragMode, llmProvider, handler, ragTries, requests, timeouts, context>>
      /\ Retrieval \in 0..1 /\ Retrieval' = Retrieval
  BY DEF Parses, ParseFails, Judging, settings, Retrieval
<1>2. /\ requests >= Retrieval + 1 + attempt + llmTries
      /\ requests <= Spent(attempt) + llmTries + 1
      /\ timeouts <= RagRetries
  BY <1>1 DEF IInv, CountInv, WaitInv
<1>3. CASE Parses
  <2>1. pc' = "idle" /\ cause' \in {"ok", "unusable"} /\ UNCHANGED <<llmTries, attempt>>
    BY <1>3 DEF Parses, End
  <2> QED BY <1>1, <1>2, <2>1, CallsAssumption DEF IInv, TypeOK, CountInv, WaitInv,
          RetryInv, ContextInv, RequestBudget, GivesUpExhausted, Locations, Contexts, Causes
<1>4. CASE ParseFails /\ attempt < Repairs
  <2>1. /\ attempt' = attempt + 1 /\ llmTries' = 0 /\ pc' = "completing" /\ cause' = cause
    BY <1>4 DEF ParseFails
  <2>2. Spent(attempt) \in Nat /\ Spent(attempt + 1) = Spent(attempt) + LlmRetries + 1
    BY Spending DEF IInv, TypeOK
  <2>3. Spent(attempt)' = Spent(attempt + 1)
    BY <2>1 DEF Spent
  <2> QED BY <1>1, <1>2, <1>4, <2>1, <2>2, <2>3, CallsAssumption DEF IInv, TypeOK,
          CountInv, WaitInv, RetryInv, ContextInv, RequestBudget, GivesUpExhausted, Locations, Contexts, Causes
<1>5. CASE ParseFails /\ ~(attempt < Repairs)
  <2>1. /\ UNCHANGED <<attempt, llmTries>>
        /\ pc' = "idle" /\ cause' = "unparseable"
    BY <1>5 DEF ParseFails, End
  <2> QED BY <1>1, <1>2, <1>5, <2>1, CallsAssumption DEF IInv, TypeOK, CountInv,
          WaitInv, RetryInv, ContextInv, RequestBudget, GivesUpExhausted, Locations, Contexts, Causes
<1> QED BY <1>3, <1>4, <1>5

LEMMA StepIInv == IInv /\ [Next]_vars => IInv'
<1> SUFFICES ASSUME IInv, [Next]_vars PROVE IInv'
  OBVIOUS
<1>1. CASE UNCHANGED vars
  BY <1>1 DEF vars, settings, IInv, TypeOK, CountInv, WaitInv, RetryInv, ContextInv, Spent,
     Retrieval, RequestBudget, GivesUpExhausted
<1>2. CASE Next
  BY <1>2, BeginStep, RagStep, EchoStep, LlmStep, ParseStep DEF Next, Proceed
<1> QED BY <1>1, <1>2

\* IInv is an invariant of the calls of a handler.
THEOREM Invariance == Spec => []IInv
BY InitIInv, StepIInv, PTL DEF Spec

-----------------------------------------------------------------------------
\* Where the handler is, its counters and how it ends have their types.
THEOREM TypeCorrectness == Spec => []TypeOK
<1>1. IInv => TypeOK
  BY DEF IInv
<1> QED BY <1>1, Invariance, PTL

\* A handler sends at most one retrieval's requests and a completion's for
\* the prompt and for each repair, however the failures fall.
THEOREM BudgetHolds == Spec => []RequestBudget
<1>1. IInv => RequestBudget
  BY DEF IInv
<1> QED BY <1>1, Invariance, PTL

\* A handler reports an outage or an unusable answer only when its retries
\* or repairs are used up.
THEOREM GivingUpHolds == Spec => []GivesUpExhausted
<1>1. IInv => GivesUpExhausted
  BY DEF IInv
<1> QED BY <1>1, Invariance, PTL

\* However long RAG and the LLM are silent, a handler runs into at most one
\* timeout more than RAG is retried.
THEOREM TimeoutsHold == Spec => []TimeoutsBounded
<1>1. IInv => TimeoutsBounded
  BY DEF IInv, WaitInv, TimeoutsBounded
<1> QED BY <1>1, Invariance, PTL

\* The settings bound what a handler sends and what it waits for in vain.
THEOREM EffortHolds == Spec => []EffortIsBounded
BY BudgetHolds, TimeoutsHold, PTL DEF EffortIsBounded

-----------------------------------------------------------------------------
(***************************************************************************)
(* Termination.  StepsLeft is the variant of the three nested loops.       *)
(***************************************************************************)

\* A repair costs a judgement, and buys a completion with its retries.
LEMMA RepairCosts ==
  ASSUME NEW n \in 0..Repairs
  PROVE  /\ (Repairs - n) * (LlmRetries + 2) \in Nat
         /\ n < Repairs => (Repairs - (n + 1)) * (LlmRetries + 2) + LlmRetries + 2
                             = (Repairs - n) * (LlmRetries + 2)
<1>1. Repairs \in Nat /\ LlmRetries + 2 \in Nat /\ LlmRetries \in Nat
  BY CallsAssumption
<1>2. \A k, m \in Nat : k * m \in Nat
  OBVIOUS
<1>3. Repairs - n \in Nat
  BY <1>1
<1>4. ASSUME n < Repairs
      PROVE  (Repairs - (n + 1)) * (LlmRetries + 2) + LlmRetries + 2
               = (Repairs - n) * (LlmRetries + 2)
  <2> DEFINE k == Repairs - (n + 1)
  <2>1. k \in Nat /\ Repairs - n = k + 1
    BY <1>1, <1>4
  <2> HIDE DEF k
  <2>2. (k + 1) * (LlmRetries + 2) = k * (LlmRetries + 2) + (LlmRetries + 2)
    BY <1>1, <2>1
  <2>3. k * (LlmRetries + 2) \in Nat
    BY <1>1, <1>2, <2>1
  <2>4. (Repairs - n) * (LlmRetries + 2) = k * (LlmRetries + 2) + LlmRetries + 2
    BY <1>1, <2>1, <2>2, <2>3
  <2> QED BY <2>4 DEF k
<1> QED BY <1>1, <1>2, <1>3, <1>4

LEMMA StepsLeftTyped ==
  ASSUME TypeOK
  PROVE  /\ RepairsLeft \in Nat
         /\ StepsLeft \in Nat
         /\ pc # "idle" => StepsLeft > 0
<1>1. RepairsLeft \in Nat
  BY RepairCosts DEF TypeOK, RepairsLeft
<1>2. /\ LlmRetries - llmTries \in Nat /\ RagRetries - ragTries \in Nat
      /\ LlmRetries \in Nat
  BY CallsAssumption DEF TypeOK
<1> QED BY <1>1, <1>2 DEF TypeOK, Locations, StepsLeft

\* The end of a handler is the end of its steps.
LEMMA EndingNearer ==
  ASSUME TypeOK, pc # "idle", pc' = "idle"
  PROVE  StepsLeft' \in 0..(StepsLeft - 1)
<1>1. StepsLeft' = 0
  BY DEF StepsLeft
<1>2. StepsLeft \in Nat /\ StepsLeft > 0
  BY StepsLeftTyped
<1> QED BY <1>1, <1>2

LEMMA ProceedNearer ==
  ASSUME TypeOK, TypeOK', Proceed
  PROVE  StepsLeft' \in 0..(StepsLeft - 1)
<1>1. /\ RepairsLeft \in Nat /\ RepairsLeft' \in Nat
      /\ StepsLeft \in Nat /\ StepsLeft' \in Nat
  <2>1. RepairsLeft' \in Nat
    <3>1. attempt' \in 0..Repairs
      BY DEF TypeOK
    <3>2. (Repairs - attempt') * (LlmRetries + 2) \in Nat
      BY <3>1, RepairCosts
    <3> QED BY <3>2 DEF RepairsLeft
  <2>2. /\ LlmRetries - llmTries' \in Nat /\ RagRetries - ragTries' \in Nat
        /\ LlmRetries \in Nat
    <3>1. llmTries' \in 0..LlmRetries /\ ragTries' \in 0..RagRetries
      BY DEF TypeOK
    <3>2. LlmRetries \in Nat /\ RagRetries \in Nat
      BY CallsAssumption
    <3>3. \A n \in Nat : \A k \in 0..n : n - k \in Nat
      OBVIOUS
    <3> QED BY <3>1, <3>2, <3>3
  <2>3. StepsLeft' \in Nat
    BY <2>1, <2>2 DEF TypeOK, Locations, StepsLeft
  <2> QED BY <2>1, <2>3, StepsLeftTyped
<1>2. LlmRetries \in Nat /\ llmTries \in 0..LlmRetries /\ RagRetries \in Nat
      /\ ragTries \in 0..RagRetries
  BY CallsAssumption DEF TypeOK
<1>3. pc # "idle"
  BY DEF Proceed, RagAnswers, RagFails, SearchFails, RagRejects, EchoAnswers, Retrieving,
     LlmAnswers, LlmFails, LlmTimesOut, LlmRejects, Completing, Judging, Parses, ParseFails
<1>4. CASE pc' = "idle"
  BY <1>3, <1>4, EndingNearer
<1>5. CASE pc' # "idle"
  <2>1. CASE RagAnswers
    <3>1. pc = "retrieving" /\ pc' = "completing"
          /\ UNCHANGED <<attempt, llmTries, ragTries>>
      BY <1>5, <2>1 DEF RagAnswers, Retrieving, End
    <3>2. RepairsLeft' = RepairsLeft
      BY <3>1 DEF RepairsLeft
    <3> QED BY <1>1, <1>2, <3>1, <3>2 DEF StepsLeft
  <2>2. CASE RagFails
    <3>1. pc = "retrieving" /\ pc' = "retrieving" /\ ragTries' = ragTries + 1
          /\ UNCHANGED attempt
      BY <1>5, <2>2 DEF RagFails, Retrieving, End
    <3>2. RepairsLeft' = RepairsLeft
      BY <3>1 DEF RepairsLeft
    <3> QED BY <1>1, <1>2, <3>1, <3>2 DEF StepsLeft
  <2>3. CASE LlmAnswers
    <3>1. pc = "completing" /\ pc' = "parsing" /\ UNCHANGED attempt
      BY <2>3 DEF LlmAnswers, Completing
    <3>2. RepairsLeft' = RepairsLeft
      BY <3>1 DEF RepairsLeft
    <3> QED BY <1>1, <1>2, <3>1, <3>2 DEF StepsLeft
  <2>4. CASE LlmFails
    <3>1. pc = "completing" /\ pc' = "completing" /\ llmTries' = llmTries + 1
          /\ UNCHANGED attempt
      BY <1>5, <2>4 DEF LlmFails, Completing, End
    <3>2. RepairsLeft' = RepairsLeft
      BY <3>1 DEF RepairsLeft
    <3> QED BY <1>1, <1>2, <3>1, <3>2 DEF StepsLeft
  <2>5. CASE ParseFails
    <3>1. pc = "parsing" /\ pc' = "completing" /\ llmTries' = 0
          /\ attempt < Repairs /\ attempt' = attempt + 1 /\ attempt \in 0..Repairs
      BY <1>5, <2>5 DEF ParseFails, Judging, End, TypeOK
    <3>2. RepairsLeft' + LlmRetries + 2 = RepairsLeft
      BY <3>1, RepairCosts DEF RepairsLeft
    <3> QED BY <1>1, <1>2, <3>1, <3>2 DEF StepsLeft
  <2>6. ~ (SearchFails \/ RagRejects \/ EchoAnswers \/ LlmTimesOut \/ LlmRejects \/ Parses)
    BY <1>5 DEF SearchFails, RagRejects, EchoAnswers, LlmTimesOut, LlmRejects, Parses, End
  <2> QED BY <2>1, <2>2, <2>3, <2>4, <2>5, <2>6 DEF Proceed
<1> QED BY <1>4, <1>5

\* Each step of a handler brings its end nearer, so that no fairness but
\* that of its own steps is needed for it to come.
THEOREM EndNears == Spec => EndComesNearer
<1>1. IInv /\ IInv' /\ [Next]_vars =>
        [pc # "idle" => StepsLeft' \in 0..(StepsLeft - 1)]_vars
  <2> SUFFICES ASSUME IInv, IInv', Next, pc # "idle"
               PROVE  StepsLeft' \in 0..(StepsLeft - 1)
    OBVIOUS
  <2>1. Proceed
    BY DEF Next, Begin
  <2> QED BY <2>1, ProceedNearer DEF IInv
<1>2. IInv /\ [Next]_vars => IInv'
  BY StepIInv
<1> QED BY <1>1, <1>2, Invariance, PTL DEF Spec, EndComesNearer

-----------------------------------------------------------------------------
\* A handler retrieves once, keeps what it got through retries and repairs,
\* and ends once, with a success only where nothing has failed for good.
THEOREM Refinement == Spec => ImplementsOutcome
<1>1. Init => Outcome!Init
  BY DEF Init, Outcome!Init, Outcome!Handlers, Handlers, Verdict
<1>2. IInv /\ IInv' /\ [Next]_vars => [Outcome!Next]_(Outcome!vars)
  <2> SUFFICES ASSUME IInv, IInv', [Next]_vars PROVE [Outcome!Next]_(Outcome!vars)
    OBVIOUS
  <2>1. CASE UNCHANGED <<handler, context, cause>>
    BY <2>1 DEF Outcome!vars, Verdict
  <2>2. ASSUME NEW h \in Handlers, Begin(h) PROVE Outcome!Next
    BY <2>2 DEF Begin, End, IInv, TypeOK, Causes, Verdict, Outcome!Next,
       Outcome!Begin, Outcome!Handlers, Handlers
  <2>3. CASE RagAnswers
    <3>1. pc = "retrieving" /\ context = "none" /\ cause = "pending" /\ UNCHANGED handler
      BY <2>3 DEF RagAnswers, Retrieving, IInv, TypeOK, ContextInv
    <3>2. /\ context' \in {"empty", "chunks"}
          /\ IF handler = "create" /\ context' = "empty"
             THEN cause' = "no_context" ELSE cause' = cause
      BY <2>3 DEF RagAnswers, End
    <3> QED BY <3>1, <3>2 DEF Verdict, Outcome!Next, Outcome!Retrieve
  <2>4. CASE RagFails \/ SearchFails \/ RagRejects
    <3>1. cause = "pending" /\ UNCHANGED <<handler, context>>
      BY <2>4 DEF RagFails, SearchFails, RagRejects, Retrieving, IInv, TypeOK
    <3>2. cause' \in {"pending", "rag_unavailable", "rag_rejected"}
      BY <2>4, <3>1 DEF RagFails, SearchFails, RagRejects, End
    <3> QED BY <2>1, <3>1, <3>2 DEF Verdict, Outcome!Next, Outcome!Fail
  <2>5. CASE EchoAnswers \/ LlmAnswers \/ LlmFails \/ LlmTimesOut \/ LlmRejects
             \/ Parses \/ ParseFails
    <3>1. /\ cause = "pending" /\ context # "none"
          /\ UNCHANGED <<handler, context>>
      BY <2>5 DEF EchoAnswers, LlmAnswers, LlmFails, LlmTimesOut, LlmRejects, Completing,
         Judging, Parses, ParseFails, IInv, TypeOK, ContextInv
    <3>2. cause' \in {"pending", "ok", "llm_unavailable", "llm_timeout", "llm_rejected",
                      "unusable", "unparseable"}
      BY <2>5, <3>1 DEF EchoAnswers, LlmAnswers, LlmFails, LlmTimesOut, LlmRejects, Parses,
         ParseFails, End
    <3> QED BY <2>1, <3>1, <3>2 DEF Verdict, Outcome!Next, Outcome!Succeed, Outcome!Fail
  <2> QED BY <2>1, <2>2, <2>3, <2>4, <2>5 DEF Next, Proceed, vars
<1> QED BY <1>1, <1>2, StepIInv, Invariance, PTL DEF Spec, ImplementsOutcome, Outcome!Spec
=============================================================================
