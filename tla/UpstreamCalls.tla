--------------------------- MODULE UpstreamCalls ---------------------------
(***************************************************************************)
(* The calls a handler makes to RAG and the LLM, through the clients the   *)
(* settings choose: HTTPRAGClient.retrieve and                             *)
(* OpenAICompatLLMClient.complete with their retries, or InProcessRAGClient*)
(* and EchoLLMClient without; the repair loop of run_with_repair around    *)
(* the completion, and the ways to fail that the engines tell apart.  One  *)
(* handler runs at a time: the clients share nothing but connection pools. *)
(***************************************************************************)
EXTENDS Naturals

CONSTANTS
  RagRetries,  \* settings.rag_max_retries
  LlmRetries,  \* settings.llm_max_retries
  Repairs,     \* settings.llm_max_repair_attempts
  MaxQuery,    \* RetrieveRequest.query, max_length
  QuerySizes,  \* the sizes the query of each handler can have
  MaxRequests  \* bound: how far requests are counted

Handlers == {"create", "submit", "complete"}

\* One retrieval, and each of the completions with retries of its own.
Budget == (RagRetries + 1) + (Repairs + 1) * (LlmRetries + 1)

ASSUME CallsAssumption ==
  /\ RagRetries \in Nat
  /\ LlmRetries \in Nat
  /\ Repairs \in Nat
  /\ MaxQuery \in Nat
  /\ QuerySizes \in [Handlers -> SUBSET Nat]
  /\ MaxRequests \in Nat
  /\ Budget < MaxRequests

VARIABLES
  ragMode,     \* settings.rag_mode
  llmProvider, \* settings.llm_provider
  handler,   \* the service operation that calls
  pc,        \* the call it is in
  ragTries,  \* retries used of the retrieval
  llmTries,  \* retries used of the current completion
  attempt,   \* repairs used
  requests,  \* HTTP requests sent
  timeouts,  \* those that were waited for in vain
  context,   \* what the retrieval has brought
  cause      \* how the calls have ended

settings == <<ragMode, llmProvider>>
vars == <<settings, handler, pc, ragTries, llmTries, attempt, requests,
          timeouts, context, cause>>

Locations == {"idle", "retrieving", "completing", "parsing"}

Causes == {"pending", "ok", "query", "rag_unavailable", "rag_rejected",
           "no_context", "llm_unavailable", "llm_timeout", "llm_rejected",
           "unparseable", "unusable"}

\* The clients there are, but for those of the tests.
RagModes == {"http", "in_process"}
LlmProviders == {"openai_compat", "echo"}

Contexts == {"none", "empty", "chunks"}

Init ==
  /\ ragMode \in RagModes
  /\ llmProvider \in LlmProviders
  /\ handler \in Handlers
  /\ pc = "idle"
  /\ ragTries = 0
  /\ llmTries = 0
  /\ attempt = 0
  /\ requests = 0
  /\ timeouts = 0
  /\ context = "none"
  /\ cause = "ok"

End(c) == pc' = "idle" /\ cause' = c

\* A handler starts to retrieve; only the request model of the HTTP client
\* refuses a long query.
Begin(h) ==
  /\ pc = "idle"
  /\ handler' = h
  /\ ragTries' = 0
  /\ llmTries' = 0
  /\ attempt' = 0
  /\ requests' = 0
  /\ timeouts' = 0
  /\ context' = "none"
  /\ UNCHANGED settings
  /\ \E size \in QuerySizes[h] :
       IF ragMode = "http" /\ size > MaxQuery
       THEN End("query")
       ELSE pc' = "retrieving" /\ cause' = "pending"

-----------------------------------------------------------------------------
\* HTTP requests of one try of a retrieval.
Retrieval == IF ragMode = "http" THEN 1 ELSE 0

Request(n) ==
  requests' = IF requests + n <= MaxRequests THEN requests + n ELSE requests

\* RAG is asked, and answers or fails.
Retrieving ==
  /\ pc = "retrieving"
  /\ Request(Retrieval)
  /\ UNCHANGED <<settings, handler, llmTries, attempt>>

\* Mutant: nobody looks whether there are chunks.
RagAnswersAnyway ==
  /\ Retrieving
  /\ UNCHANGED <<ragTries, timeouts, cause>>
  /\ context' \in {"empty", "chunks"}
  /\ pc' = "completing"

\* Chunks; none of them is a failure for create_session only.
RagAnswers ==
  /\ Retrieving
  /\ UNCHANGED <<ragTries, timeouts>>
  /\ \E found \in {"empty", "chunks"} :
       /\ context' = found
       /\ IF handler = "create" /\ found = "empty"
          THEN End("no_context")
          ELSE pc' = "completing" /\ UNCHANGED cause

\* Mutant: one retry too many.
RagFailsLate ==
  /\ ragMode = "http"
  /\ Retrieving
  /\ UNCHANGED context
  /\ timeouts' \in {timeouts, timeouts + 1}
  /\ IF ragTries <= RagRetries
     THEN ragTries' = ragTries + 1 /\ UNCHANGED <<pc, cause>>
     ELSE End("rag_unavailable") /\ UNCHANGED ragTries

\* Unreachable, timed out or 5xx: retried.
RagFails ==
  /\ ragMode = "http"
  /\ Retrieving
  /\ UNCHANGED context
  /\ timeouts' \in {timeouts, timeouts + 1}
  /\ IF ragTries < RagRetries
     THEN ragTries' = ragTries + 1 /\ UNCHANGED <<pc, cause>>
     ELSE End("rag_unavailable") /\ UNCHANGED ragTries

\* In the process, no index or an exception of the store: not retried.
SearchFails ==
  /\ ragMode = "in_process"
  /\ Retrieving
  /\ End("rag_unavailable")
  /\ UNCHANGED <<ragTries, timeouts, context>>

\* 4xx, or an answer that is not a RetrieveResponse; in the process, a chunk
\* that is not a RetrievedChunk.
RagRejects ==
  /\ Retrieving
  /\ End("rag_rejected")
  /\ UNCHANGED <<ragTries, timeouts, context>>

-----------------------------------------------------------------------------
\* EchoLLMClient says at once what the parser of each engine expects.
EchoAnswers ==
  /\ llmProvider = "echo"
  /\ pc = "completing"
  /\ End("ok")
  /\ UNCHANGED <<settings, handler, ragTries, llmTries, attempt, requests, timeouts,
                 context>>

\* The LLM is asked, and answers or fails.
Completing ==
  /\ llmProvider = "openai_compat"
  /\ pc = "completing"
  /\ Request(1)
  /\ UNCHANGED <<settings, handler, ragTries, attempt, context>>

LlmAnswers ==
  Completing /\ pc' = "parsing" /\ UNCHANGED <<llmTries, timeouts, cause>>

\* Unreachable, 5xx or 429: retried.
LlmFails ==
  /\ Completing
  /\ UNCHANGED timeouts
  /\ IF llmTries < LlmRetries
     THEN llmTries' = llmTries + 1 /\ UNCHANGED <<pc, cause>>
     ELSE End("llm_unavailable") /\ UNCHANGED llmTries

\* Mutant: a timeout is retried like any other outage.
LlmTimesOutRetrying ==
  /\ Completing
  /\ timeouts' = timeouts + 1
  /\ IF llmTries < LlmRetries
     THEN llmTries' = llmTries + 1 /\ UNCHANGED <<pc, cause>>
     ELSE End("llm_timeout") /\ UNCHANGED llmTries

\* A timeout is not retried: it is the longest wait there is.
LlmTimesOut ==
  /\ Completing
  /\ timeouts' = timeouts + 1
  /\ End("llm_timeout")
  /\ UNCHANGED llmTries

\* Nor is a 4xx or a response without content.
LlmRejects ==
  /\ Completing
  /\ End("llm_rejected")
  /\ UNCHANGED <<llmTries, timeouts>>

Judging ==
  /\ pc = "parsing"
  /\ UNCHANGED <<settings, handler, ragTries, requests, timeouts, context>>

\* The answer parses; no question in it, or an assessment scoring does not
\* know, is found too late for a repair.
Parses ==
  /\ Judging
  /\ UNCHANGED <<llmTries, attempt>>
  /\ \/ End("ok")
     \/ handler \in {"create", "complete"} /\ End("unusable")

\* Mutants: the attempts are not counted; the last answer is not awaited.
ParseFailsUncounted ==
  /\ Judging
  /\ UNCHANGED <<attempt, cause>>
  /\ pc' = "completing"
  /\ llmTries' = 0

ParseFailsEarly ==
  /\ Judging
  /\ IF attempt + 1 < Repairs
     THEN /\ attempt' = attempt + 1
          /\ llmTries' = 0
          /\ pc' = "completing"
          /\ UNCHANGED cause
     ELSE End("unparseable") /\ UNCHANGED <<attempt, llmTries>>

\* The model is asked to correct its answer, with retries of its own.
ParseFails ==
  /\ Judging
  /\ IF attempt < Repairs
     THEN /\ attempt' = attempt + 1
          /\ llmTries' = 0
          /\ pc' = "completing"
          /\ UNCHANGED cause
     ELSE End("unparseable") /\ UNCHANGED <<attempt, llmTries>>

-----------------------------------------------------------------------------
Proceed ==
  \/ RagAnswers \/ RagFails \/ SearchFails \/ RagRejects
  \/ EchoAnswers \/ LlmAnswers \/ LlmFails \/ LlmTimesOut \/ LlmRejects
  \/ Parses \/ ParseFails

Next == (\E h \in Handlers : Begin(h)) \/ Proceed

Spec == Init /\ [][Next]_vars

\* Every request has a timeout, and the waits between retries are bounded.
FairSpec == Spec /\ WF_vars(Proceed)

-----------------------------------------------------------------------------
\* The variables have their types, the counters their bounds.
TypeOK ==
  /\ ragMode \in RagModes
  /\ llmProvider \in LlmProviders
  /\ handler \in Handlers
  /\ pc \in Locations
  /\ ragTries \in 0..RagRetries
  /\ llmTries \in 0..LlmRetries
  /\ attempt \in 0..Repairs
  /\ requests \in 0..MaxRequests
  /\ timeouts \in Nat
  /\ context \in Contexts
  /\ cause \in Causes
  /\ pc = "idle" <=> cause # "pending"

\* The loops within loops multiply, and no further.
RequestBudget == requests <= Budget

\* A handler gives up only on what it has tried as often as it may, repairs
\* by prompt counting answers and retries counting outages.
GivesUpExhausted ==
  /\ cause = "rag_unavailable" => requests = Retrieval * (RagRetries + 1)
  /\ cause = "llm_unavailable" => requests >= Retrieval + LlmRetries + 1 + attempt
  /\ cause = "unparseable" => requests >= Retrieval + Repairs + 1

\* Retries and repairs do not multiply the waits for a silent server: a
\* handler ends at the LLM's first timeout, or at RAG's last.
TimeoutsBounded == timeouts <= RagRetries + 1

\* How long a handler can take is bounded by the settings, in requests and
\* in waits for nothing, whatever mixture of failures it meets.
EffortIsBounded == RequestBudget /\ TimeoutsBounded

\* The answers a handler can still judge and ask for, repairs included.
RepairsLeft == (Repairs - attempt) * (LlmRetries + 2)

\* How many steps a handler can take yet, at most.
StepsLeft ==
  CASE pc = "idle"       -> 0
    [] pc = "parsing"    -> RepairsLeft + 1
    [] pc = "completing" -> RepairsLeft + (LlmRetries - llmTries) + 2
    [] pc = "retrieving" -> RepairsLeft + LlmRetries + 3 + (RagRetries - ragTries)

\* No chain of failures keeps a handler busy for longer than its settings
\* say: whatever step it takes, in whichever loop, brings its end nearer.
EndComesNearer ==
  [][pc # "idle" => StepsLeft' \in 0..(StepsLeft - 1)]_vars

\* Every handler comes to an end, through retries and repairs.
EveryHandlerEnds == pc # "idle" ~> pc = "idle"

\* The end of a handler, seen from outside; which status a failure has is
\* left to the routes.
Verdict == IF cause \in {"pending", "ok"} THEN cause ELSE "failed"

Outcome == INSTANCE HandlerOutcome WITH verdict <- Verdict

\* However calls are retried, repaired and fail, a handler retrieves once,
\* keeps what it got through every repair, generates no questions from an
\* empty retrieval, and ends once: no failure becomes a success later.
ImplementsOutcome == Outcome!Spec
=============================================================================
