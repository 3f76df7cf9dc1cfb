--------------------------- MODULE HandlerOutcome ---------------------------
(***************************************************************************)
(* What a handler makes of its calls to RAG and the LLM, seen from         *)
(* outside: it retrieves once, uses what it has got to the end, and ends   *)
(* once.  Interview (Decide, BuildReport) and SessionCreation (Generate)   *)
(* make one step of a success, and one of a failure (DecisionFails,        *)
(* ReportFails, GenerationFails, Crash).  UpstreamCalls implements it.     *)
(***************************************************************************)
VARIABLES handler, context, verdict

vars == <<handler, context, verdict>>

Handlers == {"create", "submit", "complete"}

Init == handler \in Handlers /\ context = "none" /\ verdict = "ok"

\* A request comes in; one whose query is refused ends at once.
Begin ==
  /\ verdict # "pending"
  /\ handler' \in Handlers
  /\ context' = "none"
  /\ verdict' \in {"pending", "failed"}

\* No question is generated from nothing; a decision or a report may be.
Retrieve ==
  /\ verdict = "pending"
  /\ context = "none"
  /\ context' \in {"empty", "chunks"}
  /\ verdict' = IF handler = "create" /\ context' = "empty" THEN "failed" ELSE "pending"
  /\ UNCHANGED handler

Succeed ==
  /\ verdict = "pending"
  /\ context # "none"
  /\ verdict' = "ok"
  /\ UNCHANGED <<handler, context>>

Fail == verdict = "pending" /\ verdict' = "failed" /\ UNCHANGED <<handler, context>>

Next == Begin \/ Retrieve \/ Succeed \/ Fail

Spec == Init /\ [][Next]_vars
=============================================================================
