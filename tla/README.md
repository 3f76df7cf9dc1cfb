# Verification of the due-diligence interview service

This directory holds TLA+ specifications of the program in `src/`, TLC
configurations that check them on small instances, and TLAPS proofs. The program
interviews the founder of a startup: it seeds questions with the help of a
retrieval (RAG) service and an LLM, accepts answers, asks follow-ups, and builds
one report. It is a FastAPI service over PostgreSQL whose handlers run in worker
threads, in several processes, with no locks of its own: what keeps it correct is
the database's unique constraints and row locks, and the order in which the
handlers read, write, call out and commit. That is what the models are about.

    tlasany M.tla                          parse a module
    tlc -config Interview_concurrent.cfg MCInterview
    tlapm InterviewProofs.tla              check the proofs

## 1. Inventory

| Component | State | Operations | Hard part |
|---|---|---|---|
| interview orchestration (`app/orchestration/interview_service.py`) | the four tables, through an ORM session per request | create_session, submit_answer, complete_session, get_report, reads | calls to RAG and the LLM between flush and commit; several transactions in one handler; races of every pair of operations |
| HTTP routes (`app/api`) | none | translate results and errors to responses | the name of a response is derived from the decision, not from the question |
| persistence (`app/persistence`) | tables, unique constraints; engine and factory created on first use, pool | one session per request, rolled back when closed | READ COMMITTED, row locks, first use without a lock, connections held across calls |
| report assembly (`report_service.py`, `engines/analyzer.py`) | none | retrieve evidence, analyse, score | errors of five stages |
| engines (`question_generator.py`, `followup.py`) | none | deduplicate, suppress duplicates | stale inputs |
| LLM client, repair loop (`clients/llm.py`, `llm_repair.py`) | none | call with timeout and retries; re-prompt after a parse error | which failures are retried, how often in all |
| RAG client (`clients/rag.py`) | none | call with retries, or in process | which failures are typed |
| scoring, backstops (`app/domain`) | none | escalate contradictions into risks, score, judge | order of contradictions, rounding, duplicate categories |
| RAG service (`rag_service`) | Chroma collection, embedding model, lazy singletons | ingest, retrieve, readiness | rebuild is delete, create, embed, add |
| shared, migrations, frontend, scripts, deployment | - | - | no logic to speak of |

How they interact: a route calls `InterviewService` with the request's ORM
session; the service calls the engines, which call the two clients; the clients
call services over HTTP. Sessions of the ORM share nothing but the database.
The correctness of each component:

- *create_session*: one session for each Idempotency-Key, never visible without
  its questions; a retry is given the session the first try made.
- *submit_answer*: an answer is stored once, with its follow-up or not at all;
  the depth cap and the duplicate check hold although they use what was read
  before the LLM answered; a refused submit leaves no trace; a 409 is not given for
  something that may be undone.
- *complete_session*: one report, from every answer, the same for everybody;
  nothing changes afterwards; a crash anywhere is recovered by asking again.
- *the process*: one engine and one embedding model; threads that wait for connections,
  rows and the model's lock never wait in a circle, and keep nothing when they are done.
- *clients*: bounded calls, no retry of what cannot be repaired by it.
- *RAG service*: an ingestion leaves the article's chunks and nothing else; a retrieval
  fails rather than find nothing.
- *question generator*: the first of each question, up to the number wanted.
- *scoring*: bounds, a mean, the last assessment of a category; a severe contradiction
  is among the risks, a critical risk never hidden by good scores.

PROJECT.json lists the hazards with their lines and the properties that cover them.

## 2. Modules

| Module | What it is |
|---|---|
| `Interview` | submit_answer, complete_session, get_report as interleaved transactions on one session |
| `InterviewContract` | what the interview promises, sequentially, without requests |
| `SessionCreation` | create_session with Idempotency-Keys |
| `SessionRegistry` | what POST /sessions promises: whole sessions, one per key, each added in one step and answered in another |
| `UpstreamCalls` | a handler's calls to RAG and the LLM: retries, repairs, what each failure becomes |
| `HandlerOutcome` | what the other models assume of such calls: one retrieval, one end |
| `RagIndex` | ingestions, retrievals and readiness probes of the RAG service over one Chroma |
| `WorkerProcess` | what the threads of one app process share: engine, factory, pool, row locks, embedding model |
| `LlmOutput` | what is made of an answer that parsed: questions deduplicated and cut, contradictions escalated, scores and level |
| `MCInterview`, `MCSessionCreation`, `MCUpstreamCalls`, `MCRagIndex`, `MCWorkerProcess`, `MCLlmOutput` | small instances for TLC |
| `InterviewProofs` | theorems about `Interview`, with proofs |
| `InterviewLengthProofs` | theorems about the length of an interview and its current question |
| `SessionCreationProofs` | theorems about `SessionCreation`, with proofs |
| `UpstreamCallsProofs` | theorems about `UpstreamCalls`, with proofs |
| `RagIndexProofs` | theorems about `RagIndex`, with proofs |
| `WorkerProcessProofs` | theorems about `WorkerProcess`, with proofs |
| `LlmOutputProofs` | theorems about `LlmOutput`, with proofs |
| `ContractProofs` | what follows from `InterviewContract` and `SessionRegistry` alone |

`UpstreamCalls` details the one-step calls of `Interview` and `SessionCreation`, and
`LlmOutput` what follows the parsing in `UpstreamCalls` (its `unusable`) and inside
`Interview`'s `BuildReport`. `WorkerProcess` repeats the transactions of the first two by
what they hold, and drops what they write.

### Interview

*State.* `thread`, `answered`, `answers`, `session` and `reports` are the
committed tables. A question is identified by its thread and its position in it;
`thread[t]` is the sequence of the texts of thread `t`, its top-level question
first. A slot `r` in `Requests` is a worker that serves one request at a time:
`pc[r]` says how far it has come, `target[r]` which question it answers,
`asked`, `followups`, `decision` and `turns` what it remembers, and `reply[r]` the
response it has given last. There is no variable for uncommitted writes: a slot
between the flush and the commit has exactly one answer pending, on `target[r]`,
and holds the lock of that row.

*Sessions* of the interview share no row, so one is modelled.

*Actions.* One for each step after which another request can interfere:

| Action | Code |
|---|---|
| `Reject`, `ReadQuestion` | submit_answer 203-215: validation, status check (409) |
| `Flush` | 215-233: UPDATE questions waits for the row's lock; INSERT answers meets UNIQUE(question_id), rollback, 409 |
| `ReadTurns`, `ReadFollowups` | 234-249: two SELECTs, each with a snapshot of its own |
| `DecisionFails` | 259-263, 284-286: rollback, 503 or 502 |
| `Decide` | decide_followup with the duplicate check, then the depth cap 288-305 on the cached collection |
| `CommitFollowup`, `CommitAnswer` | 307-322; the follow-up's response is the end of the first (`Conclude`) |
| `ReadNext`, `CloseSession` | 323-333: the next question; if there is none, a second commit closes the session (`Conclude`) |
| `BeginComplete`, `CheckComplete` | complete_session 342-367 |
| `BuildReport`, `ReportFails` | 369-380 |
| `StoreReport` | 382-411: the report and the status in one transaction, then the row read again for the response (`Conclude`); or the winner's row |
| `GetReport` | 413-418 |
| `Crash` | the process dies or an untranslated exception escapes, at any place: `get_session` closes the ORM session, which rolls back |

Where a commit is the last thing a handler does for others, its response is part of the
same action. It may still be a 500, since what is read after the commit is read in a new
transaction: `Conclude` is the response or an error, what is committed staying so.

`ReadNext` and `CheckComplete` read everything at once although the code issues
one SELECT for `session.questions` and then one per thread for its follow-ups.
The status of every question is loaded by the first SELECT and kept by the
identity map; a follow-up that appears afterwards belongs to a thread whose
last question was PENDING in that snapshot, so it comes behind that question in
thread order and changes neither which question is first nor whether there is
one. `db.refresh(session)` matters: the sessionmaker has
`expire_on_commit=False`, and only the refresh makes the handler see what others
committed (the mutant `ReadNextStale` is the code without it).

*What is abstracted.* Texts of questions are model values, equal when
`_normalize` makes them equal. What the LLM says is any `FollowupDecision`,
including one that requires a follow-up without giving a text, and one that gives a text
and requires none, which is not asked. Category, priority,
reason and the text of the answer are left out. The retrieval and the LLM call
are one step, since nothing is read or written between them.

### SessionCreation

`sessions` is the committed table: id, key, number of questions. A slot looks its
key up (`Create`), flushes the INSERT (`Insert`), generates questions (`Generate`,
`GenerationFails`), commits (`Commit`) and reads its row again for the response (`Refresh`,
in a new transaction). A `Crash` is a worker that dies or a statement that fails or
times out; between `Commit` and `Refresh` it is a 500 for a session that is stored. The flush makes its transaction the
owner of the key in the unique index; PostgreSQL makes another INSERT of that key
wait for its commit or rollback (`Unowned`). `NoKey` is the absent header, NULL in
the database, which the constraint ignores; `EmptyKey` is the empty header, which
Python takes for no key and the database for a value.

### SessionRegistry

A client of POST /sessions sees no transaction: while its request waits, a session is
registered with its questions in one step, or none is; the response is another step. An
answer with a session names the one this request has registered (`Deliver`), or, at once,
the one that has its key (`Repeat`). A failure (`GiveUp`) other than a 500 means that the request
has registered nothing; a 500 leaves open whether there is a session, and the client has
to ask again with its key. `SessionCreation` implements it with `waiting` the slots that are
not idle and `made` the session of a slot that has committed. `Commit` is `Register`,
`Refresh` is `Deliver`; `GenerationFails`, a conflict and `Crash` are `GiveUp`; a lookup that
finds the key is `Repeat`; `Insert` and `Generate` are stutters.

### InterviewContract

Each thread has a depth and an open question or none; `FollowUp`, `MoveOn`,
`Close` and `Report` are the only changes. `Interview` implements it with
`depth = Len(thread[t]) - 1`, `open = the last question is not answered`,
`reported = reports # {}`: every commit is one step of the contract, everything
else a stutter.

### UpstreamCalls

`Interview` and `SessionCreation` make the calls of a handler one step that has an
outcome (`Decide`, `DecisionFails`, `Generate`, `GenerationFails`, `BuildReport`,
`ReportFails`, `Crash`). `UpstreamCalls` is that step seen from inside: `pc` is the
call the handler is in, `ragTries`, `llmTries` and `attempt` are the counters of the
two tenacity loops and of `run_with_repair`, `requests` counts what was sent,
`timeouts` what was waited for in vain, `context` is what the retrieval has brought, and
`cause` says how it ended. `ragMode` and
`llmProvider` are the settings that choose the clients, fixed for the life of a process.

| Action | Code |
|---|---|
| `Begin` | with the HTTP client, `RetrieveRequest(...)`: a query that is too long raises before anything is sent |
| `RagAnswers`, `RagFails`, `RagRejects` | `HTTPRAGClient.retrieve` 85-106; only `RAGUnavailableError` is retried |
| `SearchFails` (and `RagAnswers`) | `InProcessRAGClient.retrieve` 134-145: no request, no limit, no retry |
| `LlmAnswers`, `LlmFails`, `LlmTimesOut`, `LlmRejects` | `OpenAICompatLLMClient.complete` 122-157; only `LLMUnavailableError` is retried, and a timeout is none |
| `EchoAnswers` | `EchoLLMClient.complete`: a constant that every parser accepts |
| `Parses`, `ParseFails` | `run_with_repair` 74-95, then what the engines refuse after it |

`HandlerOutcome` is a handler without its loops: it begins, retrieves once, and succeeds or
fails once, with the context of that one retrieval; a create does not go on with an empty
one, a submit and a completion do. That `UpstreamCalls` implements it
(`ImplementsOutcome`) is what justifies the one-step calls of the two other models. Which
status a failure is given is a table in the routes (`_raise_http`), which the two models
have as their types of response; it is not repeated here (see section 4). Handlers share the clients but no state of theirs, so one
handler is modelled. Sizes of queries matter only against `MaxQuery`.

### RagIndex

The endpoints of the RAG service are `async` and call Chroma synchronously, so a
worker process serves one request at a time; production runs several (two replicas
of two workers, `docker-compose.prod.yml:75-87`) against one standalone Chroma. A member
of `Replicas` is such a worker. `collection` and `chunks` are the collection of the
configured name; `handle[r]` is the Collection object a handler has got, which stays
the one it got when the name is dropped and created again. `article[r]` is what it
ingests, `wanted[r]` the `n_results` of its query, `reply[r]` its last response.

| Action | Code |
|---|---|
| `Retrieve`, `Count`, `Query` | similarity_search 122-134: get or create, count (an empty collection is a 503), query with the count |
| `Probe`, `CountProbe` | readiness_checks 77-81 |
| `Ingest`, `FetchFails` | ingest with recreate 50-62 |
| `IngestOnce`, `Check`, `Reopen`, `Recount` | ingest without recreate 58-59: two counts, each with a get or create of its own |
| `Drop` | 95-97: the collection is gone, or the delete failed and nobody hears of it |
| `Create`, `Add`, `AddUnanswered` | 99-111: the add is stored; its answer arrives or is lost |
| `Fail` | any other call raises; `Failure` is what each `try` makes of it |
| `Crash` | the worker dies |

Of Chroma the model takes two facts (external in the map): `add` skips ids that
exist, and a call on the object of a deleted collection raises. `disturbed` is a
history variable: the ingestions that met another one between their drop and their
add, or whose delete failed. No action reads it but to maintain it. Embedding is
local, so it is part of `Add` or a reason for `Fail`. The branch `if not chunks` of
rebuild_collection cannot be taken with the extraction there is (an article has text
or is an ExtractionError), which is the assumption `ChunkCount \in [Versions -> Nat \ {0}]`.
Which chunks are the nearest is left open: a query finds any set of the right size.

### WorkerProcess

Handlers are plain functions, so FastAPI runs each in a worker thread; the threads of a
process share `_engine` and `_session_factory` (`database.py`), the engine's pool and, when
`rag_mode` is `in_process`, `_model` (`vectorstore.py`). An engine is named after the thread
that built it; `bind[r]` is the engine thread `r` works with, `connected` the threads with a
connection of theirs, `locks` the row locks, `modelLock` the holder of `_model_lock`. What a
request does is its `task`: a row that it locks (a question, an Idempotency-Key), `Complete`
(a completion locks none before its commit) or `Probe` (GET /ready).

| Action | Code |
|---|---|
| `Arrive` | a request; `Depends(get_session)`, or `health.ready` |
| `CheckFactory`, `CheckEngine`, `BuildEngine`, `ReturnEngine`, `BindFactory`, `OpenSession` | `get_session_factory` 60-66 and `get_engine` 52-57, a step for each read and each assignment of a global |
| `Checkout`, `CheckoutTimesOut` | the pool gives a connection at the first statement of a transaction, or `pool_timeout` runs out |
| `ProbeDatabase` | `check_database` 100-109 |
| `LockRow`, `ReadTurns`, `EndEarly` | what a transaction does before the calls |
| `CallAnswers`, `FindNoModel`, `LockModel`, `Recheck`, `LoadModel` | the calls; `get_embedding_model` 46-53, and in the same form `get_chroma_client` 61-83 |
| `Commit`, `Rollback`, `Answer` | the end of the transaction; what is read after the commit needs a connection again |
| `Fail`, `Close` | an exception anywhere; `get_session` 74-75 |

`database` is `sqlite` where `lifespan` creates the tables and with them the engine before
the first request (main.py 53-56, local and test environments); everywhere else the engine
is created by whoever needs it first. The model of row locks is PostgreSQL's in both
cases; that of SQLite allows less.

### LlmOutput

One answer of the LLM at a time, as it parsed, and what is made of it, one turn of a loop
after the other. `Keys` are texts up to what the code ignores in comparing them; a
contradiction's topic stands for the title `Inconsistent claims: <topic>` too. Scores are
in tenths, weights in twentieths (5 %), the sum in two hundredths.

| Action | Code |
|---|---|
| `ReceiveList`, `ReceiveAnalysis` | `generate_top_questions` 77-92, `build_report` 61-75 |
| `Take`, `Listed` | `_dedupe` 28-37 and 93-95; `filter_contradictions`, `escalate_risks_from_contradictions` 31-60 |
| `Rate`, `Rated` | `score_categories`, `score_category` 53-72, an unknown word being a ScoringError |
| `Weigh`, `Judge` | `compute_overall_score`, `determine_risk_level` 75-86, and the schema's validation |
| `Return` | the result or the failure |

`Rounded` leaves open which way a tie of two tenths goes: `round` on binary fractions goes
either way. That floats lie within half a tenth of the exact sum is all that is used of
them. `Cut` is Python's slice, negative numbers included.

## 3. Runs

| Run | Instance | Question |
|---|---|---|
| `Interview_concurrent` | 2 questions, 1 follow-up each, 3 texts, 2 slots | tables consistent, replies true, completed interviews frozen, answered ones closed unless a crash intervenes; refinement of InterviewContract |
| `Interview_persistent` | 1 question, 2 follow-ups, 4 texts, 2 slots, fairness | what is read before the LLM call is true when used; every answer leaves fewer questions to ask; every request ends; a persistent client gets its report |
| `Interview_followup_reply` | as concurrent | *violated*: a `follow_up` response may carry a top-level question |
| `SessionCreation_race` | 1 key, empty key, no key, 2 slots, 3 ids, fairness | refinement of SessionRegistry: one session per key, never half made, answers true of it; the race for a key ends at the INSERT; a client that repeats its create gets its session |
| `SessionCreation_lost_race` | 1 key, 2 slots, no crash | *violated*: the loser of a race gets a 500 |
| `UpstreamCalls_bounds` | shipped retries (2, 2), repairs (2) and limit of a query, all clients, fairness | bounded requests and timeouts, no early surrender, every step brings the end nearer, one retrieval and one end for each handler, and there is an end |
| `RagIndex_concurrent` | 3 workers, articles of 1 and 2 chunks, top_k 1 | a retrieval finds something; an undisturbed ingestion is exact; what mixes articles |
| `RagIndex_failed_drop` | 1 worker, the same articles | *violated*: a failed drop is reported as an ingestion |
| `WorkerProcess_sharing` | 2 threads, 1 connection, 1 row, fairness | nobody waits in a circle, nothing is left behind, engines settle, one model, every request ends |
| `WorkerProcess_two_engines` | the same | *violated*: two engines, more connections than the settings allow |
| `LlmOutput_results` | shipped weights; all lists of 4 questions over 3 texts, of 3 contradictions over 2 topics; wishes -2 to 10 | the right questions, risks, scores and level |
| `LlmOutput_hidden` | contradictions only, best scores | *violated*: a CRITICAL contradiction becomes a HIGH risk, the report LOW |

Eight properties are conjunctions of named parts that belong together, each part with a
theorem of its own: `RepliesAreTrue` and `NothingIsOvertaken` (Interview), `RaceEndsAtInsert`
(SessionCreation), `EffortIsBounded` (UpstreamCalls), `HoldingIsSafe` (WorkerProcess), and the
three of LlmOutput, `ListsAreRight`, `ScoresAreRight` and `ReportIsSound`.

Six definitions are proved and in no configuration, because a property that is there
says more or stands beside them: `DepthCap` and `AnswersBounded` (`InterviewShrinks` says that
no question beyond the cap is ever open), `CurrentIsDefined`, `SessionsAreSeeded` (the
registry's sessions have their questions), `StartupEngineBounds` and `SettledBounds`
(`EnginesSettle`). TLC finds each of them true of the same instances.

*Bounds.* Two slots meet in every pair of operations. What a third could add to the
interview is covered by proof: every safety property of its runs is a theorem for any
number of slots. Two questions make the order of threads and the race of two last answers
possible; one follow-up makes the cap bind, two make it bind late. Three texts leave one
that no seeded question has; four make a follow-up differ from two others. No counter is
unbounded: threads are bounded by the depth cap, which is itself proved (`DepthCapHolds`).
`SessionIds` bounds the number of sessions to three, one for each header there is; `MaxUnkeyed` leaves
room for one without a key. The retries and repairs of `UpstreamCalls` are the shipped
settings; `MaxRequests` only keeps a model without the code's own bounds finite, and is
assumed to be above `Budget`. Three workers of `RagIndex` are two ingestions that overlap and
a retrieval that meets them, or a third ingestion after both; articles of one and two
chunks mix when the shorter replaces the longer; there are as many handles as workers,
since one that no other worker holds is used again: however many dead ones the others
hold, one is left. One connection in `WorkerProcess` makes the pool the bottleneck; the two
threads still meet over the row and over the model, with an engine each or in a probe;
any number of threads and connections is covered by proof, safety only. The analyses of
`LlmOutput` combine contradictions with risks, tiers with tiers in different categories, and
assessments with a repeated or unknown one: every branch of scoring and every threshold is
met from both sides. Workers and handles, slots and the texts that no seeded question has
are interchangeable, which the symmetry sets use; runs with liveness properties use none.

*Deadlock* is checked in every run.

*Fairness.* `Fairness` says that a handler does not stop for ever: both HTTP
clients have timeouts and a bounded number of retries, so weak fairness of
`Proceed`; PostgreSQL queues the waiters for a row, so a waiter is not overtaken
for ever, strong fairness of `Flush` (`Insert`); so do the pool and `threading.Lock` in
practice, strong fairness of `Checkout`, `LockRow` and `LockModel` in `WorkerProcess`, where no
timeout is assumed to help. Nothing obliges a client to call:
`PersistentSpec` and `RetryingSpec` add a client that goes on asking and an
environment that stops failing at some moment, and are named for it. `UpstreamCalls`
assumes only that a request is answered or times out.

## 4. Disagreements found

1. A `follow_up` response without a follow-up (`routes.py:154`): the LLM may say
   `follow_up_required` and give no question; the service moves on, the route
   still says `follow_up` and shows the next top-level question as if it were one.
2. The loser of a race for an Idempotency-Key gets a 500
   (`interview_service.py:116`): the constraint is met at the flush, outside any
   handler; the handler around the commit, written for this race, is dead code
   (`RaceEndsAtInsert`).
3. A delete of the collection that fails is suppressed
   (`rag_service/vectorstore.py:96`): the ingestion goes on into the old collection,
   whose ids are kept, and reports success over a mixture of two articles.
4. The engine is created on first use without a lock (`database.py:54`): first requests at
   once build several, and the process may use more connections than its settings say.
   It settles (`EnginesSettle`): no engine is lost after the threads that saw none are
   through. With an engine created at startup, which only SQLite's is, it cannot happen
   (`StartupBounds`; the limit is then the default of the pool, since `database.py:36-40`
   gives that engine none of the settings); without, and once nobody uses an engine that is
   superseded, the excess is a factor of two at most (`SettledBounds`).
5. A severe contradiction is escalated only if its title is not taken
   (`risk_backstops.py:41`): a CRITICAL one behind a HIGH one of the same topic, or behind a
   risk the LLM gave that title, is in the report with the lower severity, and its level
   can be LOW. What does hold is `SevereIsVisible`, there is a risk of its
   title, and `FirstIsEscalated`: the first severe one of a topic has its own severity
   unless the LLM had taken the title.

More that the models show, without a run of their own:

- An empty Idempotency-Key (`interview_service.py:98`, `:113`) is not looked up but stored,
  so that it can be used once by all clients together; the second create with it is a 500.
  `ConflictErrorMeansKeyTaken` describes that 500.
- An outage of RAG is a 503 for `submit_answer` but a 502 for the other two
  (`interview_service.py:131`, `:379`). `clients/rag.py:8-9` says that the API maps it to a
  503; `tests/unit/test_interview_service.py:105-109` asserts the 502 for a create
  (`test_create_session_rag_down_is_upstream_error`). The repository disagrees with itself,
  on a table that one request shows: no property here takes a side.
- `UpstreamTimeoutError`, the 504 of `errors.py:37`, is raised nowhere: a timeout of
  the LLM is a 502.
- A `RAGError` that is not a `RAGUnavailableError` (a 4xx, an answer that does not
  parse) is caught by nobody and becomes a 500, against `interview_service.py:12`.
- The query of a report can exceed `RetrieveRequest`'s limit, which the joined answers
  of a long interview reach; the completion is then a 500 each time it is asked for.
  The in-process client has no such limit (nor any retries), so that the two settings
  of `rag_mode` answer the same interview differently. No line of the repository says
  what should happen instead.
- With the pool exhausted, the refresh after a commit can time out: a 500 for an answer,
  a session or a report that is stored. The repetition of the answer is a 409, which is then true
  (`ConflictMeansAnswered`), and that of the completion gives the report. A create that is repeated
  with its key is given its session (`RetryGetsSession`); without a key it makes a second one.
- `num_questions` of zero or less is not refused and seeds no question, or all but the last
  few (`CutIsRight`).

## 5. Proofs

`InterviewProofs` proves, for all values of the constants that satisfy
`ConfigAssumption` (at least one question, any follow-up cap, any texts, any set of
slots), each safety property of the Interview runs and the refinement of `InterviewContract`.

The inductive invariant `IInv` consists of

- `TypeOK`;
- `TablesInv`: in every thread all but the last question are answered, answers and
  statuses agree, texts differ, the cap holds, a completed session has everything
  answered, reports cover everything and there is at most one;
- `SlotInv` for each slot: what its place says about its target (it exists; between
  flush and commit it is the last, unanswered question of its thread; after the
  commit it is answered by this slot), about what it remembers (the follow-ups are
  the thread's, the decision respects cap and duplicates, turns are all the
  questions and all are answered) and about its reply;
- exclusion: two slots do not hold the same row.

No single property is inductive: that the cached follow-ups are not stale needs that
nobody else holds the row, that the row is the only open question of its thread
and that answered questions stay answered; the cap needs the cached follow-ups.
Each action has a lemma for the tables and one for the slots; the lemmas for
`Finish`, `Respond`, `Begin` and plain moves are shared. `Refinement` shows each
commit to be a step of the contract from the invariant alone.

`InterviewLengthProofs` takes the same invariant further. `StillToAsk` is the set of places
(thread, position) that an answer may still go to: of each thread whose last question is
open, that position and those behind it up to the cap. It is the variant of the
interview: every stored answer removes the place it goes to, a follow-up included, and nothing
adds one (`Shrinks`). That no loop of follow-ups keeps an interview open needs no fairness
in this form. `answered` and `StillToAsk` are disjoint parts of a set of
`NumQuestions * (MaxFollowups + 1)` places, and answers map into `answered` one to one
(`OneAnswerEach`), so a session takes no more answers than that (`AnswersAreBounded`).
`CurrentDefined` says that get_current_question has exactly one answer while a question is
open: some rank is the least (`<` on naturals is well founded), and no thread has two open
questions.

`SessionCreationProofs` proves in the same manner the safety properties of
`SessionCreation_race`, for any set of keys, ids and slots, and the refinement of
`SessionRegistry`. For the latter the invariant says that a flushed row has an id that no
committed session has, and a key that none has, and that the session of a slot between
`Commit` and `Refresh` is there under the slot's key: between the flush and the commit another slot
may commit, but not under that key, which is owned. So what `Commit` publishes is new to the
registry, although its lookup was made before anything else happened, and what `Refresh` answers with is
still there.

`UpstreamCallsProofs` proves, for any numbers of retries and repairs, that a handler
sends at most `Budget` requests and none too few before it gives up, that it waits for at
most `RagRetries + 1` timeouts, and the refinement of `HandlerOutcome`, for which `ContextInv` says in which
places a handler has its context. `CountInv` is the
strengthening of the others: in each place the number of requests lies between what the counters require
and what the used up loops can have cost; that the latter stays within the product is the
lemma `Spending`. `EndNears` is the safety half of `EveryHandlerEnds`: `StepsLeft` counts the
steps that the RAG loop and the LLM loop inside the repair loop can still take, and every step
of a busy handler makes it smaller, whatever fails; what is left to fairness is that a step
is taken. The repairs that are left cost `LlmRetries + 2` steps each, and the lemma
`RepairCosts` says what one repair takes off that product.

`RagIndexProofs` proves, for any number of workers and all articles, that a retrieval
finds something, that an ingestion is exact unless disturbed, and that nothing but a
disturbed ingestion mixes articles. What makes these inductive: an ingestion that is not
disturbed finds the collection empty between its drop and its add (`SlotInv`), because
any other that could have filled it is disturbed with it (`OverlapInv`); a query's
object is dead or its collection is not empty.

`WorkerProcessProofs` proves, for any number of threads, rows and connections, each safety
property of `WorkerProcess_sharing`, and `StartupBounds`. `ThreadInv` says what a thread has in
each place (connection, engine, the model's lock), `RowInv` that the holder of a row is between
its flush and its close and connected, and a pool never gives more than its limit.
`SomeoneProceeds` is freedom from deadlock: the holder of the model's lock waits for nothing; if
nobody holds it, the holder of a row has its connection and waits for nothing; if nobody
holds a row either, what is waited for is a connection, and an exhausted pool has given one to
a thread that now waits for nothing. `ENABLED` being out of the prover's reach, `Waits` names
what a thread can be kept from; on the instance, TLC agrees that every busy thread that
does not wait can take a step. That the engines settle is a fact about two threads: who is
past its check of the global may still assign it, so `Settled` asks that there be none of
these. Once settled and rid of older engines, connections come from the current engine or the
factory's, each bounded by its pool: `SettledBoundsHold`.

`LlmOutputProofs` proves, for lists and analyses of any length, any wish and any weights that
sum to one, the three properties of `LlmOutput_results` by their seven parts. Each loop's
invariant relates what it has kept, rated or summed to the turns it has made (`SeenInv`
and `FirstsKept` for the first, the rating by last assessment for the second); the mean needs
that a partial sum lies between least and greatest score times the partial weights
(`Sums`). No recursion is involved: a loop is a sequence of actions, a proof of its result an
ordinary invariance proof. `ScoreOrders` and `LevelFollowsSum` are about the operators: a better
tier beats any evidence, more evidence beats less in the same tier, and a greater weighted
sum never gives a lower score or a worse level, ties of the rounding included.

`ContractProofs` is about the two abstract specifications, from nothing but their own steps:
a registry has one session for each key, answers with sessions that are there (those that
are registered and not yet answered stay under the keys of their requests) and keeps them (`RegistryIsAMap`, `RegistryAnswers`, `RegistryKeeps`); an interview is completed only when
closed, reported only when completed, and goes one way (`ContractInOrder`, `ContractGoesOn`).
With the refinements, this is what the transactions of the code add up to, and it shows that
the abstract specifications are strong enough to be worth implementing.

Not proved, checked by TLC only: the six liveness properties (`EveryRequestEnds` of two
modules, `InterviewIsReported`, `EveryCreateEnds`, `RetryGetsSession`, `EveryHandlerEnds`);
fairness and ENABLED are out of the prover's reach. `Shrinks`, `EndNears` and `SomeoneProceeds`
are the parts of three of them that need neither.

Assumed of PostgreSQL, as the code assumes it: READ COMMITTED; an UPDATE holds its
row's lock to the end of the transaction; unique constraints make a second INSERT
wait for the first one's transaction. SQLite, the development database, has one
lock for all writers and allows fewer interleavings. Assumed of Chroma: the two
facts above.

## 6. What is not modelled

The plan these modules were written along is done: the interview and its contract, the
creation of sessions, the upstream calls, the index, what a process shares, and what is made of
the LLM's output. Left out, and why:

- The reads GET session and GET questions: they change nothing and promise nothing that
  the tables' invariants do not. `observability`'s limit of a body, CORS and identifiers of
  requests: no state.
- A collection other than the configured one, and a `top_k` beyond `max_top_k` in the RAG
  service: as shipped, the app asks for the configured collection and 10 or 4 chunks.
- JSON extraction, HTML extraction, splitting into chunks, prompts: text processing, whose
  outcome is a choice in the models (`Parses`, `ParseFails`, `ChunkCount`, `FetchFails`).
- Time: timeouts are possible whenever something is waited for, and counted, not timed. That
  the proxy of `docker/nginx.conf:24` gives up before a handler does is a lost reply
  here, and its retry an ordinary request.
- A composition of creation and interview in one model: the two share the `sessions` row
  only before (creation) and after (interview) the commit that publishes it, which
  `ImplementsRegistry` is about; nothing interleaves with it.
- Several processes in `WorkerProcess`: they share the database only, which `Interview` and
  `SessionCreation` cover, slots being threads of any process.
- Reading the environment, logging, migrations, the frontend, scripts, the load test and
  deployment, which have no state or no logic of their own.
