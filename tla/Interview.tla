------------------------------ MODULE Interview ------------------------------
(***************************************************************************)
(* The interview state machine of app/orchestration/interview_service.py:  *)
(* concurrent submit_answer, complete_session and get_report requests on   *)
(* one session, over the transactions of the database.  Sessions share no  *)
(* row, so one session is enough.                                          *)
(*                                                                         *)
(* The tables are the committed state.  A request is served by a slot (a   *)
(* worker thread with an ORM session of its own).  A transaction's writes  *)
(* are invisible to the others until it commits, except that the row it    *)
(* has updated is locked: the slot's pc and target say which row, so       *)
(* uncommitted writes need no variables.  PostgreSQL runs the transactions *)
(* READ COMMITTED: a SELECT sees what is committed when it runs.           *)
(***************************************************************************)
EXTENDS Naturals, Sequences, FiniteSets

CONSTANTS
  NumQuestions,  \* the top-level questions create_session has seeded
  MaxFollowups,  \* settings.max_followups_per_question
  Texts,         \* question texts, up to followup._normalize
  SeedText,      \* the text of each seeded question, by rank
  NoText,        \* FollowupDecision.question = None or ""
  Requests,      \* the slots that serve requests
  Nothing        \* the absent question or report of a response

Ranks == 1..NumQuestions

ASSUME ConfigAssumption ==
  /\ NumQuestions \in Nat \ {0}
  /\ MaxFollowups \in Nat
  /\ SeedText \in [Ranks -> Texts]
  /\ NoText \notin Texts

(***************************************************************************)
(* A question row is named by its thread (the rank of its top-level        *)
(* question) and its position there in the order of created_at: position 1 *)
(* is the top-level question, the others are its follow-ups.               *)
(***************************************************************************)
QuestionId == Ranks \X (Nat \ {0})

VARIABLES
  thread,     \* questions table: the texts of each thread, in order
  answered,   \* questions.status: the ids whose status is ANSWERED
  answers,    \* answers table: the slot whose answer a question has
  session,    \* sessions.status
  reports,    \* assessment_reports table
  pc,         \* how far the request of a slot has come
  target,     \* the question the slot's request answers
  asked,      \* texts of previous_turns, read before the LLM is called
  followups,  \* top_level.follow_ups, read before the LLM is called
  decision,   \* the FollowupDecision in force
  turns,      \* the answered questions a report is built from
  reply       \* the last response of a slot

db   == <<thread, answered, answers, session, reports>>
mem  == <<asked, followups, decision, turns>>
vars == <<db, mem, pc, target, reply>>

FollowupDecision == [follow_up_required : BOOLEAN, question : Texts \cup {NoText}]

NoFollowup == [follow_up_required |-> FALSE, question |-> NoText]

\* Mutant: a required follow-up is taken to have a text.
RequiresFollowup(d) == d.follow_up_required

AsksFollowup(d) == d.follow_up_required /\ d.question # NoText

(***************************************************************************)
(* Views of the committed tables.                                          *)
(***************************************************************************)
Questions == UNION {{<<t, i>> : i \in 1..Len(thread[t])} : t \in Ranks}

Text(q) == thread[q[1]][q[2]]

\* Mutant: follow-ups are not looked at.
PendingTopLevel == {q \in Questions : q[2] = 1 /\ q \notin answered}

Pending == Questions \ answered

Precedes(p, q) == p[1] < q[1] \/ (p[1] = q[1] /\ p[2] < q[2])

\* get_current_question, None when nothing is Pending: by rank, then in
\* thread order, the first PENDING question.
IsCurrent(q) == q \in Pending /\ \A p \in Pending : ~ Precedes(p, q)

AnsweredTurns == {q \in Questions : \E a \in answers : a.question = q}

(***************************************************************************)
(* Locations.  A submit_answer holds the lock of its question's row from   *)
(* the flush to the end of its transaction, across the RAG and LLM calls.  *)
(***************************************************************************)
\* Mutant: nothing is flushed before the commit.
HoldingAtCommit == {"decided"}

Holding    == {"flushed", "listed", "retrieving", "decided"}
Submitting == Holding \cup {"pending", "committed", "closing"}
Completing == {"checking", "reporting", "storing"}
Locations  == {"idle"} \cup Submitting \cup Completing

Holds(r, q) == pc[r] \in Holding /\ target[r] = q

\* What lets a flush through: nobody else holds the row of q.
Unlocked(q) == ~ \E s \in Requests : Holds(s, q)

\* Mutant: the constraint is missing.
AnyAnswer(q) == TRUE

\* The constraint UNIQUE(question_id) of answers, and of reports its
\* UNIQUE(session_id), against what is committed.
UniqueAnswer(q) == \A a \in answers : a.question # q
UniqueReport    == reports = {}

ResponseTypes == {"none", "invalid", "not_found", "conflict", "incomplete",
                  "unavailable", "upstream", "error",
                  "follow_up", "next_question", "complete", "report"}

Response(type)     == [type |-> type, question |-> Nothing, report |-> Nothing]
Asking(type, q)    == [Response(type) EXCEPT !.question = q]
Reporting(row)     == [Response("report") EXCEPT !.report = row.by]

-----------------------------------------------------------------------------
Init ==
  /\ thread    = [t \in Ranks |-> <<SeedText[t]>>]
  /\ answered  = {}
  /\ answers   = {}
  /\ session   = "IN_PROGRESS"
  /\ reports   = {}
  /\ pc        = [r \in Requests |-> "idle"]
  /\ target    = [r \in Requests |-> Nothing]
  /\ asked     = [r \in Requests |-> {}]
  /\ followups = [r \in Requests |-> <<>>]
  /\ decision  = [r \in Requests |-> NoFollowup]
  /\ turns     = [r \in Requests |-> {}]
  /\ reply     = [r \in Requests |-> Response("none")]

Goto(r, loc) == pc' = [pc EXCEPT ![r] = loc]

\* A request arrives at slot r.
Begin(r, loc, q) ==
  /\ pc[r] = "idle"
  /\ Goto(r, loc)
  /\ target' = [target EXCEPT ![r] = q]
  /\ reply' = [reply EXCEPT ![r] = Response("none")]
  /\ UNCHANGED <<db, mem>>

\* Slot r responds; get_session closes its ORM session, which rolls back
\* whatever is not committed and forgets what it has read.
Finish(r, response) ==
  /\ Goto(r, "idle")
  /\ reply' = [reply EXCEPT ![r] = response]
  /\ asked' = [asked EXCEPT ![r] = {}]
  /\ followups' = [followups EXCEPT ![r] = <<>>]
  /\ decision' = [decision EXCEPT ![r] = NoFollowup]
  /\ turns' = [turns EXCEPT ![r] = {}]
  /\ UNCHANGED target

\* The response after a commit.  It can still fail (a refresh that finds no
\* connection, a worker that dies): what is committed stays.
Conclude(r, response) ==
  \E given \in {response, Response("error")} : Finish(r, given)

\* A request answered at once, from what it reads or from its own body.
Respond(r, q, response) ==
  /\ pc[r] = "idle"
  /\ target' = [target EXCEPT ![r] = q]
  /\ reply' = [reply EXCEPT ![r] = response]
  /\ UNCHANGED <<db, mem, pc>>

-----------------------------------------------------------------------------
(***************************************************************************)
(* POST /questions/{id}/answer                                             *)
(***************************************************************************)

\* An empty or oversized answer, or an unknown question.
Reject(r) ==
  \E type \in {"invalid", "not_found"} : Respond(r, Nothing, Response(type))

\* Mutant: a question another request is answering counts as answered.
ReadQuestionNoWait(r, q) ==
  IF q \in answered \/ ~ Unlocked(q)
  THEN Respond(r, q, Response("conflict"))
  ELSE Begin(r, "pending", q)

\* The status check, before anything is written.
ReadQuestion(r, q) ==
  IF q \in answered
  THEN Respond(r, q, Response("conflict"))
  ELSE Begin(r, "pending", q)

\* The flush: UPDATE questions waits for the row, INSERT answers meets the
\* unique constraint.
Flush(r) ==
  /\ pc[r] = "pending"
  /\ Unlocked(target[r])
  /\ UNCHANGED db
  /\ IF UniqueAnswer(target[r])
     THEN Goto(r, "flushed") /\ UNCHANGED <<mem, target, reply>>
     ELSE Finish(r, Response("conflict"))

\* SELECT session.questions: the previous turns.
ReadTurns(r) ==
  /\ pc[r] = "flushed"
  /\ asked' = [asked EXCEPT ![r] = {Text(q) : q \in answered \ {target[r]}}]
  /\ Goto(r, "listed")
  /\ UNCHANGED <<db, followups, decision, turns, target, reply>>

\* SELECT top_level.follow_ups: cached, the depth cap uses it later.
ReadFollowups(r) ==
  /\ pc[r] = "listed"
  /\ followups' = [followups EXCEPT ![r] = Tail(thread[target[r][1]])]
  /\ Goto(r, "retrieving")
  /\ UNCHANGED <<db, asked, decision, turns, target, reply>>

\* Mutant: the status is not updated.
StoreAnswerOnly(r) ==
  /\ answers' = answers \cup {[question |-> target[r], by |-> r]}
  /\ UNCHANGED <<answered, session, reports>>

StoreAnswer(r) ==
  /\ answered' = answered \cup {target[r]}
  /\ answers' = answers \cup {[question |-> target[r], by |-> r]}
  /\ UNCHANGED <<session, reports>>

\* Mutant: the answer is committed all the same.
DecisionFailsCommitting(r) ==
  /\ pc[r] = "retrieving"
  /\ \E type \in {"unavailable", "upstream"} : Finish(r, Response(type))
  /\ StoreAnswer(r)
  /\ UNCHANGED thread

\* RAG unavailable (503), or the LLM call or its repairs failed (502).
DecisionFails(r) ==
  /\ pc[r] = "retrieving"
  /\ \E type \in {"unavailable", "upstream"} : Finish(r, Response(type))
  /\ UNCHANGED db

\* Mutant: the previous turns are forgotten.
AlreadyFollowedUp(r) ==
  {followups[r][i] : i \in DOMAIN followups[r]} \cup {Text(target[r])}

AlreadyAsked(r) ==
  asked[r] \cup {followups[r][i] : i \in DOMAIN followups[r]}
    \cup {Text(target[r])}

DropDuplicate(r, d) ==
  IF d.follow_up_required /\ d.question \in AlreadyAsked(r)
  THEN NoFollowup ELSE d

\* Mutant: one follow-up too many.
CapDepthLate(r, d) ==
  IF d.follow_up_required /\ Len(followups[r]) > MaxFollowups
  THEN NoFollowup ELSE d

CapDepth(r, d) ==
  IF d.follow_up_required /\ Len(followups[r]) >= MaxFollowups
  THEN NoFollowup ELSE d

\* decide_followup with whatever the LLM says, then the depth cap.
Decide(r) ==
  /\ pc[r] = "retrieving"
  /\ \E d \in FollowupDecision :
       decision' = [decision EXCEPT ![r] = CapDepth(r, DropDuplicate(r, d))]
  /\ Goto(r, "decided")
  /\ UNCHANGED <<db, asked, followups, turns, target, reply>>

\* The answer and its follow-up in one transaction.
CommitFollowup(r) ==
  LET t == target[r][1] IN
  /\ pc[r] = "decided"
  /\ AsksFollowup(decision[r])
  /\ StoreAnswer(r)
  /\ thread' = [thread EXCEPT ![t] = Append(@, decision[r].question)]
  /\ Conclude(r, Asking("follow_up", <<t, Len(thread[t]) + 1>>))

CommitAnswer(r) ==
  /\ pc[r] = "decided"
  /\ ~ AsksFollowup(decision[r])
  /\ StoreAnswer(r)
  /\ UNCHANGED thread
  /\ Goto(r, "committed")
  /\ UNCHANGED <<mem, target, reply>>

\* Mutant: the questions read before the decision are not refreshed.
ReadNextStale(r) ==
  LET pending == {q \in Questions : Text(q) \notin asked[r] \cup {Text(target[r])}} IN
  /\ pc[r] = "committed"
  /\ UNCHANGED db
  /\ IF pending = {}
     THEN Goto(r, "closing") /\ UNCHANGED <<mem, target, reply>>
     ELSE \E q \in pending : Finish(r, Asking("next_question", q))

\* get_current_question after the commit, in a transaction of its own; the
\* route names the response after the decision, not after the question.
ReadNext(r) ==
  LET type == IF decision[r].follow_up_required
              THEN "follow_up" ELSE "next_question"
  IN
  /\ pc[r] = "committed"
  /\ UNCHANGED db
  /\ IF Pending = {}
     THEN Goto(r, "closing") /\ UNCHANGED <<mem, target, reply>>
     ELSE \E q \in Pending : IsCurrent(q) /\ Finish(r, Asking(type, q))

\* The second commit.
CloseSession(r) ==
  /\ pc[r] = "closing"
  /\ session' = "COMPLETED"
  /\ UNCHANGED <<thread, answered, answers, reports>>
  /\ Conclude(r, Response("complete"))

-----------------------------------------------------------------------------
(***************************************************************************)
(* POST /sessions/{id}/complete and GET /sessions/{id}/report              *)
(***************************************************************************)
BeginComplete(r) ==
  IF UniqueReport
  THEN Begin(r, "checking", Nothing)
  ELSE \E row \in reports : Respond(r, Nothing, Reporting(row))

\* Mutants: the check is dropped; it trusts sessions.status.
CheckCompleteUnguarded(r) ==
  /\ pc[r] = "checking"
  /\ turns' = [turns EXCEPT ![r] = AnsweredTurns]
  /\ Goto(r, "reporting")
  /\ UNCHANGED <<db, asked, followups, decision, target, reply>>

CheckCompleteByStatus(r) ==
  /\ pc[r] = "checking"
  /\ UNCHANGED db
  /\ IF session # "COMPLETED"
     THEN Finish(r, Response("incomplete"))
     ELSE /\ turns' = [turns EXCEPT ![r] = AnsweredTurns]
          /\ Goto(r, "reporting")
          /\ UNCHANGED <<asked, followups, decision, target, reply>>

CheckComplete(r) ==
  /\ pc[r] = "checking"
  /\ UNCHANGED db
  /\ IF Pending # {}
     THEN Finish(r, Response("incomplete"))
     ELSE /\ turns' = [turns EXCEPT ![r] = AnsweredTurns]
          /\ Goto(r, "reporting")
          /\ UNCHANGED <<asked, followups, decision, target, reply>>

\* build_report: retrieval, the analysis of the LLM, the scores.
BuildReport(r) ==
  /\ pc[r] = "reporting"
  /\ Goto(r, "storing")
  /\ UNCHANGED <<db, mem, target, reply>>

ReportFails(r) ==
  /\ pc[r] = "reporting"
  /\ Finish(r, Response("upstream"))
  /\ UNCHANGED db

\* Mutants: the loser returns the report it has built; it waits for ever.
StoreReportOwn(r) ==
  LET row == [by |-> r, turns |-> turns[r]] IN
  /\ pc[r] = "storing"
  /\ session' = "COMPLETED"
  /\ reports' = IF UniqueReport THEN reports \cup {row} ELSE reports
  /\ Finish(r, Reporting(row))
  /\ UNCHANGED <<thread, answered, answers>>

StoreReportFirst(r) ==
  LET row == [by |-> r, turns |-> turns[r]] IN
  /\ pc[r] = "storing"
  /\ UniqueReport
  /\ session' = "COMPLETED"
  /\ reports' = reports \cup {row}
  /\ Finish(r, Reporting(row))
  /\ UNCHANGED <<thread, answered, answers>>

\* INSERT the report and close the session, then read the row again; or meet
\* UNIQUE(session_id), roll back and return the winner's row.
StoreReport(r) ==
  /\ pc[r] = "storing"
  /\ UNCHANGED <<thread, answered, answers>>
  /\ IF UniqueReport
     THEN LET row == [by |-> r, turns |-> turns[r]] IN
          /\ session' = "COMPLETED"
          /\ reports' = reports \cup {row}
          /\ Conclude(r, Reporting(row))
     ELSE /\ UNCHANGED <<session, reports>>
          /\ \E row \in reports : Finish(r, Reporting(row))

GetReport(r) ==
  IF reports = {}
  THEN Respond(r, Nothing, Response("not_found"))
  ELSE \E row \in reports : Respond(r, Nothing, Reporting(row))

-----------------------------------------------------------------------------
\* The worker dies, or an exception nobody translates escapes (a RAG
\* endpoint error, a pool timeout): the database rolls the transaction back.
Crash(r) ==
  /\ pc[r] # "idle"
  /\ Finish(r, Response("error"))
  /\ UNCHANGED db

Arrive(r) ==
  \/ Reject(r)
  \/ \E q \in Questions : ReadQuestion(r, q)
  \/ BeginComplete(r)
  \/ GetReport(r)

Proceed(r) ==
  \/ Flush(r) \/ ReadTurns(r) \/ ReadFollowups(r)
  \/ DecisionFails(r) \/ Decide(r)
  \/ CommitFollowup(r) \/ CommitAnswer(r) \/ ReadNext(r) \/ CloseSession(r)
  \/ CheckComplete(r) \/ BuildReport(r) \/ ReportFails(r) \/ StoreReport(r)

Next == \E r \in Requests : Arrive(r) \/ Proceed(r) \/ Crash(r)

Spec == Init /\ [][Next]_vars

(***************************************************************************)
(* Every call of a handler returns: the HTTP clients have timeouts and     *)
(* bounded retries, so a step is never postponed for ever (WF), and        *)
(* PostgreSQL grants a row lock in the order of the waiters, so a waiter   *)
(* is not overtaken for ever (SF).  Nothing obliges a client to call.      *)
(***************************************************************************)
Fairness == \A r \in Requests : WF_vars(Proceed(r)) /\ SF_vars(Flush(r))

FairSpec == Spec /\ Fairness

(***************************************************************************)
(* A persistent client in an environment that recovers: from some moment   *)
(* on nothing crashes and RAG and the LLM answer, and as long as a slot is *)
(* free again and again the current question is submitted again and the    *)
(* report asked for again.  This is assumed, not coded.                    *)
(***************************************************************************)
SubmitCurrent(r) == \E q \in Pending : IsCurrent(q) /\ ReadQuestion(r, q)

Fails(r) == Crash(r) \/ DecisionFails(r) \/ ReportFails(r)

Persistence ==
  /\ <>[][\A r \in Requests : ~ Fails(r)]_vars
  /\ SF_vars(\E r \in Requests : SubmitCurrent(r))
  /\ SF_vars(\E r \in Requests : BeginComplete(r))

PersistentSpec == FairSpec /\ Persistence

-----------------------------------------------------------------------------
(***************************************************************************)
(* Type invariant.                                                         *)
(***************************************************************************)
Reply == [type : ResponseTypes, question : QuestionId \cup {Nothing},
          report : Requests \cup {Nothing}]

\* The tables, and what a slot remembers, have their types.
TypeOK ==
  /\ thread    \in [Ranks -> Seq(Texts)]
  /\ answered  \in SUBSET QuestionId
  /\ answers   \in SUBSET [question : QuestionId, by : Requests]
  /\ session   \in {"IN_PROGRESS", "COMPLETED"}
  /\ reports   \in SUBSET [by : Requests, turns : SUBSET QuestionId]
  /\ pc        \in [Requests -> Locations]
  /\ target    \in [Requests -> QuestionId \cup {Nothing}]
  /\ asked     \in [Requests -> SUBSET Texts]
  /\ followups \in [Requests -> Seq(Texts)]
  /\ decision  \in [Requests -> FollowupDecision]
  /\ turns     \in [Requests -> SUBSET QuestionId]
  /\ reply     \in [Requests -> Reply]

(***************************************************************************)
(* Safety.                                                                 *)
(***************************************************************************)

\* The depth cap holds in the database, although it is decided on a count
\* read before the LLM call.
DepthCap == \A t \in Ranks : Len(thread[t]) <= MaxFollowups + 1

\* A thread is asked one question at a time: only its last can be PENDING.
OnePendingPerThread ==
  \A q \in Questions : q \notin answered => q[2] = Len(thread[q[1]])

\* Status and answers agree: the ANSWERED questions are those with an
\* answer, and no question has two.
OneAnswerEach ==
  /\ answered = {a.question : a \in answers}
  /\ \A a1, a2 \in answers : a1.question = a2.question => a1 = a2

\* No thread asks the same text twice, although the texts to avoid were
\* collected by two queries before the LLM call.
NoRepeatInThread ==
  \A t \in Ranks : \A i, j \in 1..Len(thread[t]) :
    thread[t][i] = thread[t][j] => i = j

\* The follow-ups cached before the LLM call are still all there are when
\* the depth cap and the duplicate check use them.
FollowupsNotStale ==
  \A r \in Requests : pc[r] \in {"retrieving", "decided"} =>
    followups[r] = Tail(thread[target[r][1]])

\* A client told "already answered" can rely on it: 409 is never given for
\* an answer that may yet be rolled back.
ConflictMeansAnswered ==
  \A r \in Requests : reply[r].type = "conflict" => target[r] \in answered

\* A client told what comes next has its answer stored, and no other one.
AcceptedAnswerIsStored ==
  \A r \in Requests :
    reply[r].type \in {"follow_up", "next_question", "complete"} =>
      [question |-> target[r], by |-> r] \in answers

\* What a client is told of its answer is true, whatever other submits of
\* the same question do: neither a refusal nor a next step can be undone.
RepliesAreTrue == ConflictMeansAnswered /\ AcceptedAnswerIsStored

\* A report is built from every question of the interview, for ever: no
\* question is asked, and no answer accepted, after its turns were read.
ReportCoversInterview ==
  \A row \in reports : row.turns = Questions /\ Questions = answered

\* Everyone who is given a report is given the same one, the stored one,
\* the loser of two concurrent completions included.
OneReportForAll ==
  \A r \in Requests : reply[r].type = "report" =>
    {row.by : row \in reports} = {reply[r].report}

\* A session is never COMPLETED with a question open.
CompletedMeansAnswered == session = "COMPLETED" => Questions \subseteq answered

\* Neither way to complete an interview, the last submit or a request for
\* the report, overtakes an answer or a follow-up that is under way.
NothingIsOvertaken == CompletedMeansAnswered /\ ReportCoversInterview

\* interview_service: a follow_up response carries the follow-up.
FollowupReplyCarriesFollowup ==
  \A r \in Requests : reply[r].type = "follow_up" =>
    reply[r].question[1] = target[r][1] /\ reply[r].question[2] > 1

(***************************************************************************)
(* Actions and liveness.                                                   *)
(***************************************************************************)

\* The questions that can still be open: of a thread whose last question is,
\* that one and the follow-ups the depth cap leaves.
StillToAsk ==
  {q \in Ranks \X (1..(MaxFollowups + 1)) :
     /\ <<q[1], Len(thread[q[1]])>> \notin answered
     /\ q[2] >= Len(thread[q[1]])}

\* Every answer accepted brings the interview nearer to its end, follow-ups
\* and concurrent submits notwithstanding, and nothing takes it further away.
InterviewShrinks ==
  [][/\ StillToAsk' \subseteq StillToAsk
     /\ answers' # answers => StillToAsk' # StillToAsk
     /\ Pending' \subseteq StillToAsk']_vars

\* An interview takes no more answers than its settings say, and no more
\* than are still to be asked for.
AnswersBounded ==
  /\ IsFiniteSet(answers)
  /\ Cardinality(answers) + Cardinality(StillToAsk)
       <= NumQuestions * (MaxFollowups + 1)

\* get_current_question has one answer as long as a question is open.
CurrentIsDefined ==
  Pending # {} => \E q \in Pending : \A p \in Pending : IsCurrent(p) <=> p = q

\* Once COMPLETED an interview is frozen: no question, answer or status
\* changes, whatever is still in flight.
CompletedIsFinal ==
  [][session = "COMPLETED" => UNCHANGED <<thread, answered, answers, session>>]_vars

\* A submit refused for a failure of RAG or the LLM leaves its question
\* open, so that the same answer can be submitted again.
RefusalLeavesQuestionOpen ==
  [][\A r \in Requests :
       (pc[r] \in Submitting /\ reply'[r].type \in {"unavailable", "upstream"})
         => target[r] \notin answered']_vars

\* Everything is answered, the session is open, and nobody is about to close it.
Stranded ==
  /\ Questions \subseteq answered
  /\ session = "IN_PROGRESS"
  /\ \A r \in Requests : pc[r] \notin {"committed", "closing"}

\* Whoever answers last closes the session, whatever the interleaving of
\* the last answers: only an exception or a death between its two commits
\* leaves an answered interview open.
LastAnswerCloses ==
  [][(~Stranded /\ Stranded') =>
       \E r \in Requests : pc[r] \in {"committed", "closing"}
                            /\ reply'[r].type = "error"]_vars

\* Every request ends, the ones that wait for a row lock included.
EveryRequestEnds == \A r \in Requests : (pc[r] # "idle") ~> (pc[r] = "idle")

\* A persistent client gets to the report, crashes and failures notwith-
\* standing, a crash between the two commits of the last answer included.
InterviewIsReported == <>(session = "COMPLETED" /\ reports # {})

(***************************************************************************)
(* Refinement: each transaction that changes the tables is one step of the *)
(* contract, and no other step changes anything the contract sees.         *)
(***************************************************************************)
Contract == INSTANCE InterviewContract WITH
  depth    <- [t \in Ranks |-> Len(thread[t]) - 1],
  open     <- [t \in Ranks |-> <<t, Len(thread[t])>> \notin answered],
  reported <- (reports # {})

\* Interleaved requests, crashes and failures add up to the sequential
\* interview of InterviewContract.
ImplementsContract == Contract!Spec
=============================================================================
