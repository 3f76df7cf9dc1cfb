--------------------------- MODULE InterviewProofs ---------------------------
(***************************************************************************)
(* Proofs about Interview, for every number of questions and follow-ups    *)
(* and every set of texts and slots.                                       *)
(***************************************************************************)
EXTENDS Interview, TLAPS

Row == [by : Requests, turns : SUBSET QuestionId]

(***************************************************************************)
(* The types of what the actions put into the variables.                   *)
(***************************************************************************)

\* Every response an action can give is a Reply.
LEMMA ResponseIsReply ==
  ASSUME NEW type \in ResponseTypes
  PROVE  /\ Response(type) \in Reply
         /\ \A q \in QuestionId : Asking(type, q) \in Reply
         /\ \A row \in Row : Reporting(row) \in Reply
<1>1. Response(type) \in Reply
  BY DEF Response, Reply
<1>2. ASSUME NEW q \in QuestionId PROVE Asking(type, q) \in Reply
  BY <1>2 DEF Asking, Response, Reply
<1>3. ASSUME NEW row \in Row PROVE Reporting(row) \in Reply
  BY <1>3 DEF Reporting, Response, Reply, Row, ResponseTypes
<1> QED BY <1>1, <1>2, <1>3

\* A question row has an id.
LEMMA QuestionsTyped ==
  ASSUME TypeOK
  PROVE  /\ Questions \subseteq QuestionId
         /\ \A q : q \in Questions <=>
              \E t \in Ranks : \E i \in 1..Len(thread[t]) : q = <<t, i>>
         /\ \A q \in Questions : Text(q) \in Texts
<1>1. \A q : q \in Questions <=>
        \E t \in Ranks : \E i \in 1..Len(thread[t]) : q = <<t, i>>
  BY DEF Questions
<1>2. ASSUME NEW q \in Questions
      PROVE  q \in QuestionId /\ Text(q) \in Texts
  <2>1. PICK t \in Ranks : \E i \in 1..Len(thread[t]) : q = <<t, i>>
    BY <1>1, <1>2
  <2>2. thread[t] \in Seq(Texts)
    BY DEF TypeOK
  <2> QED BY <2>1, <2>2 DEF QuestionId, Text
<1> QED BY <1>1, <1>2

-----------------------------------------------------------------------------
(***************************************************************************)
(* Type correctness.  The tables and the memory of the slots are typed     *)
(* apart, because most actions change only one of the two.                 *)
(***************************************************************************)
TablesOK ==
  /\ thread   \in [Ranks -> Seq(Texts)]
  /\ answered \in SUBSET QuestionId
  /\ answers  \in SUBSET [question : QuestionId, by : Requests]
  /\ session  \in {"IN_PROGRESS", "COMPLETED"}
  /\ reports  \in SUBSET Row

SlotsOK ==
  /\ pc        \in [Requests -> Locations]
  /\ target    \in [Requests -> QuestionId \cup {Nothing}]
  /\ asked     \in [Requests -> SUBSET Texts]
  /\ followups \in [Requests -> Seq(Texts)]
  /\ decision  \in [Requests -> FollowupDecision]
  /\ turns     \in [Requests -> SUBSET QuestionId]
  /\ reply     \in [Requests -> Reply]

LEMMA TypeOKSplit == TypeOK <=> TablesOK /\ SlotsOK
BY DEF TypeOK, TablesOK, SlotsOK, Row

LEMMA LocationsTyped ==
  /\ Holding \subseteq Locations
  /\ {"idle", "pending", "committed", "closing", "checking", "reporting",
      "storing"} \subseteq Locations
BY DEF Holding, Locations, Submitting, Completing

LEMMA NoFollowupTyped == NoFollowup \in FollowupDecision
BY DEF NoFollowup, FollowupDecision

\* Responding resets a slot to typed values.
LEMMA FinishTyped ==
  ASSUME SlotsOK, NEW r \in Requests, NEW response \in Reply,
         Finish(r, response)
  PROVE  SlotsOK'
BY NoFollowupTyped, LocationsTyped DEF SlotsOK, Finish, Goto

LEMMA RespondTyped ==
  ASSUME TypeOK, NEW r \in Requests, NEW response \in Reply,
         NEW q \in QuestionId \cup {Nothing}, Respond(r, q, response)
  PROVE  TypeOK'
BY DEF TypeOK, Respond, db, mem

LEMMA BeginTyped ==
  ASSUME TypeOK, NEW r \in Requests, NEW loc \in Locations,
         NEW q \in QuestionId \cup {Nothing}, Begin(r, loc, q)
  PROVE  TypeOK'
<1>1. Response("none") \in Reply
  BY ResponseIsReply DEF ResponseTypes
<1> QED BY <1>1 DEF TypeOK, Begin, Goto, db, mem

\* The slot of a request moves on and nothing else changes.
LEMMA MoveTyped ==
  ASSUME SlotsOK, NEW r \in Requests, NEW loc \in Locations, Goto(r, loc),
         UNCHANGED <<mem, target, reply>>
  PROVE  SlotsOK'
BY DEF SlotsOK, Goto, mem

LEMMA StoreAnswerTyped ==
  ASSUME TypeOK, NEW r \in Requests, target[r] \in QuestionId, StoreAnswer(r)
  PROVE  /\ answered' \in SUBSET QuestionId
         /\ answers' \in SUBSET [question : QuestionId, by : Requests]
         /\ session' = session /\ reports' = reports
BY DEF TypeOK, StoreAnswer

-----------------------------------------------------------------------------
(***************************************************************************)
(* The inductive invariant.  TablesInv is about the tables alone.          *)
(* SlotInv(r) is what the progress of slot r says of the tables: what it   *)
(* has locked, what it read before the LLM call and still relies on, what  *)
(* it has committed, and what its last response told the client.           *)
(* LockExclusive is the only part that relates two slots.                  *)
(***************************************************************************)
AllAnswered == Questions \subseteq answered

TablesInv ==
  /\ \A t \in Ranks : Len(thread[t]) > 0
  /\ answered \subseteq Questions
  /\ OnePendingPerThread
  /\ OneAnswerEach
  /\ DepthCap
  /\ NoRepeatInThread
  /\ session = "COMPLETED" => AllAnswered
  /\ reports # {} => session = "COMPLETED"
  /\ \A row \in reports : row.turns = Questions
  /\ \A row1, row2 \in reports : row1 = row2

\* What slot r has read of its thread before the LLM call is up to date.
ThreadRead(r) ==
  LET t == target[r][1] IN
  /\ pc[r] \in {"listed", "retrieving", "decided"} =>
       \A i \in 1..(Len(thread[t]) - 1) : thread[t][i] \in asked[r]
  /\ pc[r] \in {"retrieving", "decided"} => followups[r] = Tail(thread[t])

\* The decision of slot r can be carried out.
DecisionSound(r) ==
  LET t == target[r][1] IN
  (pc[r] = "decided" /\ AsksFollowup(decision[r])) =>
    /\ Len(thread[t]) <= MaxFollowups
    /\ \A i \in 1..Len(thread[t]) : thread[t][i] # decision[r].question

ReplyTrue(r) ==
  /\ reply[r].type = "conflict" => target[r] \in answered
  /\ reply[r].type \in {"follow_up", "next_question", "complete"} =>
       [question |-> target[r], by |-> r] \in answers
  /\ reply[r].type = "report" => {row.by : row \in reports} = {reply[r].report}

SlotInv(r) ==
  /\ pc[r] # "idle" => reply[r].type = "none"
  /\ pc[r] \in Submitting => target[r] \in Questions
  /\ pc[r] \in Holding => target[r] \notin answered
  /\ pc[r] \in {"committed", "closing"} =>
       [question |-> target[r], by |-> r] \in answers
  /\ pc[r] \in {"closing", "reporting", "storing"} => AllAnswered
  /\ pc[r] \in {"reporting", "storing"} => turns[r] = Questions
  /\ ThreadRead(r)
  /\ DecisionSound(r)
  /\ ReplyTrue(r)

LockExclusive ==
  \A r, s \in Requests :
    (pc[r] \in Holding /\ pc[s] \in Holding /\ target[r] = target[s]) => r = s

IInv ==
  /\ TypeOK
  /\ TablesInv
  /\ LockExclusive
  /\ \A r \in Requests : SlotInv(r)

-----------------------------------------------------------------------------
(***************************************************************************)
(* TypeOK is preserved: it needs TargetAsked, the part of SlotInv that     *)
(* says a submit has a question to answer.                                 *)
(***************************************************************************)
LEMMA SubmittingTarget ==
  ASSUME IInv, NEW r \in Requests, pc[r] \in Submitting
  PROVE  target[r] \in QuestionId
BY QuestionsTyped DEF IInv, SlotInv

LEMMA TypeStep ==
  ASSUME IInv, NEW r \in Requests, Arrive(r) \/ Proceed(r) \/ Crash(r)
  PROVE  TypeOK'
<1> USE DEF IInv
<1>0. TablesOK /\ SlotsOK /\ (UNCHANGED db => TablesOK') /\ (TablesOK' /\ SlotsOK' => TypeOK')
  BY TypeOKSplit DEF TypeOK, TablesOK, SlotsOK, Row, db
<1>1. \A type \in ResponseTypes :
        /\ Response(type) \in Reply
        /\ \A q \in QuestionId : Asking(type, q) \in Reply
        /\ \A row \in Row : Reporting(row) \in Reply
  BY ResponseIsReply
<1>2. CASE Reject(r)
  <2>1. PICK type \in {"invalid", "not_found"} : Respond(r, Nothing, Response(type))
    BY <1>2 DEF Reject
  <2> QED BY <1>1, <2>1, RespondTyped DEF ResponseTypes
<1>3. ASSUME NEW q \in Questions, ReadQuestion(r, q) PROVE TypeOK'
  <2>1. q \in QuestionId
    BY QuestionsTyped
  <2>2. CASE q \in answered
    BY <1>1, <1>3, <2>1, <2>2, RespondTyped DEF ReadQuestion, ResponseTypes
  <2>3. CASE q \notin answered
    BY <1>3, <2>1, <2>3, BeginTyped, LocationsTyped DEF ReadQuestion
  <2> QED BY <2>2, <2>3
<1>4. \A row \in reports : row \in Row
  BY <1>0 DEF TablesOK
<1>5. CASE BeginComplete(r)
  <2>1. CASE UniqueReport
    BY <1>5, <2>1, BeginTyped, LocationsTyped DEF BeginComplete
  <2>2. CASE ~ UniqueReport
    BY <1>1, <1>4, <1>5, <2>2, RespondTyped DEF BeginComplete, ResponseTypes
  <2> QED BY <2>1, <2>2
<1>6. CASE GetReport(r)
  <2>1. CASE reports = {}
    BY <1>1, <1>6, <2>1, RespondTyped DEF GetReport, ResponseTypes
  <2>2. CASE reports # {}
    BY <1>1, <1>4, <1>6, <2>2, RespondTyped DEF GetReport, ResponseTypes
  <2> QED BY <2>1, <2>2
<1>7. CASE Flush(r)
  <2>1. CASE UniqueAnswer(target[r])
    BY <1>0, <1>7, <2>1, MoveTyped, LocationsTyped DEF Flush, Holding
  <2>2. CASE ~ UniqueAnswer(target[r])
    BY <1>0, <1>1, <1>7, <2>2, FinishTyped DEF Flush, ResponseTypes
  <2> QED BY <2>1, <2>2
<1>8. CASE ReadTurns(r)
  <2>1. \A q \in answered : Text(q) \in Texts
    BY QuestionsTyped DEF TablesInv
  <2>2. {Text(q) : q \in answered \ {target[r]}} \in SUBSET Texts
    BY <2>1
  <2> QED BY <1>0, <1>8, <2>2, LocationsTyped DEF ReadTurns, SlotsOK, Goto, Holding
<1>9. CASE ReadFollowups(r)
  <2>1. target[r] \in QuestionId
    BY <1>9, SubmittingTarget DEF ReadFollowups, Submitting, Holding
  <2>2. thread[target[r][1]] \in Seq(Texts) /\ thread[target[r][1]] # <<>>
    BY <2>1, <1>0 DEF TablesInv, TablesOK, QuestionId
  <2>3. Tail(thread[target[r][1]]) \in Seq(Texts)
    BY <2>2
  <2> QED BY <1>0, <1>9, <2>3, LocationsTyped DEF ReadFollowups, SlotsOK, Goto, Holding
<1>10. CASE DecisionFails(r)
  BY <1>0, <1>1, <1>10, FinishTyped DEF DecisionFails, ResponseTypes
<1>11. CASE Decide(r)
  <2>1. PICK d \in FollowupDecision :
          decision' = [decision EXCEPT ![r] = CapDepth(r, DropDuplicate(r, d))]
    BY <1>11 DEF Decide
  <2>2. CapDepth(r, DropDuplicate(r, d)) \in FollowupDecision
    BY NoFollowupTyped DEF CapDepth, DropDuplicate
  <2> QED BY <1>0, <1>11, <2>1, <2>2, LocationsTyped DEF Decide, SlotsOK, Goto, Holding
<1>12. CASE CommitFollowup(r)
  <2>1. target[r] \in QuestionId
    BY <1>12, SubmittingTarget DEF CommitFollowup, Submitting, Holding
  <2>2. PICK t \in Ranks : t = target[r][1]
    BY <2>1 DEF QuestionId
  <2>3. thread[t] \in Seq(Texts) /\ decision[r] \in FollowupDecision
    BY <1>0 DEF TablesOK, SlotsOK
  <2>4. decision[r].question \in Texts
    BY <1>12, <2>3 DEF CommitFollowup, AsksFollowup, FollowupDecision
  <2>5. <<t, Len(thread[t]) + 1>> \in QuestionId
    BY <2>3 DEF QuestionId
  <2>6. Asking("follow_up", <<t, Len(thread[t]) + 1>>) \in Reply
    BY <1>1, <2>5 DEF ResponseTypes
  <2>7. SlotsOK'
    <3>1. PICK given \in {Asking("follow_up", <<t, Len(thread[t]) + 1>>), Response("error")} :
            Finish(r, given)
      BY <1>12, <2>2 DEF CommitFollowup, Conclude
    <3>2. given \in Reply
      BY <1>1, <2>6 DEF ResponseTypes
    <3> QED BY <1>0, <3>1, <3>2, FinishTyped
  <2>8. Append(thread[t], decision[r].question) \in Seq(Texts)
    BY <2>3, <2>4
  <2>9. TablesOK'
    BY <1>0, <1>12, <2>1, <2>2, <2>8, StoreAnswerTyped DEF CommitFollowup, TablesOK
  <2> QED BY <1>0, <2>7, <2>9
<1>13. CASE CommitAnswer(r)
  <2>1. target[r] \in QuestionId
    BY <1>13, SubmittingTarget DEF CommitAnswer, Submitting, Holding
  <2>2. TablesOK'
    BY <1>0, <1>13, <2>1, StoreAnswerTyped DEF CommitAnswer, TablesOK
  <2>3. SlotsOK'
    BY <1>0, <1>13, MoveTyped, LocationsTyped DEF CommitAnswer
  <2> QED BY <1>0, <2>2, <2>3
<1>14. CASE ReadNext(r)
  <2>1. CASE Pending = {}
    BY <1>0, <1>14, <2>1, MoveTyped, LocationsTyped DEF ReadNext
  <2>2. CASE Pending # {}
    <3>1. PICK q \in Pending, type \in ResponseTypes : Finish(r, Asking(type, q))
      BY <1>14, <2>2 DEF ReadNext, ResponseTypes
    <3>2. Asking(type, q) \in Reply
      BY <1>1, QuestionsTyped DEF Pending
    <3> QED BY <1>0, <1>14, <3>1, <3>2, FinishTyped DEF ReadNext
  <2> QED BY <2>1, <2>2
<1>15. CASE CloseSession(r)
  <2>1. PICK type \in {"complete", "error"} : Finish(r, Response(type))
    BY <1>15 DEF CloseSession, Conclude
  <2>2. SlotsOK'
    BY <1>0, <1>1, <2>1, FinishTyped DEF ResponseTypes
  <2>3. TablesOK'
    BY <1>0, <1>15 DEF CloseSession, TablesOK
  <2> QED BY <1>0, <2>2, <2>3
<1>16. CASE CheckComplete(r)
  <2>1. CASE Pending # {}
    BY <1>0, <1>1, <1>16, <2>1, FinishTyped DEF CheckComplete, ResponseTypes
  <2>2. CASE Pending = {}
    <3>1. AnsweredTurns \in SUBSET QuestionId
      BY QuestionsTyped DEF AnsweredTurns
    <3> QED BY <1>0, <1>16, <2>2, <3>1, LocationsTyped DEF CheckComplete, SlotsOK, Goto
  <2> QED BY <2>1, <2>2
<1>17. CASE BuildReport(r)
  BY <1>0, <1>17, MoveTyped, LocationsTyped DEF BuildReport
<1>18. CASE ReportFails(r)
  BY <1>0, <1>1, <1>18, FinishTyped DEF ReportFails, ResponseTypes
<1>19. CASE StoreReport(r)
  <2>1. CASE UniqueReport
    <3> DEFINE row == [by |-> r, turns |-> turns[r]]
    <3>1. row \in Row
      BY <1>0 DEF SlotsOK, Row
    <3>2. Reporting(row) \in Reply
      BY <1>1, <3>1 DEF ResponseTypes
    <3>3. SlotsOK'
      <4>1. PICK given \in {Reporting(row), Response("error")} : Finish(r, given)
        BY <1>19, <2>1 DEF StoreReport, Conclude
      <4>2. given \in Reply
        BY <1>1, <3>2 DEF ResponseTypes
      <4> QED BY <1>0, <4>1, <4>2, FinishTyped
    <3>4. TablesOK'
      BY <1>0, <1>19, <2>1, <3>1 DEF StoreReport, TablesOK
    <3> QED BY <1>0, <3>3, <3>4
  <2>2. CASE ~ UniqueReport
    <3>1. PICK row \in reports : Finish(r, Reporting(row))
      BY <1>19, <2>2 DEF StoreReport
    <3>2. SlotsOK'
      BY <1>0, <1>1, <1>4, <3>1, FinishTyped DEF ResponseTypes
    <3>3. TablesOK'
      BY <1>0, <1>19, <2>2 DEF StoreReport, TablesOK
    <3> QED BY <1>0, <3>2, <3>3
  <2> QED BY <2>1, <2>2
<1>20. CASE Crash(r)
  BY <1>0, <1>1, <1>20, FinishTyped DEF Crash, ResponseTypes
<1> QED
  BY <1>2, <1>3, <1>5, <1>6, <1>7, <1>8, <1>9, <1>10, <1>11, <1>12, <1>13, <1>14,
     <1>15, <1>16, <1>17, <1>18, <1>19, <1>20 DEF Arrive, Proceed

-----------------------------------------------------------------------------
(***************************************************************************)
(* Steps that change no table.  Such a step of slot r preserves IInv if it *)
(* leaves the other slots alone, SlotInv(r) holds after it, and a lock it  *)
(* takes was free.                                                         *)
(***************************************************************************)
OthersSame(r) ==
  \A s \in Requests \ {r} :
    /\ pc'[s] = pc[s] /\ target'[s] = target[s] /\ asked'[s] = asked[s]
    /\ followups'[s] = followups[s] /\ decision'[s] = decision[s]
    /\ turns'[s] = turns[s] /\ reply'[s] = reply[s]

LEMMA TablesFrame ==
  ASSUME TablesInv, UNCHANGED db
  PROVE  TablesInv' /\ Questions' = Questions
<1>1. Questions' = Questions
  BY DEF Questions, db
<1> QED
  BY <1>1 DEF TablesInv, AllAnswered, OnePendingPerThread, OneAnswerEach, DepthCap,
     NoRepeatInThread, db

\* What a slot has read of a thread stays true while the thread is the same.
LEMMA ThreadFrame ==
  ASSUME NEW r \in Requests, NEW s \in Requests \ {r}, OthersSame(r),
         ThreadRead(s), DecisionSound(s),
         thread'[target[s][1]] = thread[target[s][1]]
  PROVE  ThreadRead(s)' /\ DecisionSound(s)'
<1>1. /\ pc'[s] = pc[s] /\ target'[s] = target[s] /\ asked'[s] = asked[s]
      /\ followups'[s] = followups[s] /\ decision'[s] = decision[s]
  BY DEF OthersSame
<1>2. thread'[target'[s][1]] = thread[target[s][1]]
  BY <1>1
<1>3. ThreadRead(s)'
  BY <1>1, <1>2 DEF ThreadRead
<1>4. DecisionSound(s)'
  BY <1>1, <1>2 DEF DecisionSound
<1> QED BY <1>3, <1>4

LEMMA SlotFrame ==
  ASSUME NEW r \in Requests, NEW s \in Requests \ {r}, OthersSame(r),
         SlotInv(s), UNCHANGED <<thread, answered, answers, reports>>
  PROVE  SlotInv(s)'
<1>1. Questions' = Questions
  BY DEF Questions
<1>2. /\ pc'[s] = pc[s] /\ target'[s] = target[s] /\ asked'[s] = asked[s]
      /\ followups'[s] = followups[s] /\ decision'[s] = decision[s]
      /\ turns'[s] = turns[s] /\ reply'[s] = reply[s]
  BY DEF OthersSame
<1> QED
  BY <1>1, <1>2 DEF SlotInv, ThreadRead, DecisionSound, ReplyTrue, AllAnswered

LEMMA LockFrame ==
  ASSUME LockExclusive, NEW r \in Requests, OthersSame(r),
         pc'[r] \in Holding =>
           /\ target'[r] = target[r]
           /\ pc[r] \in Holding \/ Unlocked(target[r])
  PROVE  LockExclusive'
BY DEF LockExclusive, OthersSame, Unlocked, Holds

LEMMA LocalStep ==
  ASSUME IInv, TypeOK', NEW r \in Requests, OthersSame(r), SlotInv(r)',
         UNCHANGED db,
         pc'[r] \in Holding =>
           /\ target'[r] = target[r]
           /\ pc[r] \in Holding \/ Unlocked(target[r])
  PROVE  IInv'
<1>1. TablesInv'
  BY TablesFrame DEF IInv
<1>2. LockExclusive'
  BY LockFrame DEF IInv
<1>3. \A s \in Requests \ {r} : SlotInv(s)'
  BY SlotFrame DEF IInv, db
<1> QED BY <1>1, <1>2, <1>3 DEF IInv

LEMMA ResponseFields ==
  /\ \A type : Response(type).type = type
  /\ \A type, q : Asking(type, q).type = type
  /\ \A row : Reporting(row).type = "report" /\ Reporting(row).report = row.by
BY DEF Response, Asking, Reporting

\* What responding does to the slots, and what it leaves to be shown.
LEMMA FinishSlots ==
  ASSUME TypeOK, NEW r \in Requests, NEW response, Finish(r, response)
  PROVE  /\ OthersSame(r)
         /\ pc'[r] = "idle" /\ target'[r] = target[r] /\ reply'[r] = response
         /\ ReplyTrue(r)' => SlotInv(r)'
<1>1. OthersSame(r)
  BY DEF TypeOK, Finish, Goto, OthersSame
<1>2. pc'[r] = "idle" /\ target'[r] = target[r] /\ reply'[r] = response
  BY DEF TypeOK, Finish, Goto
<1>3. ReplyTrue(r)' => SlotInv(r)'
  BY <1>2 DEF SlotInv, ThreadRead, DecisionSound, Submitting, Holding
<1> QED BY <1>1, <1>2, <1>3

LEMMA RespondSlots ==
  ASSUME TypeOK, NEW r \in Requests, NEW response, NEW q, Respond(r, q, response)
  PROVE  /\ OthersSame(r)
         /\ pc'[r] = "idle" /\ target'[r] = q /\ reply'[r] = response
         /\ ReplyTrue(r)' => SlotInv(r)'
<1>1. OthersSame(r)
  BY DEF TypeOK, Respond, mem, OthersSame
<1>2. pc'[r] = "idle" /\ target'[r] = q /\ reply'[r] = response
  BY DEF TypeOK, Respond
<1>3. ReplyTrue(r)' => SlotInv(r)'
  BY <1>2 DEF SlotInv, ThreadRead, DecisionSound, Submitting, Holding
<1> QED BY <1>1, <1>2, <1>3

LEMMA BeginSlots ==
  ASSUME TypeOK, NEW r \in Requests, NEW loc, NEW q, Begin(r, loc, q)
  PROVE  /\ OthersSame(r)
         /\ pc'[r] = loc /\ target'[r] = q /\ reply'[r].type = "none"
BY ResponseFields DEF TypeOK, Begin, Goto, mem, OthersSame

LEMMA MoveSlots ==
  ASSUME TypeOK, NEW r \in Requests, NEW loc, Goto(r, loc),
         UNCHANGED <<mem, target, reply>>
  PROVE  OthersSame(r) /\ pc'[r] = loc
BY DEF TypeOK, Goto, mem, OthersSame

\* A failure says nothing of the tables.
LEMMA FailureTrue ==
  ASSUME NEW r \in Requests,
         reply'[r].type \in {"none", "invalid", "not_found", "incomplete",
                             "unavailable", "upstream", "error"}
  PROVE  ReplyTrue(r)'
BY DEF ReplyTrue

\* Once there is a report it is the only one, and the one to be given.
LEMMA ReportTrue ==
  ASSUME TablesInv, NEW r \in Requests, NEW row \in reports, UNCHANGED reports,
         reply'[r] = Reporting(row)
  PROVE  ReplyTrue(r)'
<1>1. {row1.by : row1 \in reports} = {row.by}
  BY DEF TablesInv
<1> QED BY <1>1, ResponseFields DEF ReplyTrue

\* Arriving requests.
LEMMA ArriveStep ==
  ASSUME IInv, TypeOK', NEW r \in Requests, Arrive(r)
  PROVE  IInv'
<1> USE DEF IInv
<1>1. ASSUME NEW q, NEW response, Respond(r, q, response),
             response.type \in {"invalid", "not_found"}
      PROVE  IInv'
  <2>1. OthersSame(r) /\ pc'[r] = "idle" /\ UNCHANGED db
    BY <1>1, RespondSlots DEF Respond
  <2>2. SlotInv(r)'
    BY <1>1, RespondSlots, FailureTrue
  <2> QED BY <2>1, <2>2, LocalStep DEF Holding
<1>2. ASSUME NEW row \in reports, NEW q, Respond(r, q, Reporting(row))
      PROVE  IInv'
  <2>1. OthersSame(r) /\ pc'[r] = "idle" /\ UNCHANGED db
    BY <1>2, RespondSlots DEF Respond
  <2>2. SlotInv(r)'
    BY <1>2, <2>1, RespondSlots, ReportTrue DEF db
  <2> QED BY <2>1, <2>2, LocalStep DEF Holding
<1>3. CASE Reject(r)
  BY <1>1, <1>3, ResponseFields DEF Reject
<1>4. ASSUME NEW q \in Questions, ReadQuestion(r, q) PROVE IInv'
  <2>1. CASE q \in answered
    <3>1. OthersSame(r) /\ pc'[r] = "idle" /\ UNCHANGED db
      BY <1>4, <2>1, RespondSlots DEF ReadQuestion, Respond
    <3>2. reply'[r].type = "conflict" /\ target'[r] = q
      BY <1>4, <2>1, RespondSlots, ResponseFields DEF ReadQuestion
    <3>3. SlotInv(r)'
      BY <1>4, <2>1, <3>1, <3>2, RespondSlots DEF ReadQuestion, ReplyTrue, db
    <3> QED BY <3>1, <3>3, LocalStep DEF Holding
  <2>2. CASE q \notin answered
    <3>1. OthersSame(r) /\ pc'[r] = "pending" /\ target'[r] = q /\ UNCHANGED db
          /\ reply'[r].type = "none"
      BY <1>4, <2>2, BeginSlots DEF ReadQuestion, Begin
    <3>2. Questions' = Questions
      BY <3>1, TablesFrame
    <3>3. SlotInv(r)'
      BY <3>1, <3>2, FailureTrue DEF SlotInv, ThreadRead, DecisionSound, Holding
    <3> QED BY <3>1, <3>3, LocalStep DEF Holding
  <2> QED BY <2>1, <2>2
<1>5. CASE BeginComplete(r)
  <2>1. CASE UniqueReport
    <3>1. OthersSame(r) /\ pc'[r] = "checking" /\ UNCHANGED db /\ reply'[r].type = "none"
      BY <1>5, <2>1, BeginSlots DEF BeginComplete, Begin
    <3>2. SlotInv(r)'
      BY <3>1, FailureTrue DEF SlotInv, ThreadRead, DecisionSound, Submitting, Holding
    <3> QED BY <3>1, <3>2, LocalStep DEF Holding
  <2> QED BY <1>2, <1>5, <2>1 DEF BeginComplete
<1>6. CASE GetReport(r)
  BY <1>1, <1>2, <1>6, ResponseFields DEF GetReport
<1> QED BY <1>3, <1>4, <1>5, <1>6 DEF Arrive

\* A request that ends without having changed a table, with a response that
\* is true of them.
LEMMA QuietFinish ==
  ASSUME IInv, TypeOK', NEW r \in Requests, NEW response, Finish(r, response),
         UNCHANGED db, ReplyTrue(r)'
  PROVE  IInv'
BY FinishSlots, LocalStep DEF IInv, Holding

LEMMA FailingFinish ==
  ASSUME IInv, TypeOK', NEW r \in Requests,
         NEW type \in {"incomplete", "unavailable", "upstream", "error"},
         Finish(r, Response(type)), UNCHANGED db
  PROVE  IInv'
<1>1. reply'[r].type = type
  BY FinishSlots, ResponseFields DEF IInv
<1> QED BY <1>1, QuietFinish, FailureTrue

\* The steps of a request that change no table.
LEMMA FailStep ==
  ASSUME IInv, TypeOK', NEW r \in Requests,
         DecisionFails(r) \/ ReportFails(r) \/ Crash(r)
  PROVE  IInv'
BY FailingFinish DEF DecisionFails, ReportFails, Crash

\* The flush takes a lock that is free, of a question that has no answer.
LEMMA FlushStep ==
  ASSUME IInv, TypeOK', NEW r \in Requests, Flush(r)
  PROVE  IInv'
<1> USE DEF IInv
<1>1. target[r] \in Questions /\ pc[r] = "pending" /\ UNCHANGED db /\ Unlocked(target[r])
  BY DEF Flush, SlotInv, Submitting
<1>2. UniqueAnswer(target[r]) <=> target[r] \notin answered
  BY DEF UniqueAnswer, TablesInv, OneAnswerEach
<1>3. CASE UniqueAnswer(target[r])
  <2>1. OthersSame(r) /\ pc'[r] = "flushed" /\ target'[r] = target[r] /\ reply'[r] = reply[r]
    BY <1>3, MoveSlots DEF Flush
  <2>2. SlotInv(r)'
    BY <1>1, <1>2, <1>3, <2>1, TablesFrame DEF SlotInv, ThreadRead, DecisionSound, ReplyTrue, db
  <2> QED BY <1>1, <2>1, <2>2, LocalStep
<1>4. CASE ~ UniqueAnswer(target[r])
  <2>1. Finish(r, Response("conflict"))
    BY <1>4 DEF Flush
  <2>2. reply'[r].type = "conflict" /\ target'[r] \in answered'
    BY <1>1, <1>2, <1>4, <2>1, FinishSlots, ResponseFields DEF db
  <2> QED BY <1>1, <2>1, <2>2, QuietFinish DEF ReplyTrue
<1> QED BY <1>3, <1>4

\* A thread's last question is the only one that can be pending, so the
\* question a slot has locked is the last of its thread.
LEMMA HolderLast ==
  ASSUME IInv, NEW r \in Requests, pc[r] \in Holding
  PROVE  /\ target[r][1] \in Ranks
         /\ Len(thread[target[r][1]]) \in Nat \ {0}
         /\ target[r] = <<target[r][1], Len(thread[target[r][1]])>>
         /\ target[r] \notin answered
         /\ \A i \in 1..(Len(thread[target[r][1]]) - 1) :
              /\ <<target[r][1], i>> \in answered
              /\ <<target[r][1], i>> # target[r]
<1> USE DEF IInv
<1>1. target[r] \in Questions /\ target[r] \notin answered
  BY DEF SlotInv, Submitting
<1>2. PICK t \in Ranks : \E i \in 1..Len(thread[t]) : target[r] = <<t, i>>
  BY <1>1, QuestionsTyped
<1>3. t = target[r][1] /\ target[r][2] = Len(thread[t]) /\ target[r] = <<t, Len(thread[t])>>
  BY <1>1, <1>2 DEF TablesInv, OnePendingPerThread
<1>4. Len(thread[t]) \in Nat \ {0}
  BY DEF TypeOK, TablesInv
<1>5. ASSUME NEW i \in 1..(Len(thread[t]) - 1)
      PROVE  <<t, i>> \in answered /\ <<t, i>> # target[r]
  <2>1. <<t, i>> \in Questions /\ i # Len(thread[t])
    BY <1>4, QuestionsTyped
  <2> QED BY <1>3, <2>1 DEF TablesInv, OnePendingPerThread
<1> QED BY <1>1, <1>3, <1>4, <1>5

LEMMA ReadTurnsStep ==
  ASSUME IInv, TypeOK', NEW r \in Requests, ReadTurns(r)
  PROVE  IInv'
<1> USE DEF IInv
<1> DEFINE t == target[r][1]
<1>1. pc[r] \in Holding /\ UNCHANGED db
  BY DEF ReadTurns, Holding
<1>2. /\ OthersSame(r) /\ pc'[r] = "listed" /\ target'[r] = target[r]
      /\ reply'[r] = reply[r]
      /\ asked'[r] = {Text(q) : q \in answered \ {target[r]}}
  BY DEF ReadTurns, TypeOK, Goto, OthersSame
<1>3. \A i \in 1..(Len(thread[t]) - 1) : Text(<<t, i>>) \in asked'[r]
  BY <1>1, <1>2, HolderLast
<1>4. \A i \in 1..(Len(thread[t]) - 1) : thread[t][i] \in asked'[r]
  BY <1>3 DEF Text
<1>5. ThreadRead(r)'
  BY <1>1, <1>2, <1>4 DEF ThreadRead, db
<1>6. SlotInv(r)'
  BY <1>1, <1>2, <1>5, TablesFrame DEF SlotInv, DecisionSound, ReplyTrue, Submitting, Holding, db
<1> QED BY <1>1, <1>2, <1>6, LocalStep

LEMMA ReadFollowupsStep ==
  ASSUME IInv, TypeOK', NEW r \in Requests, ReadFollowups(r)
  PROVE  IInv'
<1> USE DEF IInv
<1>1. pc[r] = "listed" /\ UNCHANGED db
  BY DEF ReadFollowups
<1>2. /\ OthersSame(r) /\ pc'[r] = "retrieving" /\ target'[r] = target[r]
      /\ reply'[r] = reply[r] /\ asked'[r] = asked[r]
      /\ followups'[r] = Tail(thread[target[r][1]])
  BY DEF ReadFollowups, TypeOK, Goto, OthersSame
<1>3. ThreadRead(r)'
  BY <1>1, <1>2 DEF ThreadRead, SlotInv, db
<1>4. SlotInv(r)'
  BY <1>1, <1>2, <1>3, TablesFrame DEF SlotInv, DecisionSound, ReplyTrue, Submitting, Holding, db
<1> QED BY <1>1, <1>2, <1>4, LocalStep DEF Holding

\* A follow-up that is still asked for is not in AlreadyAsked and within the
\* cap, and what the slot has read of its thread is up to date.
LEMMA DecideStep ==
  ASSUME IInv, TypeOK', NEW r \in Requests, Decide(r)
  PROVE  IInv'
<1> USE DEF IInv
<1> DEFINE t == target[r][1]
<1>1. pc[r] = "retrieving" /\ UNCHANGED db
  BY DEF Decide
<1>2. PICK d \in FollowupDecision :
        decision' = [decision EXCEPT ![r] = CapDepth(r, DropDuplicate(r, d))]
  BY DEF Decide
<1>3. /\ OthersSame(r) /\ pc'[r] = "decided" /\ target'[r] = target[r]
      /\ reply'[r] = reply[r] /\ asked'[r] = asked[r] /\ followups'[r] = followups[r]
      /\ decision'[r] = CapDepth(r, DropDuplicate(r, d))
  BY <1>2 DEF Decide, TypeOK, Goto, OthersSame
<1>4. /\ followups[r] = Tail(thread[t])
      /\ \A i \in 1..(Len(thread[t]) - 1) : thread[t][i] \in asked[r]
  BY <1>1 DEF SlotInv, ThreadRead
<1>5. /\ t \in Ranks /\ thread[t] \in Seq(Texts) /\ Len(thread[t]) \in Nat \ {0}
      /\ target[r] = <<t, Len(thread[t])>>
  BY <1>1, HolderLast DEF Holding, TypeOK
<1>6. \A i \in 1..Len(thread[t]) : thread[t][i] \in AlreadyAsked(r)
  BY <1>4, <1>5 DEF AlreadyAsked, Text
<1>7. Len(followups[r]) = Len(thread[t]) - 1
  BY <1>4, <1>5
<1>8. ASSUME AsksFollowup(decision'[r])
      PROVE  /\ Len(thread[t]) <= MaxFollowups
             /\ \A i \in 1..Len(thread[t]) : thread[t][i] # decision'[r].question
  <2>1. /\ decision'[r] = d /\ d.question \notin AlreadyAsked(r)
        /\ ~ (Len(followups[r]) >= MaxFollowups)
    BY <1>3, <1>8 DEF AsksFollowup, CapDepth, DropDuplicate, NoFollowup
  <2> QED BY <1>5, <1>6, <1>7, <2>1, ConfigAssumption
<1>9. DecisionSound(r)'
  BY <1>1, <1>3, <1>8 DEF DecisionSound, AsksFollowup, db
<1>10. ThreadRead(r)'
  BY <1>1, <1>3, <1>4 DEF ThreadRead, db
<1>11. SlotInv(r)'
  BY <1>1, <1>3, <1>9, <1>10, TablesFrame DEF SlotInv, ReplyTrue, Submitting, Holding, db
<1> QED BY <1>1, <1>3, <1>11, LocalStep DEF Holding

LEMMA ReadNextStep ==
  ASSUME IInv, TypeOK', NEW r \in Requests, ReadNext(r)
  PROVE  IInv'
<1> USE DEF IInv
<1>1. pc[r] = "committed" /\ UNCHANGED db /\ [question |-> target[r], by |-> r] \in answers
  BY DEF ReadNext, SlotInv
<1>2. CASE Pending = {}
  <2>1. /\ OthersSame(r) /\ pc'[r] = "closing" /\ target'[r] = target[r]
        /\ reply'[r] = reply[r]
    BY <1>2, MoveSlots DEF ReadNext
  <2>2. AllAnswered
    BY <1>2 DEF Pending, AllAnswered
  <2>3. SlotInv(r)'
    BY <1>1, <2>1, <2>2, TablesFrame
    DEF SlotInv, ThreadRead, DecisionSound, ReplyTrue, Submitting, Holding, AllAnswered, db
  <2> QED BY <1>1, <2>1, <2>3, LocalStep DEF Holding
<1>3. CASE Pending # {}
  <2>1. PICK q \in Pending, type \in {"follow_up", "next_question"} :
          Finish(r, Asking(type, q))
    BY <1>3 DEF ReadNext
  <2>2. reply'[r].type = type /\ target'[r] = target[r]
    BY <2>1, FinishSlots, ResponseFields
  <2>3. ReplyTrue(r)'
    BY <1>1, <2>2 DEF ReplyTrue, db
  <2> QED BY <1>1, <2>1, <2>3, QuietFinish
<1> QED BY <1>2, <1>3

\* The turns of a report are all the questions when none is pending.
LEMMA CheckCompleteStep ==
  ASSUME IInv, TypeOK', NEW r \in Requests, CheckComplete(r)
  PROVE  IInv'
<1> USE DEF IInv
<1>1. pc[r] = "checking" /\ UNCHANGED db
  BY DEF CheckComplete
<1>2. CASE Pending # {}
  BY <1>1, <1>2, FailingFinish DEF CheckComplete
<1>3. CASE Pending = {}
  <2>1. /\ OthersSame(r) /\ pc'[r] = "reporting" /\ reply'[r] = reply[r]
        /\ target'[r] = target[r] /\ turns'[r] = AnsweredTurns
    BY <1>3 DEF CheckComplete, TypeOK, Goto, OthersSame
  <2>2. AllAnswered /\ AnsweredTurns = Questions
    BY <1>3 DEF Pending, AllAnswered, AnsweredTurns, TablesInv, OneAnswerEach
  <2>3. SlotInv(r)'
    BY <1>1, <2>1, <2>2, TablesFrame
    DEF SlotInv, ThreadRead, DecisionSound, ReplyTrue, Submitting, Holding, AllAnswered, db
  <2> QED BY <1>1, <2>1, <2>3, LocalStep DEF Holding
<1> QED BY <1>2, <1>3

LEMMA BuildReportStep ==
  ASSUME IInv, TypeOK', NEW r \in Requests, BuildReport(r)
  PROVE  IInv'
<1> USE DEF IInv
<1>1. /\ OthersSame(r) /\ pc[r] = "reporting" /\ pc'[r] = "storing"
      /\ reply'[r] = reply[r] /\ target'[r] = target[r] /\ turns'[r] = turns[r]
      /\ UNCHANGED db
  BY MoveSlots DEF BuildReport, mem
<1>2. SlotInv(r)'
  BY <1>1, TablesFrame
  DEF SlotInv, ThreadRead, DecisionSound, ReplyTrue, Submitting, Holding, AllAnswered, db
<1> QED BY <1>1, <1>2, LocalStep DEF Holding

-----------------------------------------------------------------------------
(***************************************************************************)
(* Steps that change the tables.                                           *)
(***************************************************************************)

\* A request that ends after its commit: with its response, or with an error.
LEMMA ConcludeSlots ==
  ASSUME TypeOK, NEW r \in Requests, NEW response, Conclude(r, response)
  PROVE  /\ OthersSame(r)
         /\ pc'[r] = "idle" /\ target'[r] = target[r]
         /\ reply'[r] = response \/ reply'[r].type = "error"
         /\ ReplyTrue(r)' => SlotInv(r)'
<1>1. PICK given \in {response, Response("error")} : Finish(r, given)
  BY DEF Conclude
<1> QED BY <1>1, FinishSlots, ResponseFields

\* The second commit of the last answer.
LEMMA CloseStep ==
  ASSUME IInv, TypeOK', NEW r \in Requests, CloseSession(r)
  PROVE  IInv'
<1> USE DEF IInv
<1>1. /\ UNCHANGED <<thread, answered, answers, reports>> /\ session' = "COMPLETED"
      /\ AllAnswered /\ [question |-> target[r], by |-> r] \in answers
  BY DEF CloseSession, SlotInv
<1>2. OthersSame(r) /\ pc'[r] = "idle" /\ target'[r] = target[r]
      /\ reply'[r].type \in {"complete", "error"} /\ (ReplyTrue(r)' => SlotInv(r)')
  BY ConcludeSlots, ResponseFields DEF CloseSession
<1>3. Questions' = Questions
  BY <1>1 DEF Questions
<1>4. TablesInv'
  BY <1>1, <1>3 DEF TablesInv, AllAnswered, OnePendingPerThread, OneAnswerEach,
     DepthCap, NoRepeatInThread
<1>5. SlotInv(r)'
  BY <1>1, <1>2 DEF ReplyTrue
<1>6. ASSUME NEW s \in Requests \ {r} PROVE SlotInv(s)'
  BY <1>1, <1>2, SlotFrame
<1>7. LockExclusive'
  BY <1>2, LockFrame DEF Holding
<1> QED BY <1>4, <1>5, <1>6, <1>7

\* The winner inserts, the loser of UNIQUE(session_id) returns its row.
LEMMA StoreReportStep ==
  ASSUME IInv, TypeOK', NEW r \in Requests, StoreReport(r)
  PROVE  IInv'
<1> USE DEF IInv
<1>1. CASE UniqueReport
  <2> DEFINE row == [by |-> r, turns |-> turns[r]]
  <2>1. /\ UNCHANGED <<thread, answered, answers>> /\ session' = "COMPLETED"
        /\ reports = {} /\ reports' = {row} /\ AllAnswered /\ turns[r] = Questions
    BY <1>1 DEF StoreReport, SlotInv, UniqueReport
  <2>2. /\ OthersSame(r) /\ pc'[r] = "idle"
        /\ reply'[r] = Reporting(row) \/ reply'[r].type = "error"
        /\ ReplyTrue(r)' => SlotInv(r)'
    <3>1. PICK given \in {Reporting(row), Response("error")} : Finish(r, given)
      BY <1>1 DEF StoreReport, Conclude
    <3> QED BY <3>1, FinishSlots, ResponseFields
  <2>3. Questions' = Questions
    BY <2>1 DEF Questions
  <2>4. TablesInv'
    BY <2>1, <2>3 DEF TablesInv, AllAnswered, OnePendingPerThread, OneAnswerEach,
       DepthCap, NoRepeatInThread
  <2>5. {row1.by : row1 \in reports'} = {row.by}
    BY <2>1
  <2>6. SlotInv(r)'
    BY <2>2, <2>5, ResponseFields DEF ReplyTrue
  <2>7. ASSUME NEW s \in Requests \ {r} PROVE SlotInv(s)'
    <3>1. reply[s].type # "report"
      BY <2>1 DEF SlotInv, ReplyTrue
    <3>2. ThreadRead(s)' /\ DecisionSound(s)'
      BY <2>1, <2>2, ThreadFrame DEF SlotInv
    <3>3. ReplyTrue(s)'
      BY <2>1, <2>2, <3>1 DEF OthersSame, SlotInv, ReplyTrue
    <3> QED
      BY <2>1, <2>2, <2>3, <3>2, <3>3 DEF OthersSame, SlotInv, AllAnswered
  <2>8. LockExclusive'
    BY <2>2, LockFrame DEF Holding
  <2> QED BY <2>4, <2>6, <2>7, <2>8
<1>2. CASE ~ UniqueReport
  <2>1. PICK row \in reports : Finish(r, Reporting(row))
    BY <1>2 DEF StoreReport
  <2>2. UNCHANGED db
    BY <1>2 DEF StoreReport, db
  <2>3. ReplyTrue(r)'
    BY <2>1, <2>2, FinishSlots, ReportTrue DEF db
  <2> QED BY <2>1, <2>2, <2>3, QuietFinish
<1> QED BY <1>1, <1>2

\* Two slots that hold a question of the same thread hold the same question:
\* they are one slot.
LEMMA HolderAlone ==
  ASSUME IInv, NEW r \in Requests, NEW s \in Requests,
         pc[r] \in Holding, pc[s] \in Holding, target[r][1] = target[s][1]
  PROVE  r = s
BY HolderLast DEF IInv, LockExclusive

\* Whoever holds a question is a witness that the interview is not over.
LEMMA HolderOpen ==
  ASSUME IInv, NEW r \in Requests, pc[r] \in Holding
  PROVE  /\ ~ AllAnswered /\ session # "COMPLETED" /\ reports = {}
         /\ \A s \in Requests : pc[s] \notin {"closing", "reporting", "storing"}
         /\ \A s \in Requests : reply[s].type # "report"
<1>1. ~ AllAnswered
  BY HolderLast DEF IInv, SlotInv, AllAnswered, Submitting
<1> QED BY <1>1 DEF IInv, TablesInv, SlotInv, ReplyTrue

\* A commit leaves the tables sound, with or without a follow-up.
LEMMA CommitSlots ==
  ASSUME IInv, NEW r \in Requests, pc[r] = "decided", StoreAnswer(r), OthersSame(r),
         pc'[r] \notin Holding,
         Questions \subseteq Questions',
         \A t \in Ranks \ {target[r][1]} : thread'[t] = thread[t],
         NEW s \in Requests \ {r}
  PROVE  SlotInv(s)'
<1> USE DEF IInv
<1>1. /\ pc'[s] = pc[s] /\ target'[s] = target[s] /\ asked'[s] = asked[s]
      /\ followups'[s] = followups[s] /\ decision'[s] = decision[s]
      /\ turns'[s] = turns[s] /\ reply'[s] = reply[s]
  BY DEF OthersSame
<1>2. /\ answered' = answered \cup {target[r]} /\ answers \subseteq answers'
  BY DEF StoreAnswer
<1>3. pc[s] \notin {"closing", "reporting", "storing"} /\ reply[s].type # "report"
  BY HolderOpen DEF Holding
<1>4. pc[s] \in Holding => /\ target[s][1] \in Ranks \ {target[r][1]}
                           /\ target[s] # target[r]
  BY HolderAlone, HolderLast DEF Holding
<1>5. pc[s] \in Holding => thread'[target[s][1]] = thread[target[s][1]]
  BY <1>4
<1>6. ThreadRead(s)' /\ DecisionSound(s)'
  <2>1. CASE pc[s] \in Holding
    BY <1>5, <2>1, ThreadFrame DEF SlotInv
  <2>2. CASE pc[s] \notin Holding
    BY <1>1, <2>2 DEF ThreadRead, DecisionSound, Holding
  <2> QED BY <2>1, <2>2
<1>7. ReplyTrue(s)'
  BY <1>1, <1>2, <1>3 DEF SlotInv, ReplyTrue
<1> QED BY <1>1, <1>2, <1>3, <1>4, <1>6, <1>7 DEF SlotInv

LEMMA StoreAnswerEach ==
  ASSUME IInv, NEW r \in Requests, pc[r] \in Holding, StoreAnswer(r)
  PROVE  OneAnswerEach'
<1>1. target[r] \notin answered
  BY HolderLast
<1>2. OneAnswerEach
  BY DEF IInv, TablesInv
<1>3. {a.question : a \in answers'} = {a.question : a \in answers} \cup {target[r]}
  <2> DEFINE new == [question |-> target[r], by |-> r]
  <2>1. answers' = answers \cup {new} /\ new.question = target[r]
    BY DEF StoreAnswer
  <2> HIDE DEF new
  <2> QED BY <2>1
<1>4. \A a \in answers : a.question # target[r]
  BY <1>1, <1>2 DEF OneAnswerEach
<1> QED BY <1>2, <1>3, <1>4 DEF StoreAnswer, OneAnswerEach

LEMMA CommitAnswerStep ==
  ASSUME IInv, TypeOK', NEW r \in Requests, CommitAnswer(r)
  PROVE  IInv'
<1> USE DEF IInv
<1>1. /\ pc[r] = "decided" /\ StoreAnswer(r) /\ thread' = thread
      /\ reports' = reports /\ session' = session
  BY DEF CommitAnswer, StoreAnswer
<1>2. /\ OthersSame(r) /\ pc'[r] = "committed" /\ target'[r] = target[r]
      /\ reply'[r] = reply[r]
  BY MoveSlots DEF CommitAnswer
<1>3. Questions' = Questions
  BY <1>1 DEF Questions
<1>4. target[r] \in Questions /\ session # "COMPLETED" /\ reports = {}
      /\ reply[r].type # "report"
  BY <1>1, HolderOpen DEF SlotInv, Submitting, Holding
<1>5. TablesInv'
  <2>1. OneAnswerEach'
    BY <1>1, StoreAnswerEach DEF Holding
  <2> QED
    BY <1>1, <1>3, <1>4, <2>1
    DEF StoreAnswer, TablesInv, AllAnswered, OnePendingPerThread, DepthCap, NoRepeatInThread
<1>6. \A s \in Requests \ {r} : SlotInv(s)'
  BY <1>1, <1>2, <1>3, CommitSlots DEF Holding
<1>7. SlotInv(r)'
  <2>1. ReplyTrue(r)'
    BY <1>1, <1>2, <1>4 DEF SlotInv, ReplyTrue, StoreAnswer
  <2> QED
    BY <1>1, <1>2, <1>3, <1>4, <2>1
    DEF SlotInv, ThreadRead, DecisionSound, Holding, StoreAnswer
<1>8. LockExclusive'
  BY <1>2, LockFrame DEF Holding
<1> QED BY <1>5, <1>6, <1>7, <1>8

LEMMA CommitFollowupStep ==
  ASSUME IInv, TypeOK', NEW r \in Requests, CommitFollowup(r)
  PROVE  IInv'
<1> USE DEF IInv
<1> DEFINE t == target[r][1]
           n == Len(thread[t])
           text == decision[r].question
<1>1. /\ pc[r] = "decided" /\ AsksFollowup(decision[r]) /\ StoreAnswer(r)
      /\ reports' = reports /\ session' = session
      /\ thread' = [thread EXCEPT ![t] = Append(@, text)]
  BY DEF CommitFollowup, StoreAnswer
<1>2. /\ OthersSame(r) /\ pc'[r] = "idle" /\ target'[r] = target[r]
      /\ reply'[r].type \in {"follow_up", "error"} /\ (ReplyTrue(r)' => SlotInv(r)')
  <2>1. PICK given \in {Asking("follow_up", <<t, n + 1>>), Response("error")} :
          Finish(r, given)
    BY DEF CommitFollowup, Conclude
  <2> QED BY <2>1, FinishSlots, ResponseFields
<1>3. /\ t \in Ranks /\ n \in Nat \ {0} /\ target[r] = <<t, n>>
      /\ \A i \in 1..(n - 1) : <<t, i>> \in answered
  BY <1>1, HolderLast DEF Holding
<1>4. n <= MaxFollowups /\ \A i \in 1..n : thread[t][i] # text
  BY <1>1 DEF SlotInv, DecisionSound
<1>5. session # "COMPLETED" /\ reports = {}
  BY <1>1, HolderOpen DEF Holding
<1>6. text \in Texts /\ thread \in [Ranks -> Seq(Texts)]
  BY <1>1 DEF TypeOK, AsksFollowup, FollowupDecision
<1>7. /\ Len(thread'[t]) = n + 1 /\ thread'[t][n + 1] = text
      /\ \A i \in 1..n : thread'[t][i] = thread[t][i]
      /\ \A u \in Ranks \ {t} : thread'[u] = thread[u]
  <2>1. thread'[t] = Append(thread[t], text) /\ thread[t] \in Seq(Texts)
    BY <1>1, <1>3, <1>6
  <2>2. \A u \in Ranks \ {t} : thread'[u] = thread[u]
    BY <1>1, <1>6
  <2> QED BY <1>3, <1>6, <2>1, <2>2
<1>8. \A q : q \in Questions' <=> (q \in Questions \/ q = <<t, n + 1>>)
  <2>1. \A q : q \in Questions' <=>
          \E u \in Ranks : \E i \in 1..Len(thread'[u]) : q = <<u, i>>
    BY DEF Questions
  <2>2. \A q : q \in Questions <=>
          \E u \in Ranks : \E i \in 1..Len(thread[u]) : q = <<u, i>>
    BY QuestionsTyped
  <2>3. \A k : k \in 1..Len(thread'[t]) <=> (k \in 1..Len(thread[t]) \/ k = n + 1)
    BY <1>3, <1>7
  <2>4. \A u \in Ranks \ {t} : Len(thread'[u]) = Len(thread[u])
    BY <1>7
  <2>5. n + 1 \in 1..Len(thread'[t])
    BY <1>3, <1>7
  <2> HIDE DEF t, n
  <2>6. ASSUME NEW q, q \in Questions' PROVE q \in Questions \/ q = <<t, n + 1>>
    <3>1. PICK u \in Ranks : \E i \in 1..Len(thread'[u]) : q = <<u, i>>
      BY <2>1, <2>6
    <3>2. CASE u = t
      BY <2>2, <2>3, <3>1, <3>2
    <3>3. CASE u # t
      BY <2>2, <2>4, <3>1, <3>3
    <3> QED BY <3>2, <3>3
  <2>7. ASSUME NEW q, q \in Questions PROVE q \in Questions'
    <3>1. PICK u \in Ranks : \E i \in 1..Len(thread[u]) : q = <<u, i>>
      BY <2>2, <2>7
    <3>2. \A i \in 1..Len(thread[u]) : i \in 1..Len(thread'[u])
      BY <2>3, <2>4
    <3> QED BY <2>1, <3>1, <3>2
  <2>8. <<t, n + 1>> \in Questions'
    BY <1>3, <2>1, <2>5
  <2> QED BY <2>6, <2>7, <2>8
<1>9. answered' = answered \cup {target[r]} /\ target[r] \in Questions
  BY <1>1 DEF StoreAnswer, SlotInv, Submitting, Holding
<1>10. OnePendingPerThread'
  <2> SUFFICES ASSUME NEW q \in Questions', q \notin answered'
               PROVE  q[2] = Len(thread'[q[1]])
    BY DEF OnePendingPerThread
  <2>1. CASE q = <<t, n + 1>>
    BY <1>7, <2>1
  <2>2. CASE q \in Questions
    <3>1. PICK u \in Ranks : \E i \in 1..Len(thread[u]) : q = <<u, i>>
      BY <2>2, QuestionsTyped
    <3>2. q[1] = u /\ q[2] = Len(thread[u]) /\ q = <<u, Len(thread[u])>>
      BY <1>9, <2>2, <3>1 DEF TablesInv, OnePendingPerThread
    <3>3. u # t
      BY <1>3, <1>9, <3>2
    <3> QED BY <1>7, <3>2, <3>3
  <2> QED BY <1>8, <2>1, <2>2
<1>11. DepthCap'
  BY <1>3, <1>4, <1>7, ConfigAssumption DEF TablesInv, DepthCap
<1>12. NoRepeatInThread'
  <2> SUFFICES ASSUME NEW u \in Ranks, NEW i \in 1..Len(thread'[u]),
                      NEW j \in 1..Len(thread'[u]), thread'[u][i] = thread'[u][j]
               PROVE  i = j
    BY DEF NoRepeatInThread
  <2>1. NoRepeatInThread
    BY DEF TablesInv
  <2>2. CASE u # t
    BY <1>7, <2>1, <2>2 DEF NoRepeatInThread
  <2>3. CASE u = t
    <3>1. CASE i \in 1..n /\ j \in 1..n
      <4>1. thread[t][i] = thread[t][j]
        BY <1>7, <2>3, <3>1
      <4>2. \A k, l \in 1..n : thread[t][k] = thread[t][l] => k = l
        BY <1>3, <2>1 DEF NoRepeatInThread
      <4> HIDE DEF t, n
      <4> QED BY <3>1, <4>1, <4>2
    <3>2. i \in 1..(n + 1) /\ j \in 1..(n + 1) /\ thread'[t][i] = thread'[t][j]
      BY <1>7, <2>3
    <3>3. \A k \in 1..n : thread'[t][k] # thread'[t][n + 1]
      BY <1>4, <1>7
    <3>4. n + 1 \notin 1..n /\ \A k \in 1..(n + 1) : k \in 1..n \/ k = n + 1
      BY <1>3
    <3> QED BY <3>1, <3>2, <3>3, <3>4
  <2> QED BY <2>2, <2>3
<1>13. OneAnswerEach'
  BY <1>1, StoreAnswerEach DEF Holding
<1>14. \A u \in Ranks : Len(thread'[u]) > 0
  BY <1>3, <1>7 DEF TablesInv
<1>15. answered' \subseteq Questions'
  BY <1>8, <1>9 DEF TablesInv
<1>16. TablesInv'
  BY <1>1, <1>5, <1>10, <1>11, <1>12, <1>13, <1>14, <1>15 DEF TablesInv
<1>17. \A s \in Requests \ {r} : SlotInv(s)'
  <2>1. Questions \subseteq Questions' /\ pc'[r] \notin Holding
    BY <1>2, <1>8 DEF Holding
  <2> QED BY <1>1, <1>2, <1>7, <2>1, CommitSlots
<1>18. SlotInv(r)'
  BY <1>1, <1>2 DEF ReplyTrue, StoreAnswer
<1>19. LockExclusive'
  BY <1>2, LockFrame DEF Holding
<1> QED BY <1>16, <1>17, <1>18, <1>19

-----------------------------------------------------------------------------
(***************************************************************************)
(* The invariant.                                                          *)
(***************************************************************************)
LEMMA InitIInv == Init => IInv
<1> SUFFICES ASSUME Init PROVE IInv
  OBVIOUS
<1>1. Response("none") \in Reply
  BY ResponseIsReply DEF ResponseTypes
<1>2. TypeOK
  BY <1>1, ConfigAssumption, NoFollowupTyped, LocationsTyped DEF Init, TypeOK
<1>3. TablesInv
  <2>1. \A t \in Ranks : Len(thread[t]) = 1
    BY DEF Init
  <2>2. \A q \in Questions : q[2] = 1 /\ q[1] \in Ranks
    <3> SUFFICES ASSUME NEW q \in Questions PROVE q[2] = 1 /\ q[1] \in Ranks
      OBVIOUS
    <3>1. PICK t \in Ranks : \E i \in 1..Len(thread[t]) : q = <<t, i>>
      BY <1>2, QuestionsTyped
    <3>2. PICK i \in 1..1 : q = <<t, i>>
      BY <2>1, <3>1
    <3>3. i = 1
      BY <3>2
    <3> QED BY <3>2, <3>3
  <2>3. OnePendingPerThread
    BY <2>1, <2>2 DEF OnePendingPerThread
  <2>4. DepthCap /\ NoRepeatInThread
    <3>1. 1 <= MaxFollowups + 1
      BY ConfigAssumption
    <3>2. DepthCap
      BY <2>1, <3>1 DEF DepthCap
    <3>3. \A i, j \in 1..1 : i = j
      OBVIOUS
    <3>4. NoRepeatInThread
      BY <2>1, <3>3 DEF NoRepeatInThread
    <3> QED BY <3>2, <3>4
  <2>5. OneAnswerEach
    BY DEF Init, OneAnswerEach
  <2> QED
    BY <2>1, <2>3, <2>4, <2>5 DEF Init, TablesInv
<1>4. LockExclusive /\ \A r \in Requests : SlotInv(r)
  BY ResponseFields
  DEF Init, LockExclusive, SlotInv, ThreadRead, DecisionSound, ReplyTrue,
      Submitting, Holding
<1> QED BY <1>2, <1>3, <1>4 DEF IInv

LEMMA StepIInv == IInv /\ [Next]_vars => IInv'
<1> SUFFICES ASSUME IInv, [Next]_vars PROVE IInv'
  OBVIOUS
<1>1. CASE UNCHANGED vars
  <2>1. UNCHANGED db /\ TablesInv' /\ Questions' = Questions
    BY <1>1, TablesFrame DEF IInv, vars, db
  <2>2. TypeOK'
    BY <1>1 DEF IInv, TypeOK, vars, db, mem
  <2>3. LockExclusive'
    BY <1>1 DEF IInv, LockExclusive, vars
  <2>4. \A r \in Requests : SlotInv(r)'
    <3>1. /\ pc' = pc /\ target' = target /\ asked' = asked /\ followups' = followups
          /\ decision' = decision /\ turns' = turns /\ reply' = reply
          /\ thread' = thread /\ answered' = answered /\ answers' = answers
          /\ reports' = reports
      BY <1>1 DEF vars, db, mem
    <3> SUFFICES ASSUME NEW r \in Requests, SlotInv(r) PROVE SlotInv(r)'
      BY DEF IInv
    <3>2. ThreadRead(r)' /\ DecisionSound(r)' /\ ReplyTrue(r)'
      BY <3>1 DEF SlotInv, ThreadRead, DecisionSound, ReplyTrue
    <3> QED BY <2>1, <3>1, <3>2 DEF SlotInv, AllAnswered
  <2> QED BY <2>1, <2>2, <2>3, <2>4 DEF IInv
<1>2. ASSUME NEW r \in Requests, Arrive(r) \/ Proceed(r) \/ Crash(r)
      PROVE  IInv'
  <2>1. TypeOK'
    BY <1>2, TypeStep
  <2> QED
    BY <1>2, <2>1, ArriveStep, FailStep, FlushStep, ReadTurnsStep, ReadFollowupsStep,
       DecideStep, CommitFollowupStep, CommitAnswerStep, ReadNextStep, CloseStep,
       CheckCompleteStep, BuildReportStep, StoreReportStep
    DEF Proceed
<1> QED BY <1>1, <1>2 DEF Next

THEOREM Invariance == Spec => []IInv
BY InitIInv, StepIInv, PTL DEF Spec

-----------------------------------------------------------------------------
(***************************************************************************)
(* The properties.                                                         *)
(***************************************************************************)

\* Type correctness: interview_service and models.py.
THEOREM TypeCorrectness == Spec => []TypeOK
BY Invariance, PTL DEF IInv

\* max_followups_per_question holds for every thread, under every
\* interleaving of concurrent submits, crashes and failures.
THEOREM DepthCapHolds == Spec => []DepthCap
<1>1. IInv => DepthCap
  BY DEF IInv, TablesInv
<1> QED BY <1>1, Invariance, PTL

\* A thread never has two questions open.
THEOREM OnePendingHolds == Spec => []OnePendingPerThread
<1>1. IInv => OnePendingPerThread
  BY DEF IInv, TablesInv
<1> QED BY <1>1, Invariance, PTL

\* Status and answers agree, and no question has two answers.
THEOREM OneAnswerHolds == Spec => []OneAnswerEach
<1>1. IInv => OneAnswerEach
  BY DEF IInv, TablesInv
<1> QED BY <1>1, Invariance, PTL

\* followup._is_duplicate is enough to keep a thread free of repetitions.
THEOREM NoRepeatHolds == Spec => []NoRepeatInThread
<1>1. IInv => NoRepeatInThread
  BY DEF IInv, TablesInv
<1> QED BY <1>1, Invariance, PTL

\* What the depth cap counts was read before the LLM call and is still true.
THEOREM FollowupsFresh == Spec => []FollowupsNotStale
<1>1. IInv => FollowupsNotStale
  BY DEF IInv, SlotInv, ThreadRead, FollowupsNotStale
<1> QED BY <1>1, Invariance, PTL

\* A client refused with a 409 finds its question answered, for good.
THEOREM ConflictHolds == Spec => []ConflictMeansAnswered
<1>1. IInv => ConflictMeansAnswered
  BY DEF IInv, SlotInv, ReplyTrue, ConflictMeansAnswered
<1> QED BY <1>1, Invariance, PTL

\* A client told what comes next has its answer stored.
THEOREM AcceptedHolds == Spec => []AcceptedAnswerIsStored
<1>1. IInv => AcceptedAnswerIsStored
  BY DEF IInv, SlotInv, ReplyTrue, AcceptedAnswerIsStored
<1> QED BY <1>1, Invariance, PTL

\* A completed session has no open question.
THEOREM CompletedHolds == Spec => []CompletedMeansAnswered
<1>1. IInv => CompletedMeansAnswered
  BY DEF IInv, TablesInv, AllAnswered, CompletedMeansAnswered
<1> QED BY <1>1, Invariance, PTL

\* A report covers every question of its interview.
THEOREM ReportCovers == Spec => []ReportCoversInterview
<1>1. IInv => ReportCoversInterview
  BY DEF IInv, TablesInv, AllAnswered, ReportCoversInterview
<1> QED BY <1>1, Invariance, PTL

\* What a client is told of its answer is true.
THEOREM RepliesHold == Spec => []RepliesAreTrue
BY ConflictHolds, AcceptedHolds, PTL DEF RepliesAreTrue

\* No completion overtakes an answer or a follow-up that is under way.
THEOREM NothingOvertaken == Spec => []NothingIsOvertaken
BY CompletedHolds, ReportCovers, PTL DEF NothingIsOvertaken

\* Concurrent completions give every client the one stored report.
THEOREM OneReportHolds == Spec => []OneReportForAll
<1>1. IInv => OneReportForAll
  BY DEF IInv, SlotInv, ReplyTrue, OneReportForAll
<1> QED BY <1>1, Invariance, PTL

\* Nothing in flight can change a completed interview: a submit that could
\* holds a pending question, and there is none.
THEOREM CompletedStays == Spec => CompletedIsFinal
<1>1. ASSUME IInv, [Next]_vars, session = "COMPLETED"
      PROVE  UNCHANGED <<thread, answered, answers, session>>
  <2>1. ASSUME NEW r \in Requests, Arrive(r) \/ Proceed(r) \/ Crash(r)
        PROVE  UNCHANGED <<thread, answered, answers, session>>
    <3>1. pc[r] # "decided"
      BY <1>1, HolderOpen DEF Holding
    <3>2. ~ CommitFollowup(r) /\ ~ CommitAnswer(r)
      BY <3>1 DEF CommitFollowup, CommitAnswer
    <3>3. CASE CloseSession(r)
      BY <1>1, <3>3 DEF CloseSession
    <3>4. CASE StoreReport(r)
      BY <1>1, <3>4 DEF StoreReport
    <3>5. CASE UNCHANGED db
      BY <3>5 DEF db
    <3>6. CASE Arrive(r)
      BY <3>5, <3>6 DEF Arrive, Reject, ReadQuestion, BeginComplete, GetReport, Respond, Begin
    <3>7. CASE Crash(r) \/ Flush(r) \/ DecisionFails(r) \/ ReadNext(r) \/ CheckComplete(r)
               \/ ReportFails(r)
      BY <3>5, <3>7 DEF Crash, Flush, DecisionFails, ReadNext, CheckComplete, ReportFails
    <3>8. CASE ReadTurns(r) \/ ReadFollowups(r) \/ Decide(r) \/ BuildReport(r)
      BY <3>5, <3>8 DEF ReadTurns, ReadFollowups, Decide, BuildReport, db
    <3> QED BY <2>1, <3>2, <3>3, <3>4, <3>6, <3>7, <3>8 DEF Proceed
  <2>2. CASE UNCHANGED vars
    BY <2>2 DEF vars, db
  <2> QED BY <1>1, <2>1, <2>2 DEF Next
<1>2. IInv /\ [Next]_vars =>
        [session = "COMPLETED" => UNCHANGED <<thread, answered, answers, session>>]_vars
  BY <1>1
<1> QED BY <1>2, Invariance, PTL DEF Spec, CompletedIsFinal

\* A step of one slot leaves the others alone.
LEMMA StepOthersSame ==
  ASSUME IInv, NEW r \in Requests, Arrive(r) \/ Proceed(r) \/ Crash(r)
  PROVE  OthersSame(r)
<1> USE DEF IInv
<1>1. ASSUME NEW response, Finish(r, response) PROVE OthersSame(r)
  BY <1>1, FinishSlots
<1>2. ASSUME NEW response, NEW q, Respond(r, q, response) PROVE OthersSame(r)
  BY <1>2, RespondSlots
<1>3. ASSUME NEW loc, NEW q, Begin(r, loc, q) PROVE OthersSame(r)
  BY <1>3, BeginSlots
<1>4. ASSUME NEW loc, Goto(r, loc), UNCHANGED <<mem, target, reply>> PROVE OthersSame(r)
  BY <1>4, MoveSlots
<1>5. CASE Arrive(r)
  BY <1>2, <1>3, <1>5 DEF Arrive, Reject, ReadQuestion, BeginComplete, GetReport
<1>6. CASE \/ Flush(r) \/ DecisionFails(r) \/ CommitFollowup(r) \/ CommitAnswer(r)
           \/ ReadNext(r) \/ CloseSession(r) \/ BuildReport(r) \/ ReportFails(r)
           \/ StoreReport(r) \/ Crash(r)
  BY <1>1, <1>4, <1>6
  DEF Flush, DecisionFails, CommitFollowup, CommitAnswer, ReadNext, CloseSession,
      BuildReport, ReportFails, StoreReport, Conclude, Crash
<1>7. CASE ReadTurns(r) \/ ReadFollowups(r) \/ Decide(r)
  BY <1>7 DEF ReadTurns, ReadFollowups, Decide, TypeOK, Goto, OthersSame
<1>8. CASE CheckComplete(r)
  <2>1. CASE Pending # {}
    BY <1>1, <1>8, <2>1 DEF CheckComplete
  <2>2. CASE Pending = {}
    BY <1>8, <2>2 DEF CheckComplete, TypeOK, Goto, OthersSame
  <2> QED BY <2>1, <2>2
<1> QED BY <1>5, <1>6, <1>7, <1>8 DEF Proceed

\* A 502 or 503 of a submit comes from DecisionFails, which holds the
\* question's row: nobody else has answered it, and nothing is committed.
THEOREM RefusalIsClean == Spec => RefusalLeavesQuestionOpen
<1>1. ASSUME IInv, [Next]_vars, NEW r \in Requests, pc[r] \in Submitting,
             reply'[r].type \in {"unavailable", "upstream"}
      PROVE  target[r] \notin answered'
  <2>1. reply[r].type = "none" /\ reply' # reply
    BY <1>1 DEF IInv, SlotInv, Submitting, Holding
  <2>2. PICK s \in Requests : Arrive(s) \/ Proceed(s) \/ Crash(s)
    BY <1>1, <2>1 DEF Next, vars
  <2>3. s = r
    BY <1>1, <2>1, <2>2, StepOthersSame DEF OthersSame
  <2>4. ASSUME NEW type, Finish(r, Response(type)), type \notin {"unavailable", "upstream"}
        PROVE  FALSE
    BY <1>1, <2>4, FinishSlots, ResponseFields DEF IInv
  <2>5. ASSUME NEW type, NEW q, Finish(r, Asking(type, q)),
               type \notin {"unavailable", "upstream"}
        PROVE  FALSE
    BY <1>1, <2>5, FinishSlots, ResponseFields DEF IInv
  <2>6. ~ (Flush(r) \/ Crash(r) \/ CommitFollowup(r) \/ ReadNext(r) \/ CloseSession(r))
    BY <2>1, <2>4, <2>5, <1>1
    DEF Flush, Crash, CommitFollowup, ReadNext, CloseSession, Conclude
  <2>7. ~ (ReadTurns(r) \/ ReadFollowups(r) \/ Decide(r) \/ CommitAnswer(r))
    BY <2>1 DEF ReadTurns, ReadFollowups, Decide, CommitAnswer
  <2>8. ~ (CheckComplete(r) \/ BuildReport(r) \/ ReportFails(r) \/ StoreReport(r))
    BY <1>1 DEF CheckComplete, BuildReport, ReportFails, StoreReport, Submitting, Holding
  <2>9. ~ Arrive(r)
    BY <1>1 DEF Arrive, Reject, ReadQuestion, BeginComplete, GetReport, Respond, Begin,
       Submitting, Holding
  <2>10. DecisionFails(r)
    BY <2>2, <2>3, <2>6, <2>7, <2>8, <2>9 DEF Proceed
  <2> QED BY <1>1, <2>10, HolderLast DEF DecisionFails, Holding, db
<1>2. IInv /\ [Next]_vars =>
        [\A r \in Requests :
           (pc[r] \in Submitting /\ reply'[r].type \in {"unavailable", "upstream"})
             => target[r] \notin answered']_vars
  BY <1>1
<1> QED BY <1>2, Invariance, PTL DEF Spec, RefusalLeavesQuestionOpen

\* A follow-up is a question nobody has answered.
LEMMA FollowupIsOpen ==
  ASSUME IInv, TypeOK', NEW r \in Requests, CommitFollowup(r)
  PROVE  ~ (Questions' \subseteq answered')
<1> DEFINE t == target[r][1]
           n == Len(thread[t])
<1>1. /\ t \in Ranks /\ n \in Nat \ {0} /\ target[r] = <<t, n>>
      /\ answered' = answered \cup {target[r]}
      /\ thread' = [thread EXCEPT ![t] = Append(@, decision[r].question)]
  BY HolderLast DEF CommitFollowup, StoreAnswer, Holding
<1>2. /\ decision[r].question \in Texts /\ thread \in [Ranks -> Seq(Texts)]
  BY DEF CommitFollowup, AsksFollowup, FollowupDecision, IInv, TypeOK
<1>3. Len(thread'[t]) = n + 1
  BY <1>1, <1>2
<1>4. <<t, n + 1>> \in Questions'
  <2>1. \A q : q \in Questions' <=>
          \E u \in Ranks : \E i \in 1..Len(thread'[u]) : q = <<u, i>>
    BY DEF Questions
  <2>2. n + 1 \in 1..Len(thread'[t])
    BY <1>1, <1>3
  <2> QED BY <1>1, <2>1, <2>2
<1>5. <<t, n + 1>> \notin answered
  <2>1. <<t, n + 1>> \notin Questions
    <3>1. ASSUME NEW u \in Ranks, NEW i \in 1..Len(thread[u]), <<t, n + 1>> = <<u, i>>
          PROVE  FALSE
      BY <1>1, <3>1
    <3> QED BY <3>1, QuestionsTyped DEF IInv
  <2> QED BY <2>1 DEF IInv, TablesInv
<1>6. <<t, n + 1>> # target[r]
  BY <1>1
<1> QED BY <1>1, <1>4, <1>5, <1>6

\* A slot between its two commits goes on to the second, or finds a question
\* that is still open, or fails.
LEMMA ClosingStep ==
  ASSUME IInv, NEW r \in Requests, Arrive(r) \/ Proceed(r) \/ Crash(r),
         pc[r] \in {"committed", "closing"}, Stranded'
  PROVE  reply'[r].type = "error"
<1>1. ~ ReadNext(r)
  <2>1. ASSUME ReadNext(r), Pending = {} PROVE FALSE
    BY <2>1 DEF ReadNext, Goto, Stranded, IInv, TypeOK
  <2>2. ASSUME ReadNext(r), Pending # {} PROVE FALSE
    BY <2>2, TablesFrame DEF ReadNext, Pending, Stranded, IInv, db
  <2> QED BY <2>1, <2>2
<1>2. ~ CloseSession(r)
  BY DEF CloseSession, Stranded
<1>3. CASE Crash(r)
  BY <1>3, FinishSlots, ResponseFields DEF Crash, IInv, ResponseTypes
<1>4. ~ Arrive(r)
  BY DEF Arrive, Reject, ReadQuestion, BeginComplete, GetReport, Respond, Begin
<1>5. ~ \/ Flush(r) \/ ReadTurns(r) \/ ReadFollowups(r) \/ DecisionFails(r) \/ Decide(r)
        \/ CommitFollowup(r) \/ CommitAnswer(r) \/ CheckComplete(r) \/ BuildReport(r)
        \/ ReportFails(r) \/ StoreReport(r)
  BY DEF Flush, ReadTurns, ReadFollowups, DecisionFails, Decide, CommitFollowup,
     CommitAnswer, CheckComplete, BuildReport, ReportFails, StoreReport
<1> QED BY <1>1, <1>2, <1>3, <1>4, <1>5 DEF Proceed

\* No other slot leaves an answered interview open: it answers and is then
\* between its commits, or opens a question, or closes the session.
LEMMA ElsewhereStep ==
  ASSUME IInv, TypeOK', NEW r \in Requests, Arrive(r) \/ Proceed(r) \/ Crash(r),
         pc[r] \notin {"committed", "closing"}, Stranded'
  PROVE  UNCHANGED db
<1>1. ~ CommitFollowup(r)
  BY FollowupIsOpen DEF Stranded
<1>2. ~ CommitAnswer(r)
  BY DEF CommitAnswer, Goto, Stranded, IInv, TypeOK
<1>3. ~ CloseSession(r)
  BY DEF CloseSession
<1>4. CASE StoreReport(r)
  BY <1>4 DEF StoreReport, Stranded, db
<1>5. CASE Arrive(r)
  BY <1>5 DEF Arrive, Reject, ReadQuestion, BeginComplete, GetReport, Respond, Begin
<1>6. CASE Crash(r) \/ Flush(r) \/ DecisionFails(r) \/ ReadNext(r) \/ CheckComplete(r)
           \/ ReportFails(r)
  BY <1>6 DEF Crash, Flush, DecisionFails, ReadNext, CheckComplete, ReportFails
<1>7. CASE ReadTurns(r) \/ ReadFollowups(r) \/ Decide(r) \/ BuildReport(r)
  BY <1>7 DEF ReadTurns, ReadFollowups, Decide, BuildReport, db
<1> QED BY <1>1, <1>2, <1>3, <1>4, <1>5, <1>6, <1>7 DEF Proceed

\* Only a failure between the two commits of a last answer leaves an
\* answered interview open.
THEOREM LastAnswerClosing == Spec => LastAnswerCloses
<1>1. ASSUME IInv, TypeOK', [Next]_vars, ~ Stranded, Stranded'
      PROVE  \E r \in Requests : pc[r] \in {"committed", "closing"}
                                 /\ reply'[r].type = "error"
  <2>1. CASE UNCHANGED vars
    BY <1>1, <2>1 DEF vars, db, Stranded, Questions
  <2>2. ASSUME NEW r \in Requests, Arrive(r) \/ Proceed(r) \/ Crash(r),
               pc[r] \notin {"committed", "closing"}
        PROVE  FALSE
    <3>1. UNCHANGED db
      BY <1>1, <2>2, ElsewhereStep
    <3>2. \A s \in Requests \ {r} : pc'[s] = pc[s]
      BY <1>1, <2>2, StepOthersSame DEF OthersSame
    <3> QED BY <1>1, <2>2, <3>1, <3>2 DEF Stranded, Questions, db
  <2>3. ASSUME NEW r \in Requests, Arrive(r) \/ Proceed(r) \/ Crash(r)
        PROVE  \E s \in Requests : pc[s] \in {"committed", "closing"}
                                   /\ reply'[s].type = "error"
    BY <1>1, <2>2, <2>3, ClosingStep
  <2> QED BY <1>1, <2>1, <2>3 DEF Next
<1>2. IInv /\ TypeOK' /\ [Next]_vars =>
        [(~Stranded /\ Stranded') =>
           \E r \in Requests : pc[r] \in {"committed", "closing"}
                                /\ reply'[r].type = "error"]_vars
  BY <1>1
<1>3. IInv => TypeOK
  BY DEF IInv
<1> QED BY <1>2, <1>3, Invariance, PTL DEF Spec, LastAnswerCloses

-----------------------------------------------------------------------------
(***************************************************************************)
(* Refinement.                                                             *)
(***************************************************************************)
Depth == [t \in Ranks |-> Len(thread[t]) - 1]
Open  == [t \in Ranks |-> <<t, Len(thread[t])>> \notin answered]

\* The transaction of a follow-up, and of an answer without one, as the
\* contract sees them.
LEMMA ContractFollowUp ==
  ASSUME NEW t \in Ranks,
         \A u \in Ranks : Len(thread[u]) \in Nat /\ Len(thread'[u]) \in Nat,
         Len(thread'[t]) = Len(thread[t]) + 1,
         \A u \in Ranks \ {t} : Len(thread'[u]) = Len(thread[u]),
         Len(thread[t]) <= MaxFollowups,
         <<t, Len(thread[t])>> \notin answered,
         \A u \in Ranks : (<<u, Len(thread'[u])>> \notin answered')
                            <=> (<<u, Len(thread[u])>> \notin answered),
         session' = session, reports' = reports
  PROVE  [Contract!Next]_(Contract!vars)
<1>1. Depth' = [Depth EXCEPT ![t] = @ + 1]
  <2> DEFINE D(u) == IF u = t THEN Depth[t] + 1 ELSE Depth[u]
  <2>1. \A u \in Ranks : Len(thread'[u]) - 1 = D(u)
    BY DEF Depth
  <2>2. [Depth EXCEPT ![t] = @ + 1] = [u \in Ranks |-> D(u)]
    BY DEF Depth
  <2>3. Depth' = [u \in Ranks |-> Len(thread'[u]) - 1]
    BY DEF Depth
  <2> HIDE DEF D
  <2> QED BY <2>1, <2>2, <2>3
<1>2. Open' = Open
  <2>1. Open' = [u \in Ranks |-> <<u, Len(thread'[u])>> \notin answered']
    BY DEF Open
  <2> QED BY <2>1, Zenon DEF Open
<1>3. Open[t] /\ Depth[t] < MaxFollowups
  <2>1. Depth[t] = Len(thread[t]) - 1
    BY DEF Depth
  <2>2. Open[t]
    BY Zenon DEF Open
  <2> QED BY <2>1, <2>2, ConfigAssumption
<1>4. Contract!FollowUp(t)
  BY <1>1, <1>2, <1>3 DEF Contract!FollowUp, Depth, Open
<1>5. Ranks = Contract!Threads
  BY DEF Ranks, Contract!Threads
<1> QED BY <1>4, <1>5, Zenon DEF Contract!Next

LEMMA ContractMoveOn ==
  ASSUME NEW t \in Ranks,
         <<t, Len(thread[t])>> \notin answered,
         answered' = answered \cup {<<t, Len(thread[t])>>},
         thread' = thread, session' = session, reports' = reports
  PROVE  [Contract!Next]_(Contract!vars)
<1>1. Open' = [Open EXCEPT ![t] = FALSE]
  <2> DEFINE D(u) == IF u = t THEN FALSE ELSE Open[u]
  <2>1. \A u \in Ranks : (<<u, Len(thread[u])>> \notin answered') = D(u)
    BY Zenon DEF Open
  <2>2. [Open EXCEPT ![t] = FALSE] = [u \in Ranks |-> D(u)]
    BY Zenon DEF Open
  <2>3. Open' = [u \in Ranks |-> <<u, Len(thread[u])>> \notin answered']
    BY DEF Open
  <2> HIDE DEF D
  <2> QED BY <2>1, <2>2, <2>3, Zenon
<1>2. Depth' = Depth
  BY DEF Depth
<1>3. Open[t]
  BY Zenon DEF Open
<1>4. Contract!MoveOn(t)
  BY <1>1, <1>2, <1>3 DEF Contract!MoveOn, Depth, Open
<1>5. Ranks = Contract!Threads
  BY DEF Ranks, Contract!Threads
<1> QED BY <1>4, <1>5, Zenon DEF Contract!Next

LEMMA ContractStep ==
  ASSUME IInv, IInv', NEW r \in Requests, Arrive(r) \/ Proceed(r) \/ Crash(r)
  PROVE  [Contract!Next]_(Contract!vars)
<1> USE DEF IInv
<1>1. CASE UNCHANGED db
  BY <1>1 DEF Contract!vars, db
<1>2. CASE CommitFollowup(r)
  <2> DEFINE t == target[r][1]
             n == Len(thread[t])
  <2>1. /\ pc[r] = "decided" /\ StoreAnswer(r) /\ session' = session /\ reports' = reports
        /\ thread' = [thread EXCEPT ![t] = Append(@, decision[r].question)]
        /\ AsksFollowup(decision[r])
    BY <1>2 DEF CommitFollowup, StoreAnswer
  <2>2. t \in Ranks /\ n \in Nat \ {0} /\ target[r] = <<t, n>> /\ target[r] \notin answered
    BY <2>1, HolderLast DEF Holding
  <2>3. n <= MaxFollowups
    BY <2>1 DEF SlotInv, DecisionSound
  <2>4. decision[r].question \in Texts /\ thread \in [Ranks -> Seq(Texts)]
    BY <2>1 DEF TypeOK, AsksFollowup, FollowupDecision
  <2>5. thread'[t] = Append(thread[t], decision[r].question)
        /\ \A u \in Ranks \ {t} : thread'[u] = thread[u]
    BY <2>1, <2>2, <2>4
  <2>6. Len(thread'[t]) = n + 1 /\ \A u \in Ranks \ {t} : Len(thread'[u]) = Len(thread[u])
    BY <2>2, <2>4, <2>5
  <2>7. <<t, n + 1>> \notin answered
    <3>1. <<t, n + 1>> \notin Questions
      BY <2>2, QuestionsTyped
    <3> QED BY <3>1 DEF TablesInv
  <2>8. answered' = answered \cup {<<t, n>>}
    BY <2>1, <2>2 DEF StoreAnswer
  <2>9. \A u \in Ranks : (<<u, Len(thread'[u])>> \notin answered')
                          <=> (<<u, Len(thread[u])>> \notin answered)
    BY <2>2, <2>6, <2>7, <2>8
  <2>10. \A u \in Ranks : Len(thread[u]) \in Nat /\ Len(thread'[u]) \in Nat
    BY DEF TypeOK
  <2> HIDE DEF t, n
  <2> QED BY <2>1, <2>2, <2>3, <2>6, <2>9, <2>10, ContractFollowUp DEF n
<1>3. CASE CommitAnswer(r)
  <2> DEFINE t == target[r][1]
             n == Len(thread[t])
  <2>1. /\ pc[r] = "decided" /\ StoreAnswer(r) /\ thread' = thread
        /\ session' = session /\ reports' = reports
    BY <1>3 DEF CommitAnswer, StoreAnswer
  <2>2. t \in Ranks /\ target[r] = <<t, n>> /\ target[r] \notin answered
    BY <2>1, HolderLast DEF Holding
  <2>3. answered' = answered \cup {<<t, n>>}
    BY <2>1, <2>2 DEF StoreAnswer
  <2> HIDE DEF t
  <2> QED BY <2>1, <2>2, <2>3, ContractMoveOn DEF n
<1>4. AllAnswered => \A t \in Ranks : ~ Open[t]
  <2> SUFFICES ASSUME AllAnswered, NEW t \in Ranks
               PROVE  <<t, Len(thread[t])>> \in answered
    BY DEF Open
  <2>1. Len(thread[t]) \in 1..Len(thread[t])
    BY DEF TypeOK, TablesInv
  <2>2. <<t, Len(thread[t])>> \in Questions
    BY <2>1, QuestionsTyped
  <2> QED BY <2>2 DEF AllAnswered
<1>5. CASE CloseSession(r)
  <2>1. UNCHANGED <<thread, answered, reports>> /\ session' = "COMPLETED" /\ AllAnswered
    BY <1>5 DEF CloseSession, SlotInv
  <2>2. Contract!Close
    BY <1>4, <2>1 DEF Contract!Close, Contract!AllClosed, Contract!Threads, Ranks, Open
  <2> QED BY <2>2 DEF Contract!Next
<1>6. CASE StoreReport(r)
  <2>1. CASE UniqueReport
    <3>1. /\ UNCHANGED <<thread, answered>> /\ session' = "COMPLETED" /\ AllAnswered
          /\ reports = {} /\ reports' # {}
      BY <1>6, <2>1 DEF StoreReport, SlotInv, UniqueReport
    <3>2. Contract!Report
      BY <1>4, <3>1 DEF Contract!Report, Contract!AllClosed, Contract!Threads, Ranks, Open
    <3> QED BY <3>2 DEF Contract!Next
  <2>2. CASE ~ UniqueReport
    BY <1>6, <2>2 DEF StoreReport, Contract!vars
  <2> QED BY <2>1, <2>2
<1>7. CASE Arrive(r)
  BY <1>1, <1>7 DEF Arrive, Reject, ReadQuestion, BeginComplete, GetReport, Respond, Begin
<1>8. CASE Crash(r) \/ Flush(r) \/ DecisionFails(r) \/ ReadNext(r) \/ CheckComplete(r)
           \/ ReportFails(r)
  BY <1>1, <1>8 DEF Crash, Flush, DecisionFails, ReadNext, CheckComplete, ReportFails
<1>9. CASE ReadTurns(r) \/ ReadFollowups(r) \/ Decide(r) \/ BuildReport(r)
  BY <1>1, <1>9 DEF ReadTurns, ReadFollowups, Decide, BuildReport, db
<1> QED BY <1>2, <1>3, <1>5, <1>6, <1>7, <1>8, <1>9 DEF Proceed

\* Every behaviour of the concurrent, crashing service is one of the
\* sequential interview: transactions are the contract's atomic steps.
THEOREM Refinement == Spec => ImplementsContract
<1>1. Init => Contract!Init
  <2> SUFFICES ASSUME Init PROVE Contract!Init
    OBVIOUS
  <2>1. \A t \in Ranks : Len(thread[t]) - 1 = 0
                          /\ (<<t, Len(thread[t])>> \notin answered) = TRUE
    BY DEF Init
  <2>2. Ranks = Contract!Threads
    BY DEF Ranks, Contract!Threads
  <2>3. [t \in Ranks |-> Len(thread[t]) - 1] = [t \in Contract!Threads |-> 0]
    BY <2>1, <2>2, Zenon
  <2>4. [t \in Ranks |-> <<t, Len(thread[t])>> \notin answered]
          = [t \in Contract!Threads |-> TRUE]
    BY <2>1, <2>2, Zenon
  <2> QED BY <2>3, <2>4 DEF Init, Contract!Init
<1>2. IInv /\ IInv' /\ [Next]_vars => [Contract!Next]_(Contract!vars)
  <2>1. UNCHANGED vars => UNCHANGED Contract!vars
    BY DEF vars, db, Contract!vars
  <2> QED BY <2>1, ContractStep DEF Next
<1> QED BY <1>1, <1>2, Invariance, PTL DEF Spec, ImplementsContract, Contract!Spec
=============================================================================
