--------------------------- MODULE SessionRegistry ---------------------------
(***************************************************************************)
(* What POST /sessions promises, without transactions and locks: while a   *)
(* request waits, a session with its questions is registered in one step,  *)
(* under a key that no session has; the answer is a step of its own, and   *)
(* may be lost between the two.  SessionCreation implements it.            *)
(***************************************************************************)
EXTENDS Naturals

CONSTANTS Headers, NoKey, NumQuestions, SessionIds, Requests, Nothing

VARIABLES
  sessions,  \* sessions table: id, key, and how many questions are seeded
  waiting,   \* whose requests have no response yet
  made,      \* the session a waiting request has registered
  key,       \* the Idempotency-Key of each slot's request
  reply      \* the last response of a slot

vars == <<sessions, waiting, made, key, reply>>

Response(type) == [type |-> type, session |-> Nothing]

Registered(k) == {s \in sessions : s.key = k}

Free(k) == k = NoKey \/ Registered(k) = {}

Init ==
  /\ sessions = {}
  /\ waiting = {}
  /\ made = [r \in Requests |-> Nothing]
  /\ key = [r \in Requests |-> NoKey]
  /\ reply = [r \in Requests |-> Response("none")]

\* A request comes in, to wait or to be answered at once.
Ask(r, k, response) ==
  /\ r \notin waiting
  /\ key' = [key EXCEPT ![r] = k]
  /\ reply' = [reply EXCEPT ![r] = response]
  /\ UNCHANGED <<sessions, made>>

Wait(r, k) == Ask(r, k, Response("none")) /\ waiting' = waiting \cup {r}

Refuse(r, k) == Ask(r, k, Response("invalid")) /\ UNCHANGED waiting

\* The key is known: its session is the answer.
Repeat(r, k) ==
  /\ \E s \in Registered(k) : Ask(r, k, [type |-> "created", session |-> s.id])
  /\ k # NoKey
  /\ UNCHANGED waiting

\* A session is there, at once with its questions.
Register(r) ==
  /\ r \in waiting
  /\ made[r] = Nothing
  /\ Free(key[r])
  /\ \E id \in SessionIds \ {s.id : s \in sessions}, n \in 1..NumQuestions :
       /\ sessions' = sessions \cup {[id |-> id, key |-> key[r], questions |-> n]}
       /\ made' = [made EXCEPT ![r] = id]
  /\ UNCHANGED <<waiting, key, reply>>

Answer(r, response) ==
  /\ r \in waiting
  /\ waiting' = waiting \ {r}
  /\ made' = [made EXCEPT ![r] = Nothing]
  /\ reply' = [reply EXCEPT ![r] = response]
  /\ UNCHANGED <<sessions, key>>

\* Its creator is given it.
Deliver(r) ==
  /\ made[r] # Nothing
  /\ Answer(r, [type |-> "created", session |-> made[r]])

\* No session is given.  An "error" leaves open whether there is one; with
\* the others there is none of this request, and one of them blames a
\* session there is.
GiveUp(r) == \E type \in {"upstream", "error", "conflict_error"} :
  /\ type # "error" => made[r] = Nothing
  /\ type = "conflict_error" => ~ Free(key[r])
  /\ Answer(r, Response(type))

Next == \E r \in Requests :
  \/ \E k \in Headers : Wait(r, k) \/ Refuse(r, k) \/ Repeat(r, k)
  \/ Register(r)
  \/ Deliver(r)
  \/ GiveUp(r)

Spec == Init /\ [][Next]_vars

-----------------------------------------------------------------------------
\* A key names one session, and so does an id.
OneSessionEach ==
  \A s, u \in sessions :
    (s.id = u.id \/ (s.key = u.key /\ s.key # NoKey)) => s = u

\* The session a client was given is there, whole, under the key of its
\* request.
AnswersNameSessions ==
  \A r \in Requests : reply[r].type = "created" =>
    \E s \in sessions :
      /\ s.id = reply[r].session
      /\ s.key = key[r]
      /\ s.questions \in 1..NumQuestions

\* A session is never taken back or changed by a create.
SessionsStay == [][sessions \subseteq sessions']_vars
=============================================================================
