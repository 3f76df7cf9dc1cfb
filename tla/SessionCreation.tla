--------------------------- MODULE SessionCreation ---------------------------
(***************************************************************************)
(* create_session of app/orchestration/interview_service.py: concurrent    *)
(* POST /sessions requests, retried with an Idempotency-Key or without.    *)
(*                                                                         *)
(* sessions is the committed table.  The INSERT is flushed before the      *)
(* questions are generated, so a transaction owns its key's entry in the   *)
(* unique index across the RAG and LLM calls, and PostgreSQL makes another *)
(* INSERT of the key wait for the owner's commit or rollback.              *)
(***************************************************************************)
EXTENDS Naturals, FiniteSets

CONSTANTS
  Keys,          \* the non-empty Idempotency-Key values
  NoKey,         \* no such header: NULL, which the constraint ignores
  EmptyKey,      \* an empty header: falsy in Python, a value for the database
  Headers,       \* which of these the clients send
  NumQuestions,  \* settings.num_questions
  SessionIds,    \* bound: the uuids there are to draw from
  MaxUnkeyed,    \* bound: how many sessions without a key are tried
  Requests,      \* the slots that serve requests
  Nothing        \* the absent session of a response

ASSUME CreationAssumption ==
  /\ NumQuestions \in Nat \ {0}
  /\ NoKey \notin Keys /\ EmptyKey \notin Keys /\ NoKey # EmptyKey
  /\ Headers \subseteq Keys \cup {NoKey, EmptyKey}
  /\ MaxUnkeyed \in Nat
  /\ Nothing \notin SessionIds

VARIABLES
  sessions,  \* sessions table: id, key, and how many questions are seeded
  pc,        \* how far the request of a slot has come
  key,       \* its Idempotency-Key
  own,       \* the uuid of the row it has flushed
  drafted,   \* how many questions it has generated
  reply      \* the last response of a slot

mem  == <<own, drafted>>
vars == <<sessions, mem, pc, key, reply>>

Locations == {"idle", "inserting", "inserted", "generated", "committed"}

Ids == {s.id : s \in sessions}

WithKey(k) == {s \in sessions : s.key = k}

\* Mutant: the INSERT is flushed by the commit only.
OwningAtCommit == {}

\* Where a transaction owns its key in the unique index.
Owning == {"inserted", "generated"}

\* Mutant: no constraint.
AnyKey(k) == TRUE

\* The UNIQUE constraint against what is committed.
UniqueKey(k) == k = NoKey \/ WithKey(k) = {}

\* What lets an INSERT through: no transaction in flight owns the key.
Unowned(k) == k = NoKey \/ ~ \E r \in Requests : pc[r] \in Owning /\ key[r] = k

ResponseTypes == {"none", "invalid", "created", "upstream", "conflict_error", "error"}

Response(type) == [type |-> type, session |-> Nothing]
Created(id)    == [type |-> "created", session |-> id]

-----------------------------------------------------------------------------
Init ==
  /\ sessions = {}
  /\ pc       = [r \in Requests |-> "idle"]
  /\ key      = [r \in Requests |-> NoKey]
  /\ own      = [r \in Requests |-> Nothing]
  /\ drafted  = [r \in Requests |-> 0]
  /\ reply    = [r \in Requests |-> Response("none")]

Goto(r, loc) == pc' = [pc EXCEPT ![r] = loc]

Respond(r, k, response) ==
  /\ pc[r] = "idle"
  /\ key' = [key EXCEPT ![r] = k]
  /\ reply' = [reply EXCEPT ![r] = response]
  /\ UNCHANGED <<sessions, mem, pc>>

\* The response; the ORM session is closed, which rolls back.
Finish(r, response) ==
  /\ Goto(r, "idle")
  /\ reply' = [reply EXCEPT ![r] = response]
  /\ own' = [own EXCEPT ![r] = Nothing]
  /\ drafted' = [drafted EXCEPT ![r] = 0]
  /\ UNCHANGED key

\* An empty or oversized company_id or startup_info.
Reject(r, k) == Respond(r, k, Response("invalid"))

\* Mutant: the key is not looked up.
CreateAnyway(r, k) ==
  /\ pc[r] = "idle"
  /\ Goto(r, "inserting")
  /\ key' = [key EXCEPT ![r] = k]
  /\ reply' = [reply EXCEPT ![r] = Response("none")]
  /\ UNCHANGED <<sessions, mem>>

\* The lookup by key, which an empty key skips.
Create(r, k) ==
  IF k \in Keys /\ WithKey(k) # {}
  THEN \E s \in WithKey(k) : Respond(r, k, Created(s.id))
  ELSE /\ pc[r] = "idle"
       /\ Goto(r, "inserting")
       /\ key' = [key EXCEPT ![r] = k]
       /\ reply' = [reply EXCEPT ![r] = Response("none")]
       /\ UNCHANGED <<sessions, mem>>

\* Mutants: the INSERT fails at once when the key is owned; the session is
\* committed before it has questions; the loser of a race waits for ever.
InsertNoWait(r) ==
  /\ pc[r] = "inserting"
  /\ UNCHANGED sessions
  /\ IF Unowned(key[r]) /\ UniqueKey(key[r])
     THEN /\ \E id \in SessionIds \ (Ids \cup {own[s] : s \in Requests}) :
               own' = [own EXCEPT ![r] = id]
          /\ Goto(r, "inserted")
          /\ UNCHANGED <<drafted, key, reply>>
     ELSE Finish(r, Response("conflict_error"))

InsertCommitting(r) ==
  /\ pc[r] = "inserting"
  /\ Unowned(key[r])
  /\ UniqueKey(key[r])
  /\ \E id \in SessionIds \ (Ids \cup {own[s] : s \in Requests}) :
       /\ own' = [own EXCEPT ![r] = id]
       /\ sessions' = sessions \cup {[id |-> id, key |-> key[r], questions |-> 0]}
  /\ Goto(r, "inserted")
  /\ UNCHANGED <<drafted, key, reply>>

InsertWhenUnique(r) ==
  /\ pc[r] = "inserting"
  /\ Unowned(key[r])
  /\ UniqueKey(key[r])
  /\ \E id \in SessionIds \ (Ids \cup {own[s] : s \in Requests}) :
       own' = [own EXCEPT ![r] = id]
  /\ Goto(r, "inserted")
  /\ UNCHANGED <<sessions, drafted, key, reply>>

\* The flush, outside any try: a key that is committed by now raises an
\* IntegrityError that nobody translates, a 500.
Insert(r) ==
  /\ pc[r] = "inserting"
  /\ Unowned(key[r])
  /\ UNCHANGED sessions
  /\ IF UniqueKey(key[r])
     THEN /\ \E id \in SessionIds \ (Ids \cup {own[s] : s \in Requests}) :
               own' = [own EXCEPT ![r] = id]
          /\ Goto(r, "inserted")
          /\ UNCHANGED <<drafted, key, reply>>
     ELSE Finish(r, Response("conflict_error"))

\* Mutant: the list is not cut.
GenerateUncut(r) ==
  /\ pc[r] = "inserted"
  /\ \E n \in 1..(NumQuestions + 1) : drafted' = [drafted EXCEPT ![r] = n]
  /\ Goto(r, "generated")
  /\ UNCHANGED <<sessions, own, key, reply>>

\* generate_top_questions: deduplicated, none is a failure, cut to the number
\* that was asked for.
Generate(r) ==
  /\ pc[r] = "inserted"
  /\ \E n \in 1..NumQuestions : drafted' = [drafted EXCEPT ![r] = n]
  /\ Goto(r, "generated")
  /\ UNCHANGED <<sessions, own, key, reply>>

GenerationFails(r) ==
  /\ pc[r] = "inserted"
  /\ Finish(r, Response("upstream"))
  /\ UNCHANGED sessions

\* Session and questions in one transaction; the handler of a lost race
\* returns the winner's session.
Commit(r) ==
  /\ pc[r] = "generated"
  /\ IF UniqueKey(key[r])
     THEN /\ sessions' = sessions \cup
               {[id |-> own[r], key |-> key[r], questions |-> drafted[r]]}
          /\ Goto(r, "committed")
          /\ UNCHANGED <<mem, key, reply>>
     ELSE /\ UNCHANGED sessions
          /\ \E s \in WithKey(key[r]) : Finish(r, Created(s.id))

\* The row is read again for the response, in a transaction of its own.
Refresh(r) ==
  /\ pc[r] = "committed"
  /\ Finish(r, Created(own[r]))
  /\ UNCHANGED sessions

\* The worker dies, or a statement fails or times out, the refresh after the
\* commit included: what is not committed is rolled back, what is stays.
Crash(r) ==
  /\ pc[r] # "idle"
  /\ Finish(r, Response("error"))
  /\ UNCHANGED sessions

Unkeyed == Cardinality(WithKey(NoKey)) +
  Cardinality({s \in Requests : pc[s] \notin {"idle", "committed"} /\ key[s] = NoKey})

\* Sessions without a key are left room for, no more.
Arrive(r) == \E k \in Headers :
  /\ k = NoKey => Unkeyed < MaxUnkeyed
  /\ Reject(r, k) \/ Create(r, k)

Proceed(r) ==
  Insert(r) \/ Generate(r) \/ GenerationFails(r) \/ Commit(r) \/ Refresh(r)

Next == \E r \in Requests : Arrive(r) \/ Proceed(r) \/ Crash(r)

Spec == Init /\ [][Next]_vars

\* No process dies and no exception escapes but the code's own.
CalmSpec == Init /\ [][\E r \in Requests : Arrive(r) \/ Proceed(r)]_vars

(***************************************************************************)
(* Every call returns (client timeouts, bounded retries), and PostgreSQL   *)
(* lets the transactions that wait for a key through in turn.              *)
(***************************************************************************)
Fairness == \A r \in Requests : WF_vars(Proceed(r)) /\ SF_vars(Insert(r))

FairSpec == Spec /\ Fairness

\* A client that repeats its create with the same key, in an environment
\* that recovers.  This is assumed, not coded.
RetryingSpec ==
  /\ FairSpec
  /\ <>[][\A r \in Requests : ~ (Crash(r) \/ GenerationFails(r))]_vars
  /\ \A k \in Keys : SF_vars(\E r \in Requests : Create(r, k))

-----------------------------------------------------------------------------
\* The table, and what a slot remembers, have their types.
TypeOK ==
  /\ sessions \in SUBSET [id : SessionIds, key : Headers, questions : Nat]
  /\ pc       \in [Requests -> Locations]
  /\ key      \in [Requests -> Headers \cup {NoKey}]
  /\ own      \in [Requests -> SessionIds \cup {Nothing}]
  /\ drafted  \in [Requests -> 0..NumQuestions]
  /\ reply    \in [Requests -> [type : ResponseTypes,
                                session : SessionIds \cup {Nothing}]]

\* Every client that is given a session for a key is given the same one, the
\* only one with that key, whichever of its retries and rivals made it.
KeyedRepliesAgree ==
  \A r \in Requests : (reply[r].type = "created" /\ key[r] # NoKey) =>
    {s.id : s \in WithKey(key[r])} = {reply[r].session}

\* No client ever finds a session without its questions, a lookup that hits
\* a session still being created included.
SessionsAreSeeded ==
  \A s \in sessions : s.questions \in 1..NumQuestions

\* The race for a key is over before the questions are generated: the commit
\* never meets the constraint, so its handler of a lost race is dead code.
CommitNeverConflicts ==
  \A r \in Requests : pc[r] = "generated" => UniqueKey(key[r])

\* A create refused for its key is refused for a session that exists, never
\* for one that may yet be rolled back.
ConflictErrorMeansKeyTaken ==
  \A r \in Requests : reply[r].type = "conflict_error" => WithKey(key[r]) # {}

\* A race for a key is decided by the INSERT, for good: the winner meets no
\* constraint any more, and the loser is told of a winner there is.
RaceEndsAtInsert == CommitNeverConflicts /\ ConflictErrorMeansKeyTaken

\* interview_service: the loser of a race for a key is given the winner's
\* session, so no constraint violation reaches the client.
NoConflictEscapes == \A r \in Requests : reply[r].type # "conflict_error"

(***************************************************************************)
(* Refinement: a create registers its session at its commit, and delivers  *)
(* it once it has read it again.                                           *)
(***************************************************************************)
Registry == INSTANCE SessionRegistry WITH
  waiting <- {r \in Requests : pc[r] # "idle"},
  made <- [r \in Requests |-> IF pc[r] = "committed" THEN own[r] ELSE Nothing]

\* However creates race, fail, crash and are repeated, what clients see is a
\* registry to which sessions are added whole, one for each key.  An answer
\* other than a 500 tells whether the create has left a session; after a 500
\* there is a whole one or none.
ImplementsRegistry == Registry!Spec

\* Every create ends, the ones that wait for a key included.
EveryCreateEnds == \A r \in Requests : (pc[r] # "idle") ~> (pc[r] = "idle")

\* A client that keeps repeating a create with the same non-empty key is
\* given its session, and again each time it asks, whatever failed, crashed
\* or raced before.
RetryGetsSession ==
  \A k \in Keys : []<>(\E r \in Requests : key[r] = k /\ reply[r].type = "created")
=============================================================================
