---------------------------- MODULE WorkerProcess ----------------------------
(***************************************************************************)
(* What the requests of one app process share: the engine and the session  *)
(* factory of app/persistence/database.py, created on first use, the       *)
(* engine's connection pool, and, with rag_mode in_process, the embedding  *)
(* model of rag_service/vectorstore.py.  Each request is a worker thread;  *)
(* it waits for a connection, for a row lock, for the model's lock, and    *)
(* keeps the first two across its calls to RAG and the LLM.                *)
(***************************************************************************)
EXTENDS Integers, FiniteSets

CONSTANTS
  Requests,   \* the threads that serve requests
  Rows,       \* what two writers contend for: a question, an idempotency key
  Complete,   \* the task that locks no row before its commit
  Probe,      \* the task of GET /ready
  Startup,    \* who creates the engine before any request: create_all_tables
  None,       \* Python's None
  PoolLimit   \* connections of one engine: db_pool_size + db_max_overflow, or
              \* for SQLite, whose engine is given neither, SQLAlchemy's default

Tasks == Rows \cup {Complete, Probe}

ASSUME ProcessAssumption ==
  /\ IsFiniteSet(Requests)
  /\ Startup \notin Requests /\ None \notin Requests /\ Startup # None
  /\ Complete \notin Rows /\ Probe \notin Rows /\ Complete # Probe
  /\ None \notin Tasks
  /\ PoolLimit \in Nat \ {0}

VARIABLES
  ragMode,    \* settings.rag_mode
  database,   \* settings.database_url: its dialect (see Init)
  engine,     \* _engine, named after the thread that built it
  factory,    \* the engine _session_factory is bound to
  model,      \* _model, named after the thread that loaded it
  modelLock,  \* who holds _model_lock
  pc,         \* how far the request of a thread has come
  task,       \* the row it writes, Complete or Probe; None if idle
  bind,       \* the engine it has got hold of
  connected,  \* the threads with a connection of their engine's pool
  locks       \* who holds the lock of each row

globals == <<ragMode, database, engine, factory, model>>
vars == <<globals, modelLock, pc, task, bind, connected, locks>>

Engines == Requests \cup {Startup}

\* Where a thread has no engine yet.
Opening == {"starting", "engine", "building", "returning", "binding", "opening"}

Calling == {"calling", "waiting", "checking", "loading"}

Locations == Opening \cup Calling \cup
  {"idle", "acquiring", "working", "answered", "committed",
   "refreshing", "closing"}

InUse(e) == {r \in connected : bind[r] = e}

Exhausted(e) == Cardinality(InUse(e)) >= PoolLimit

\* SQLite, in the local and test environments, gets its engine when the
\* process starts; nothing else does, and counts as "postgresql" here.
Init ==
  /\ ragMode \in {"http", "in_process"}
  /\ database \in {"sqlite", "postgresql"}
  /\ engine = IF database = "sqlite" THEN Startup ELSE None
  /\ factory = None
  /\ model = None
  /\ modelLock = None
  /\ pc = [r \in Requests |-> "idle"]
  /\ task = [r \in Requests |-> None]
  /\ bind = [r \in Requests |-> None]
  /\ connected = {}
  /\ locks = [row \in Rows |-> None]

Goto(r, loc) == pc' = [pc EXCEPT ![r] = loc]

Move(r, from, to) == pc[r] = from /\ Goto(r, to)

Unlocked(r) == [row \in Rows |-> IF locks[row] = r THEN None ELSE locks[row]]

\* A commit or a rollback: the row and the connection are free again.
EndTransaction(r) ==
  /\ connected' = connected \ {r}
  /\ locks' = Unlocked(r)

-----------------------------------------------------------------------------
\* A request comes in; a probe needs an engine, a handler a session.
Arrive(r, t) ==
  /\ Move(r, "idle", IF t = Probe THEN "engine" ELSE "starting")
  /\ task' = [task EXCEPT ![r] = t]
  /\ UNCHANGED <<globals, modelLock, bind, connected, locks>>

Opens(r) == UNCHANGED <<ragMode, database, model, modelLock, task, connected, locks>>

\* get_session_factory: is there one?
CheckFactory(r) ==
  /\ Move(r, "starting", IF factory = None THEN "engine" ELSE "opening")
  /\ Opens(r)
  /\ UNCHANGED <<engine, factory, bind>>

\* Mutant: the engine is built whenever it is asked for.
CheckEngineNever(r) ==
  /\ Move(r, "engine", "building")
  /\ Opens(r)
  /\ UNCHANGED <<engine, factory, bind>>

\* Mutant: an engine that is being built passes for one that is there.
CheckEngineStarted(r) ==
  /\ Move(r, "engine",
          IF engine = None /\ \A s \in Requests : pc[s] # "building"
          THEN "building" ELSE "returning")
  /\ Opens(r)
  /\ UNCHANGED <<engine, factory, bind>>

\* get_engine: is there one?  No lock makes the answer last.
CheckEngine(r) ==
  /\ Move(r, "engine", IF engine = None THEN "building" ELSE "returning")
  /\ Opens(r)
  /\ UNCHANGED <<engine, factory, bind>>

BuildEngine(r) ==
  /\ Move(r, "building", "returning")
  /\ engine' = r
  /\ Opens(r)
  /\ UNCHANGED <<factory, bind>>

\* return _engine: the global is read again.
ReturnEngine(r) ==
  /\ Move(r, "returning", IF task[r] = Probe THEN "acquiring" ELSE "binding")
  /\ bind' = [bind EXCEPT ![r] = engine]
  /\ Opens(r)
  /\ UNCHANGED <<engine, factory>>

BindFactory(r) ==
  /\ Move(r, "binding", "opening")
  /\ factory' = bind[r]
  /\ Opens(r)
  /\ UNCHANGED <<engine, bind>>

\* return _session_factory, and a session of it.
OpenSession(r) ==
  /\ Move(r, "opening", "acquiring")
  /\ bind' = [bind EXCEPT ![r] = factory]
  /\ Opens(r)
  /\ UNCHANGED <<engine, factory>>

-----------------------------------------------------------------------------
\* The first statement of a transaction takes a connection from the pool.
Checkout(r) ==
  /\ \/ Move(r, "acquiring", "working")
     \/ Move(r, "committed", "refreshing")
  /\ ~ Exhausted(bind[r])
  /\ connected' = connected \cup {r}
  /\ UNCHANGED <<globals, modelLock, task, bind, locks>>

\* pool_timeout: a 500, after the commit too; a probe reports the database
\* and goes on.
CheckoutTimesOut(r) ==
  /\ pc[r] \in {"acquiring", "committed"}
  /\ Exhausted(bind[r])
  /\ Goto(r, IF task[r] = Probe THEN "calling" ELSE "closing")
  /\ UNCHANGED <<globals, modelLock, task, bind, connected, locks>>

\* SELECT 1; the connection goes back before the dependencies are asked.
ProbeDatabase(r) ==
  /\ task[r] = Probe
  /\ Move(r, "working", "calling")
  /\ EndTransaction(r)
  /\ UNCHANGED <<globals, modelLock, task, bind>>

\* The flush of a writer waits for its row.
LockRow(r) ==
  /\ task[r] \in Rows
  /\ Move(r, "working", "calling")
  /\ locks[task[r]] = None
  /\ locks' = [locks EXCEPT ![task[r]] = r]
  /\ UNCHANGED <<globals, modelLock, task, bind, connected>>

\* complete_session has read the turns.
ReadTurns(r) ==
  /\ task[r] = Complete
  /\ Move(r, "working", "calling")
  /\ UNCHANGED <<globals, modelLock, task, bind, connected, locks>>

\* Nothing to do: a read, a 404, a 409, the report there is.
EndEarly(r) ==
  /\ task[r] # Probe
  /\ Move(r, "working", "closing")
  /\ UNCHANGED <<globals, modelLock, task, bind, connected, locks>>

-----------------------------------------------------------------------------
\* What the calls leave alone.
Calls(r) == UNCHANGED <<ragMode, database, engine, factory, task, bind, connected, locks>>

\* The RAG service answers, or the model is there.
CallAnswers(r) ==
  /\ ragMode = "http" \/ model # None
  /\ Move(r, "calling", "answered")
  /\ Calls(r)
  /\ UNCHANGED <<model, modelLock>>

\* get_embedding_model, get_chroma_client: there is none yet.
FindNoModel(r) ==
  /\ ragMode = "in_process" /\ model = None
  /\ Move(r, "calling", "waiting")
  /\ Calls(r)
  /\ UNCHANGED <<model, modelLock>>

LockModel(r) ==
  /\ Move(r, "waiting", "checking")
  /\ modelLock = None
  /\ modelLock' = r
  /\ Calls(r)
  /\ UNCHANGED model

\* Mutant: what was seen before the lock is not checked again.
RecheckNever(r) ==
  /\ Move(r, "checking", "loading")
  /\ Calls(r)
  /\ UNCHANGED <<model, modelLock>>

\* Another thread may have loaded it while this one waited.
Recheck(r) ==
  /\ Move(r, "checking", IF model = None THEN "loading" ELSE "answered")
  /\ modelLock' = IF model = None THEN r ELSE None
  /\ Calls(r)
  /\ UNCHANGED model

LoadModel(r) ==
  /\ Move(r, "loading", "answered")
  /\ model' = r
  /\ modelLock' = None
  /\ Calls(r)

-----------------------------------------------------------------------------
\* RAG or the LLM failed: create_session and submit_answer roll back.
Rollback(r) ==
  /\ task[r] \in Rows
  /\ Move(r, "answered", "closing")
  /\ EndTransaction(r)
  /\ UNCHANGED <<globals, modelLock, task, bind>>

\* Mutant: the connection goes back before the row is unlocked.
CommitHolding(r) ==
  /\ task[r] # Probe
  /\ \/ Move(r, "answered", "committed")
     \/ task[r] \in Rows /\ Move(r, "answered", "closing")
  /\ connected' = connected \ {r}
  /\ UNCHANGED <<globals, modelLock, task, bind, locks>>

\* The commit; but for a follow-up, what comes next is read afterwards, in
\* a transaction of its own.
Commit(r) ==
  /\ task[r] # Probe
  /\ \/ Move(r, "answered", "committed")
     \/ task[r] \in Rows /\ Move(r, "answered", "closing")
  /\ EndTransaction(r)
  /\ UNCHANGED <<globals, modelLock, task, bind>>

\* The answer: a probe's, or what db.refresh has read.
Answer(r) ==
  /\ \/ task[r] = Probe /\ Move(r, "answered", "closing")
     \/ Move(r, "refreshing", "closing")
  /\ UNCHANGED <<globals, modelLock, task, bind, connected, locks>>

\* An exception anywhere in a transaction or in loading the model.
Fail(r) ==
  /\ pc[r] \in Calling \cup {"working", "answered", "refreshing"}
  /\ Goto(r, "closing")
  /\ modelLock' = IF modelLock = r THEN None ELSE modelLock
  /\ UNCHANGED <<globals, task, bind, connected, locks>>

\* Mutant: the session is not closed.
CloseNever(r) ==
  /\ Move(r, "closing", "idle")
  /\ bind' = [bind EXCEPT ![r] = None]
  /\ task' = [task EXCEPT ![r] = None]
  /\ UNCHANGED <<globals, modelLock, connected, locks>>

\* get_session closes the session, whatever has happened.
Close(r) ==
  /\ Move(r, "closing", "idle")
  /\ bind' = [bind EXCEPT ![r] = None]
  /\ task' = [task EXCEPT ![r] = None]
  /\ EndTransaction(r)
  /\ UNCHANGED <<globals, modelLock>>

-----------------------------------------------------------------------------
Open(r) ==
  \/ CheckFactory(r) \/ CheckEngine(r) \/ BuildEngine(r)
  \/ ReturnEngine(r) \/ BindFactory(r) \/ OpenSession(r)

Call(r) ==
  \/ CallAnswers(r) \/ FindNoModel(r) \/ LockModel(r)
  \/ Recheck(r) \/ LoadModel(r)

\* What a thread does unless something fails.
Proceed(r) ==
  \/ Open(r) \/ Call(r)
  \/ Checkout(r) \/ ProbeDatabase(r) \/ LockRow(r) \/ ReadTurns(r)
  \/ Commit(r) \/ Answer(r) \/ Close(r)

Fails(r) == CheckoutTimesOut(r) \/ EndEarly(r) \/ Rollback(r) \/ Fail(r)

Next == \E r \in Requests :
  (\E t \in Tasks : Arrive(r, t)) \/ Proceed(r) \/ Fails(r)

Spec == Init /\ [][Next]_vars

(***************************************************************************)
(* Threads run, calls return, and the pool, PostgreSQL and the operating   *)
(* system let those that wait through in turn.  No timeout is needed.      *)
(***************************************************************************)
Fairness == \A r \in Requests :
  /\ WF_vars(Proceed(r))
  /\ SF_vars(Checkout(r)) /\ SF_vars(LockRow(r)) /\ SF_vars(LockModel(r))

FairSpec == Spec /\ Fairness

-----------------------------------------------------------------------------
\* The variables have their types, and who is past the opening an engine.
TypeOK ==
  /\ ragMode \in {"http", "in_process"}
  /\ database \in {"sqlite", "postgresql"}
  /\ engine \in Engines \cup {None}
  /\ factory \in Engines \cup {None}
  /\ model \in Requests \cup {None}
  /\ modelLock \in Requests \cup {None}
  /\ pc \in [Requests -> Locations]
  /\ task \in [Requests -> Tasks \cup {None}]
  /\ bind \in [Requests -> Engines \cup {None}]
  /\ connected \subseteq Requests
  /\ locks \in [Rows -> Requests \cup {None}]
  /\ \A r \in Requests :
       /\ pc[r] \notin Opening \cup {"idle"} => bind[r] # None
       /\ task[r] = None <=> pc[r] = "idle"

\* Why no thread waits for ever although each keeps its connection across
\* its calls: who waits for a connection holds nothing, who waits for a row
\* no more than its connection, and who has the model's lock waits for
\* nothing at all.
NoHoldAndWait ==
  /\ \A r \in Requests : pc[r] \in {"acquiring", "committed"} =>
       r \notin connected /\ modelLock # r /\ \A row \in Rows : locks[row] # r
  /\ \A r \in Requests : pc[r] = "working" =>
       modelLock # r /\ \A row \in Rows : locks[row] # r
  /\ modelLock # None => pc[modelLock] \in {"checking", "loading"}

\* However a request ends, nothing it has taken outlives it.
NothingKept ==
  /\ \A r \in Requests : pc[r] = "idle" =>
       r \notin connected /\ modelLock # r /\ \A row \in Rows : locks[row] # r
  /\ \A row \in Rows : locks[row] # None => locks[row] \in connected

\* Where a thread is kept waiting: by a pool, a row or the model's lock.
Waits(r) ==
  \/ pc[r] \in {"acquiring", "committed"} /\ Exhausted(bind[r])
  \/ pc[r] = "working" /\ task[r] \in Rows /\ locks[task[r]] # None
  \/ pc[r] = "waiting" /\ modelLock # None

\* Whoever is kept waiting, some request that is under way is not: the
\* waits for connections, rows and the model never close a circle.
SomeoneProceeds ==
  (\E r \in Requests : Waits(r)) =>
    \E s \in Requests : pc[s] # "idle" /\ ~ Waits(s)

\* What threads hold never keeps the others waiting for good, neither in a
\* circle nor because it was left behind.
HoldingIsSafe == NoHoldAndWait /\ NothingKept /\ SomeoneProceeds

\* An engine created before the first request is the only one, and its pool
\* bounds the connections of the process (for SQLite by the default of the
\* pool, not by the settings).
StartupEngineBounds ==
  database = "sqlite" =>
    /\ engine = Startup
    /\ factory \in {None, Startup}
    /\ \A r \in Requests : bind[r] \in {None, Startup}
    /\ Cardinality(connected) <= PoolLimit

\* database.py: one engine per process, so that a deployment can size its
\* connection count against the database's limit.
ProcessLimit == Cardinality(connected) <= PoolLimit

\* There is an engine and a factory, and nobody who has seen none.
Settled ==
  /\ engine # None /\ factory # None
  /\ \A r \in Requests :
       /\ pc[r] \notin {"building", "binding"}
       /\ pc[r] \in {"engine", "returning"} => task[r] = Probe

\* Nobody works with an engine that has been replaced.
OldEngineGone == \A r \in Requests : bind[r] \in {None, engine, factory}

\* Threads that have seen no engine may replace it; once they are through,
\* the process has settled for good, and nobody comes back to an old engine.
EnginesSettle ==
  [][Settled => /\ Settled' /\ UNCHANGED <<engine, factory>>
                /\ OldEngineGone => OldEngineGone']_vars

\* What database.py promises of one engine is off by a factor of two at most
\* in the long run: a lost race leaves an engine to the probes and another
\* to the sessions.
SettledBounds == Settled /\ OldEngineGone => Cardinality(connected) <= 2 * PoolLimit

\* The model is loaded once: never again, and never by two threads at once.
ModelLoadedOnce ==
  [][/\ model # None => model' = model
     /\ \A r, s \in Requests :
          (pc'[r] = "loading" /\ pc'[s] = "loading") => r = s]_vars

\* Every request ends, those that wait included, without a timeout's help.
EveryRequestEnds == \A r \in Requests : (pc[r] # "idle") ~> (pc[r] = "idle")
=============================================================================
