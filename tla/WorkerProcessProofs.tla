------------------------- MODULE WorkerProcessProofs -------------------------
(***************************************************************************)
(* Proofs about WorkerProcess, for every number of threads and rows, and   *)
(* every limit of the pool.                                                *)
(***************************************************************************)
EXTENDS WorkerProcess, FiniteSetTheorems, TLAPS

-----------------------------------------------------------------------------
(***************************************************************************)
(* The inductive invariant.                                                *)
(***************************************************************************)

\* Where a thread may have a connection.
InTransaction == Calling \cup {"working", "answered", "refreshing", "closing"}

\* What a place says about what there is and what the thread holds.
ThreadInv(r) ==
  /\ pc[r] = "returning" => engine # None
  /\ pc[r] = "binding" => bind[r] # None
  /\ pc[r] = "opening" => factory # None
  /\ r \in connected => pc[r] \in InTransaction
  /\ pc[r] \in {"working", "refreshing"} => r \in connected
  /\ modelLock = r <=> pc[r] \in {"checking", "loading"}
  /\ pc[r] = "loading" => model = None

\* A row is locked by a writer of it, in the transaction that wrote it.
RowInv(row) ==
  locks[row] # None =>
    /\ task[locks[row]] = row
    /\ pc[locks[row]] \in Calling \cup {"answered", "closing"}
    /\ locks[row] \in connected

\* With an engine from the start nobody builds another.
StartupInv ==
  database = "sqlite" =>
    /\ engine = Startup
    /\ factory \in {None, Startup}
    /\ \A r \in Requests : bind[r] \in {None, Startup} /\ pc[r] # "building"

\* Each engine keeps to its limit.
PoolInv == \A e \in Engines : Cardinality(InUse(e)) <= PoolLimit

IInv ==
  /\ TypeOK
  /\ \A r \in Requests : ThreadInv(r)
  /\ \A row \in Rows : RowInv(row)
  /\ StartupInv
  /\ PoolInv

USE DEF Opening, Calling, InTransaction, Locations

LEMMA Names ==
  /\ None \notin Engines /\ None \notin Requests /\ Startup \in Engines
  /\ Startup \notin Requests
  /\ Requests \subseteq Engines
  /\ None \notin Rows /\ Complete \notin Rows /\ Probe \notin Rows
  /\ Complete # Probe /\ Complete # None /\ Probe # None
  /\ Tasks = Rows \cup {Complete, Probe}
BY ProcessAssumption DEF Engines, Tasks

LEMMA UsersFinite ==
  ASSUME TypeOK, NEW e
  PROVE  IsFiniteSet(InUse(e)) /\ Cardinality(InUse(e)) \in Nat
<1>1. InUse(e) \subseteq Requests
  BY DEF InUse, TypeOK
<1> QED BY <1>1, ProcessAssumption, FS_Subset, FS_CardinalityType

\* Connections that are given back, or threads without one that change
\* their engine, exhaust no pool.
LEMMA FewerUsers ==
  ASSUME TypeOK, PoolInv, connected' \subseteq connected,
         \A r \in connected' : bind'[r] = bind[r]
  PROVE  PoolInv'
<1> SUFFICES ASSUME NEW e \in Engines PROVE Cardinality(InUse(e)') <= PoolLimit
  BY DEF PoolInv
<1>1. InUse(e)' \subseteq InUse(e)
  BY DEF InUse
<1>2. IsFiniteSet(InUse(e)) /\ Cardinality(InUse(e)) \in Nat
  BY UsersFinite
<1>3. /\ Cardinality(InUse(e)') \in Nat
      /\ Cardinality(InUse(e)') <= Cardinality(InUse(e))
  BY <1>1, <1>2, FS_Subset, FS_CardinalityType
<1>4. Cardinality(InUse(e)) <= PoolLimit /\ PoolLimit \in Nat
  BY ProcessAssumption DEF PoolInv
<1> QED BY <1>2, <1>3, <1>4

\* A thread that takes a connection takes one the pool can spare.
LEMMA OneMoreUser ==
  ASSUME TypeOK, PoolInv, NEW r \in Requests, r \notin connected,
         ~ Exhausted(bind[r]), connected' = connected \cup {r}, UNCHANGED bind
  PROVE  PoolInv'
<1> SUFFICES ASSUME NEW e \in Engines PROVE Cardinality(InUse(e)') <= PoolLimit
  BY DEF PoolInv
<1>1. IsFiniteSet(InUse(e)) /\ Cardinality(InUse(e)) \in Nat
  BY UsersFinite
<1>2. PoolLimit \in Nat /\ Cardinality(InUse(e)) <= PoolLimit
  BY ProcessAssumption DEF PoolInv
<1>3. CASE bind[r] = e
  <2>1. InUse(e)' = InUse(e) \cup {r}
    BY <1>3 DEF InUse
  <2>2. Cardinality(InUse(e)) < PoolLimit
    BY <1>1, <1>2, <1>3 DEF Exhausted
  <2>3. r \notin InUse(e)
    BY DEF InUse
  <2>4. Cardinality(InUse(e) \cup {r}) = Cardinality(InUse(e)) + 1
    BY <1>1, <2>3, FS_AddElement
  <2> QED BY <1>1, <1>2, <2>1, <2>2, <2>4
<1>4. CASE bind[r] # e
  <2>1. InUse(e)' = InUse(e)
    BY <1>4 DEF InUse
  <2> QED BY <1>2, <2>1
<1> QED BY <1>3, <1>4

LEMMA InitIInv == Init => IInv
<1> SUFFICES ASSUME Init PROVE IInv
  OBVIOUS
<1>1. TypeOK
  BY Names DEF Init, TypeOK
<1>2. \A r \in Requests : ThreadInv(r)
  BY Names DEF Init, ThreadInv
<1>3. (\A row \in Rows : RowInv(row)) /\ StartupInv
  BY Names DEF Init, RowInv, StartupInv
<1>4. PoolInv
  <2> SUFFICES ASSUME NEW e \in Engines PROVE Cardinality(InUse(e)) <= PoolLimit
    BY DEF PoolInv
  <2>1. InUse(e) = {}
    BY DEF Init, InUse
  <2> QED BY <2>1, FS_EmptySet, ProcessAssumption
<1> QED BY <1>1, <1>2, <1>3, <1>4 DEF IInv

-----------------------------------------------------------------------------
(***************************************************************************)
(* The steps.                                                              *)
(***************************************************************************)
LEMMA ArriveStep ==
  ASSUME IInv, NEW r \in Requests, NEW t \in Tasks, Arrive(r, t)
  PROVE  IInv'
<1>1. TypeOK'
  BY Names DEF IInv, TypeOK, Arrive, Move, Goto, globals
<1>2. \A s \in Requests : ThreadInv(s)'
  BY DEF IInv, TypeOK, ThreadInv, Arrive, Move, Goto, globals
<1>3. (\A row \in Rows : RowInv(row)') /\ StartupInv'
  BY Names DEF IInv, TypeOK, RowInv, StartupInv, Arrive, Move, Goto, globals
<1>4. PoolInv'
  BY FewerUsers DEF IInv, Arrive
<1> QED BY <1>1, <1>2, <1>3, <1>4 DEF IInv

LEMMA OpenStep ==
  ASSUME IInv, NEW r \in Requests, Open(r)
  PROVE  IInv'
<1>1. /\ UNCHANGED <<ragMode, database, model, modelLock, task, connected, locks>>
      /\ pc[r] \in {"starting", "engine", "building", "returning", "binding", "opening"}
      /\ \E loc \in {"engine", "building", "returning", "binding", "opening", "acquiring"} :
           pc' = [pc EXCEPT ![r] = loc]
  BY DEF Open, CheckFactory, CheckEngine, BuildEngine, ReturnEngine, BindFactory,
     OpenSession, Opens, Move, Goto
<1>2. r \notin connected /\ task[r] # None
  BY <1>1 DEF IInv, TypeOK, ThreadInv
<1>3. TypeOK'
  BY Names DEF IInv, TypeOK, ThreadInv, Open, CheckFactory, CheckEngine, BuildEngine,
     ReturnEngine, BindFactory, OpenSession, Opens, Move, Goto
<1>4. \A s \in Requests : ThreadInv(s)'
  BY Names DEF IInv, TypeOK, ThreadInv, Open, CheckFactory, CheckEngine, BuildEngine,
     ReturnEngine, BindFactory, OpenSession, Opens, Move, Goto
<1>5. \A row \in Rows : RowInv(row)'
  BY <1>1, Names DEF IInv, TypeOK, RowInv
<1>6. StartupInv'
  BY Names DEF IInv, TypeOK, StartupInv, Open, CheckFactory, CheckEngine, BuildEngine,
     ReturnEngine, BindFactory, OpenSession, Opens, Move, Goto
<1>7. PoolInv'
  <2>1. \A s \in connected' : bind'[s] = bind[s]
    BY <1>1, <1>2 DEF IInv, TypeOK, Open, CheckFactory, CheckEngine, BuildEngine,
       ReturnEngine, BindFactory, OpenSession
  <2> QED BY <1>1, <2>1, FewerUsers DEF IInv
<1> QED BY <1>3, <1>4, <1>5, <1>6, <1>7 DEF IInv

LEMMA CheckoutStep ==
  ASSUME IInv, NEW r \in Requests, Checkout(r)
  PROVE  IInv'
<1>1. /\ UNCHANGED <<ragMode, database, engine, factory, model, modelLock, task, bind, locks>>
      /\ pc[r] \in {"acquiring", "committed"}
      /\ \/ pc' = [pc EXCEPT ![r] = "working"]
         \/ pc' = [pc EXCEPT ![r] = "refreshing"]
      /\ connected' = connected \cup {r}
  BY DEF Checkout, Move, Goto, globals
<1>2. r \notin connected
  BY <1>1 DEF IInv, ThreadInv
<1>3. TypeOK'
  BY <1>1, Names DEF IInv, TypeOK
<1>4. \A s \in Requests : ThreadInv(s)'
  BY <1>1 DEF IInv, TypeOK, ThreadInv
<1>5. (\A row \in Rows : RowInv(row)') /\ StartupInv'
  BY <1>1, Names DEF IInv, TypeOK, RowInv, StartupInv
<1>6. PoolInv'
  BY <1>1, <1>2, OneMoreUser DEF IInv, Checkout
<1> QED BY <1>3, <1>4, <1>5, <1>6 DEF IInv

\* The steps in which only the place of a thread and the locks of its row
\* and of the model change.
Stays(r) ==
  \/ CheckoutTimesOut(r) \/ LockRow(r) \/ ReadTurns(r) \/ EndEarly(r)
  \/ Call(r) \/ Answer(r) \/ Fail(r)

LEMMA StaysStep ==
  ASSUME IInv, NEW r \in Requests, Stays(r)
  PROVE  IInv'
<1>1. /\ UNCHANGED <<ragMode, database, engine, factory, task, bind, connected>>
      /\ pc[r] \in Calling \cup {"acquiring", "committed", "working", "answered", "refreshing"}
      /\ \E loc \in Calling \cup {"answered", "closing"} : pc' = [pc EXCEPT ![r] = loc]
  BY DEF Stays, CheckoutTimesOut, LockRow, ReadTurns, EndEarly, Call, CallAnswers,
     FindNoModel, LockModel, Recheck, LoadModel, Calls, Answer, Fail, Move, Goto, globals
<1>2. TypeOK'
  <2>1. model' \in Requests \cup {None}
    BY <1>1 DEF IInv, TypeOK, Stays, CheckoutTimesOut, LockRow, ReadTurns, EndEarly, Call,
       CallAnswers, FindNoModel, LockModel, Recheck, LoadModel, Answer, Fail, globals
  <2>2. modelLock' \in Requests \cup {None}
    BY <1>1 DEF IInv, TypeOK, Stays, CheckoutTimesOut, LockRow, ReadTurns, EndEarly, Call,
       CallAnswers, FindNoModel, LockModel, Recheck, LoadModel, Answer, Fail
  <2>3. locks' \in [Rows -> Requests \cup {None}]
    <3>1. CASE LockRow(r)
      BY <3>1 DEF IInv, TypeOK, LockRow
    <3>2. CASE ~ LockRow(r)
      BY <3>2 DEF IInv, TypeOK, Stays, CheckoutTimesOut, ReadTurns, EndEarly, Call,
         CallAnswers, FindNoModel, LockModel, Recheck, LoadModel, Calls, Answer, Fail
    <3> QED BY <3>1, <3>2
  <2>4. /\ pc' \in [Requests -> Locations]
        /\ \A s \in Requests :
             /\ pc'[s] \notin Opening \cup {"idle"} => bind[s] # None
             /\ task[s] = None <=> pc'[s] = "idle"
    BY <1>1 DEF IInv, TypeOK
  <2> QED BY <1>1, <2>1, <2>2, <2>3, <2>4 DEF IInv, TypeOK
<1>3. \A s \in Requests : ThreadInv(s)'
  <2> SUFFICES ASSUME NEW s \in Requests PROVE ThreadInv(s)'
    OBVIOUS
  <2>1. CASE CheckoutTimesOut(r) \/ LockRow(r) \/ ReadTurns(r) \/ EndEarly(r) \/ Answer(r)
    BY <1>1, <2>1 DEF IInv, TypeOK, ThreadInv, CheckoutTimesOut, LockRow, ReadTurns,
       EndEarly, Answer, Move, Goto, globals
  <2>2. CASE Call(r)
    BY <1>1, <2>2, Names DEF IInv, TypeOK, ThreadInv, Call, CallAnswers, FindNoModel,
       LockModel, Recheck, LoadModel, Move, Goto
  <2>3. CASE Fail(r)
    BY <1>1, <2>3, Names DEF IInv, TypeOK, ThreadInv, Fail, Goto, globals
  <2> QED BY <2>1, <2>2, <2>3 DEF Stays
<1>4. \A row \in Rows : RowInv(row)'
  <2> SUFFICES ASSUME NEW row \in Rows PROVE RowInv(row)'
    OBVIOUS
  <2>1. CASE LockRow(r)
    <3>1. r \in connected
      BY <2>1, Names DEF IInv, ThreadInv, LockRow, Move
    <3> QED BY <1>1, <2>1, <3>1, Names DEF IInv, TypeOK, RowInv, LockRow, Move, Goto
  <2>2. CASE ~ LockRow(r)
    <3>1. locks' = locks
      BY <2>2 DEF Stays, CheckoutTimesOut, ReadTurns, EndEarly, Call, CallAnswers,
         FindNoModel, LockModel, Recheck, LoadModel, Calls, Answer, Fail
    <3> QED BY <1>1, <3>1, Names DEF IInv, TypeOK, RowInv
  <2> QED BY <2>1, <2>2
<1>5. StartupInv' /\ PoolInv'
  BY <1>1, FewerUsers, Names DEF IInv, TypeOK, StartupInv
<1> QED BY <1>2, <1>3, <1>4, <1>5 DEF IInv

\* The steps that end a transaction.
Ends(r) == ProbeDatabase(r) \/ Rollback(r) \/ Commit(r) \/ Close(r)

LEMMA EndsStep ==
  ASSUME IInv, NEW r \in Requests, Ends(r)
  PROVE  IInv'
<1>1. /\ UNCHANGED <<ragMode, database, engine, factory, model, modelLock>>
      /\ connected' = connected \ {r}
      /\ locks' = Unlocked(r)
      /\ pc[r] \in {"working", "answered", "closing"}
  BY DEF Ends, ProbeDatabase, Rollback, Commit, Close, EndTransaction, Move, globals
<1>2. \/ /\ UNCHANGED <<task, bind>>
         /\ \E loc \in {"calling", "closing", "committed"} : pc' = [pc EXCEPT ![r] = loc]
      \/ /\ bind' = [bind EXCEPT ![r] = None]
         /\ task' = [task EXCEPT ![r] = None]
         /\ pc' = [pc EXCEPT ![r] = "idle"]
  BY DEF Ends, ProbeDatabase, Rollback, Commit, Close, Move, Goto
<1>3. TypeOK'
  BY <1>1, <1>2, Names DEF IInv, TypeOK, Unlocked
<1>4. \A s \in Requests : ThreadInv(s)'
  BY <1>1, <1>2 DEF IInv, TypeOK, ThreadInv
<1>5. \A row \in Rows : RowInv(row)'
  BY <1>1, <1>2, Names DEF IInv, TypeOK, RowInv, Unlocked
<1>6. StartupInv'
  BY <1>1, <1>2 DEF IInv, TypeOK, StartupInv
<1>7. PoolInv'
  <2>1. \A s \in connected' : bind'[s] = bind[s]
    BY <1>1, <1>2 DEF IInv, TypeOK
  <2> QED BY <1>1, <2>1, FewerUsers DEF IInv
<1> QED BY <1>3, <1>4, <1>5, <1>6, <1>7 DEF IInv

LEMMA StepIInv == IInv /\ [Next]_vars => IInv'
<1> SUFFICES ASSUME IInv, [Next]_vars PROVE IInv'
  OBVIOUS
<1>1. CASE UNCHANGED vars
  BY <1>1 DEF vars, globals, IInv, TypeOK, ThreadInv, RowInv, StartupInv, PoolInv, InUse
<1>2. CASE Next
  BY <1>2, ArriveStep, OpenStep, CheckoutStep, StaysStep, EndsStep
     DEF Next, Proceed, Fails, Stays, Ends
<1> QED BY <1>1, <1>2

\* IInv is an invariant of the process.
THEOREM Invariance == Spec => []IInv
BY InitIInv, StepIInv, PTL DEF Spec

-----------------------------------------------------------------------------
\* The state of the process, of its pool and of its locks has its types.
THEOREM TypeCorrectness == Spec => []TypeOK
<1>1. IInv => TypeOK
  BY DEF IInv
<1> QED BY <1>1, Invariance, PTL

\* However many threads contend, none waits for a connection with a lock or
\* a connection in its hands, nor for anything with the model's lock.
THEOREM NoHoldAndWaitHolds == Spec => []NoHoldAndWait
<1>1. IInv => NoHoldAndWait
  <2> SUFFICES ASSUME IInv PROVE NoHoldAndWait
    OBVIOUS
  <2>1. \A r \in Requests : pc[r] \in {"acquiring", "committed"} =>
          r \notin connected /\ modelLock # r /\ \A row \in Rows : locks[row] # r
    BY Names DEF IInv, TypeOK, ThreadInv, RowInv
  <2>2. \A r \in Requests : pc[r] = "working" =>
          modelLock # r /\ \A row \in Rows : locks[row] # r
    BY Names DEF IInv, TypeOK, ThreadInv, RowInv
  <2>3. modelLock # None => pc[modelLock] \in {"checking", "loading"}
    BY DEF IInv, TypeOK, ThreadInv
  <2> QED BY <2>1, <2>2, <2>3 DEF NoHoldAndWait
<1> QED BY <1>1, Invariance, PTL

\* Whatever fails, a request that has ended has left no connection out and
\* no lock taken.
THEOREM NothingKeptHolds == Spec => []NothingKept
<1>1. IInv => NothingKept
  BY Names DEF IInv, TypeOK, ThreadInv, RowInv, NothingKept
<1> QED BY <1>1, Invariance, PTL

\* An exhausted pool has a user, wherever it is.
LEMMA ExhaustedIsUsed ==
  ASSUME TypeOK, NEW e, Exhausted(e)
  PROVE  \E s \in connected : bind[s] = e
<1> SUFFICES ASSUME InUse(e) = {} PROVE FALSE
  BY DEF InUse
<1>1. Cardinality(InUse(e)) = 0
  BY FS_EmptySet
<1> QED BY <1>1, ProcessAssumption DEF Exhausted

\* Whatever threads wait for, at whatever limit of the pool, one of those
\* under way does not: who has the model's lock; if nobody has, who has a
\* row; if nobody has, who has a connection.
THEOREM SomeoneProceedsHolds == Spec => []SomeoneProceeds
<1>1. IInv => SomeoneProceeds
  <2> SUFFICES ASSUME IInv, NEW r \in Requests, Waits(r)
               PROVE  \E s \in Requests : pc[s] # "idle" /\ ~ Waits(s)
    BY DEF SomeoneProceeds
  <2>1. CASE modelLock # None
    <3>1. modelLock \in Requests /\ pc[modelLock] \in {"checking", "loading"}
      BY <2>1 DEF IInv, TypeOK, ThreadInv
    <3> QED BY <3>1 DEF Waits
  <2>2. CASE modelLock = None /\ \E row \in Rows : locks[row] # None
    <3>1. PICK row \in Rows : locks[row] # None
      BY <2>2
    <3>2. /\ locks[row] \in Requests
          /\ pc[locks[row]] \in Calling \cup {"answered", "closing"}
      BY <3>1 DEF IInv, TypeOK, RowInv
    <3> QED BY <2>2, <3>2 DEF Waits
  <2>3. CASE modelLock = None /\ \A row \in Rows : locks[row] = None
    <3>1. Exhausted(bind[r])
      BY <2>3 DEF Waits
    <3>2. PICK s \in connected : bind[s] = bind[r]
      BY <3>1, ExhaustedIsUsed DEF IInv
    <3>3. s \in Requests /\ pc[s] \in InTransaction
      BY DEF IInv, TypeOK, ThreadInv
    <3> QED BY <2>3, <3>3 DEF Waits
  <2> QED BY <2>1, <2>2, <2>3
<1> QED BY <1>1, Invariance, PTL

\* What threads hold never keeps the others waiting for good.
THEOREM HoldingHolds == Spec => []HoldingIsSafe
BY NoHoldAndWaitHolds, NothingKeptHolds, SomeoneProceedsHolds, PTL DEF HoldingIsSafe

\* With an engine created at startup, as for SQLite, the process keeps to
\* the limit of one pool, which is SQLAlchemy's default there.
THEOREM StartupBounds == Spec => []StartupEngineBounds
<1>1. IInv => StartupEngineBounds
  <2> SUFFICES ASSUME IInv, database = "sqlite"
               PROVE  /\ engine = Startup
                      /\ factory \in {None, Startup}
                      /\ \A r \in Requests : bind[r] \in {None, Startup}
                      /\ Cardinality(connected) <= PoolLimit
    BY DEF StartupEngineBounds
  <2>1. \A r \in connected : r \in Requests /\ bind[r] = Startup
    BY DEF IInv, TypeOK, ThreadInv, StartupInv
  <2>2. connected = InUse(Startup)
    BY <2>1 DEF InUse
  <2>3. Cardinality(InUse(Startup)) <= PoolLimit
    BY Names DEF IInv, PoolInv
  <2> QED BY <2>2, <2>3 DEF IInv, StartupInv
<1> QED BY <1>1, Invariance, PTL

\* The engine and the factory are fixed from the moment nobody is left who
\* has seen none.
THEOREM Settling == Spec => EnginesSettle
<1>1. IInv /\ [Next]_vars =>
        [Settled => /\ Settled' /\ UNCHANGED <<engine, factory>>
                    /\ OldEngineGone => OldEngineGone']_vars
  <2> SUFFICES ASSUME IInv, Next, Settled
               PROVE  /\ Settled' /\ UNCHANGED <<engine, factory>>
                      /\ OldEngineGone => OldEngineGone'
    OBVIOUS
  <2>1. PICK r \in Requests :
          (\E t \in Tasks : Arrive(r, t)) \/ Proceed(r) \/ Fails(r)
    BY DEF Next
  <2>2. CASE \E t \in Tasks : Arrive(r, t)
    BY <2>2, Names DEF IInv, TypeOK, Settled, OldEngineGone, Arrive, Move, Goto, globals
  <2>3. CASE Open(r)
    <3>1. CASE CheckFactory(r) \/ CheckEngine(r) \/ ReturnEngine(r) \/ OpenSession(r)
      BY <3>1 DEF IInv, TypeOK, Settled, OldEngineGone, CheckFactory, CheckEngine, ReturnEngine,
         OpenSession, Opens, Move, Goto
    <3>2. CASE BuildEngine(r) \/ BindFactory(r)
      BY <3>2 DEF Settled, BuildEngine, BindFactory, Move
    <3> QED BY <2>3, <3>1, <3>2 DEF Open
  <2>4. CASE Checkout(r) \/ Stays(r) \/ Ends(r)
    <3>1. /\ UNCHANGED <<engine, factory>>
          /\ \E loc \in Calling \cup {"working", "refreshing", "answered", "closing",
                                       "committed", "idle"} :
               pc' = [pc EXCEPT ![r] = loc]
          /\ \A s \in Requests : s # r => task'[s] = task[s]
          /\ bind' = bind \/ bind' = [bind EXCEPT ![r] = None]
      BY <2>4 DEF IInv, TypeOK, Checkout, Stays, CheckoutTimesOut, LockRow, ReadTurns,
         EndEarly, Call, CallAnswers, FindNoModel, LockModel, Recheck, LoadModel, Calls,
         Answer, Fail, Ends, ProbeDatabase, Rollback, Commit, Close, Move, Goto, globals
    <3> QED BY <3>1 DEF IInv, TypeOK, Settled, OldEngineGone
  <2> QED BY <2>1, <2>2, <2>3, <2>4 DEF Proceed, Fails, Stays, Ends
<1> QED BY <1>1, Invariance, PTL DEF Spec, EnginesSettle

\* A process that has settled, and whose requests have let go of replaced
\* engines, keeps to the limits of two pools.
THEOREM SettledBoundsHold == Spec => []SettledBounds
<1>1. IInv => SettledBounds
  <2> SUFFICES ASSUME IInv, Settled, OldEngineGone
               PROVE  Cardinality(connected) <= 2 * PoolLimit
    BY DEF SettledBounds
  <2> DEFINE A == InUse(engine)
             B == InUse(factory)
  <2>1. engine \in Engines /\ factory \in Engines
    BY DEF IInv, TypeOK, Settled
  <2>2. Cardinality(A) <= PoolLimit /\ Cardinality(B) <= PoolLimit
    BY <2>1 DEF IInv, PoolInv
  <2>3. /\ IsFiniteSet(A) /\ Cardinality(A) \in Nat
        /\ IsFiniteSet(B) /\ Cardinality(B) \in Nat
    BY UsersFinite DEF IInv
  <2>4. connected = A \cup B
    <3>1. \A r \in connected : r \in Requests /\ bind[r] # None
      BY DEF IInv, TypeOK, ThreadInv
    <3> QED BY <3>1 DEF OldEngineGone, InUse
  <2> HIDE DEF A, B
  <2>5. /\ IsFiniteSet(A \cap B) /\ Cardinality(A \cap B) \in Nat
        /\ Cardinality(A \cup B) = Cardinality(A) + Cardinality(B) - Cardinality(A \cap B)
    BY <2>3, FS_Union, FS_Intersection, FS_CardinalityType
  <2> QED BY <2>2, <2>3, <2>4, <2>5, ProcessAssumption
<1> QED BY <1>1, Invariance, PTL

\* Double-checked locking loads the model once, by one thread.
THEOREM ModelLoading == Spec => ModelLoadedOnce
<1>1. IInv /\ IInv' /\ [Next]_vars =>
        [/\ model # None => model' = model
         /\ \A r, s \in Requests :
              (pc'[r] = "loading" /\ pc'[s] = "loading") => r = s]_vars
  <2> SUFFICES ASSUME IInv, IInv', Next
               PROVE  /\ model # None => model' = model
                      /\ \A r, s \in Requests :
                           (pc'[r] = "loading" /\ pc'[s] = "loading") => r = s
    OBVIOUS
  <2>1. \A r, s \in Requests : (pc'[r] = "loading" /\ pc'[s] = "loading") => r = s
    <3>1. \A r \in Requests : pc'[r] = "loading" => modelLock' = r
      BY DEF IInv, ThreadInv
    <3> QED BY <3>1
  <2>2. ASSUME model # None PROVE model' = model
    <3>1. PICK r \in Requests :
            (\E t \in Tasks : Arrive(r, t)) \/ Proceed(r) \/ Fails(r)
      BY DEF Next
    <3>2. pc[r] # "loading"
      BY <2>2 DEF IInv, ThreadInv
    <3> QED BY <3>1, <3>2 DEF Arrive, Proceed, Fails, Open, CheckFactory, CheckEngine,
            BuildEngine, ReturnEngine, BindFactory, OpenSession, Opens, Call, CallAnswers,
            FindNoModel, LockModel, Recheck, LoadModel, Move, Checkout, ProbeDatabase,
            LockRow, ReadTurns, Commit, Answer, Close, CheckoutTimesOut, EndEarly,
            Rollback, Fail, globals
  <2> QED BY <2>1, <2>2
<1>2. IInv /\ [Next]_vars => IInv'
  BY StepIInv
<1> QED BY <1>1, <1>2, Invariance, PTL DEF Spec, ModelLoadedOnce
=============================================================================
