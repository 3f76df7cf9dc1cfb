------------------------ MODULE SessionCreationProofs ------------------------
(***************************************************************************)
(* Proofs about SessionCreation, for every set of keys, ids and slots.     *)
(***************************************************************************)
EXTENDS SessionCreation, TLAPS

ReplyType == [type : ResponseTypes, session : SessionIds \cup {Nothing}]

\* No two sessions have the same key.
KeysUnique ==
  \A s1, s2 \in sessions : (s1.key = s2.key /\ s1.key # NoKey) => s1 = s2

\* The transactions in flight own different keys, none of them committed.
OwnersExclude ==
  \A r \in Requests : (pc[r] \in Owning /\ key[r] # NoKey) =>
    /\ UniqueKey(key[r])
    /\ \A s \in Requests : (pc[s] \in Owning /\ key[s] = key[r]) => s = r

\* The ids drawn by the transactions in flight are new, and different.
OwnFresh ==
  \A r \in Requests : pc[r] \in Owning =>
    /\ own[r] \notin Ids
    /\ \A s \in Requests : (pc[s] \in Owning /\ own[s] = own[r]) => s = r

\* What a slot relies on, and what it has told its client.
SlotInv(r) ==
  /\ pc[r] # "idle" => reply[r].type = "none" /\ key[r] \in Headers
  /\ pc[r] \in Owning => own[r] \in SessionIds
  /\ pc[r] = "generated" => drafted[r] \in 1..NumQuestions
  /\ pc[r] = "committed" => \E s \in WithKey(key[r]) : s.id = own[r]
  /\ (reply[r].type = "created" /\ key[r] # NoKey) =>
       \E s \in WithKey(key[r]) : s.id = reply[r].session
  /\ reply[r].type = "conflict_error" => WithKey(key[r]) # {}

IInv ==
  /\ TypeOK
  /\ KeysUnique
  /\ SessionsAreSeeded
  /\ OwnersExclude
  /\ OwnFresh
  /\ \A r \in Requests : SlotInv(r)

-----------------------------------------------------------------------------
\* Every response is one, and has the fields it was made of.
LEMMA Responses ==
  /\ \A type : Response(type).type = type /\ Response(type).session = Nothing
  /\ \A type \in ResponseTypes : Response(type) \in ReplyType
  /\ \A id : Created(id).type = "created" /\ Created(id).session = id
  /\ \A id \in SessionIds : Created(id) \in ReplyType
BY DEF Response, Created, ReplyType, ResponseTypes

\* A finished slot is idle, with an empty memory; the others are as before.
LEMMA FinishEffect ==
  ASSUME TypeOK, NEW r \in Requests, NEW response \in ReplyType, Finish(r, response)
  PROVE  /\ pc' = [pc EXCEPT ![r] = "idle"] /\ pc'[r] = "idle"
         /\ reply'[r] = response
         /\ \A s \in Requests \ {r} :
              /\ pc'[s] = pc[s] /\ reply'[s] = reply[s]
              /\ own'[s] = own[s] /\ drafted'[s] = drafted[s]
         /\ key' = key
         /\ pc' \in [Requests -> Locations]
         /\ own' \in [Requests -> SessionIds \cup {Nothing}]
         /\ drafted' \in [Requests -> 0..NumQuestions]
         /\ reply' \in [Requests -> ReplyType]
BY CreationAssumption DEF TypeOK, Finish, Goto, Locations, ReplyType

\* Rollback: a response that promises nothing, and nothing committed.
LEMMA RollbackStep ==
  ASSUME IInv, NEW r \in Requests, NEW response \in ReplyType,
         Finish(r, response), UNCHANGED sessions,
         response.type \notin {"created", "conflict_error"}
  PROVE  IInv'
<1> USE DEF IInv
<1>1. TypeOK'
  BY FinishEffect DEF TypeOK, ReplyType
<1>2. KeysUnique' /\ SessionsAreSeeded'
  BY DEF KeysUnique, SessionsAreSeeded
<1>3. OwnersExclude'
  BY FinishEffect DEF OwnersExclude, UniqueKey, WithKey, Owning
<1>4. ASSUME NEW s \in Requests PROVE SlotInv(s)'
  BY <1>4, FinishEffect DEF SlotInv, WithKey, Owning
<1>5. OwnFresh'
  BY FinishEffect DEF OwnFresh, Ids, Owning
<1> QED BY <1>1, <1>2, <1>3, <1>4, <1>5

-----------------------------------------------------------------------------
LEMMA InitIInv == Init => IInv
<1> SUFFICES ASSUME Init PROVE IInv
  OBVIOUS
<1>1. TypeOK
  BY Responses, CreationAssumption DEF Init, TypeOK, Locations, ReplyType, ResponseTypes
<1>2. KeysUnique /\ SessionsAreSeeded
  BY DEF Init, KeysUnique, SessionsAreSeeded
<1>3. OwnersExclude
  BY DEF Init, OwnersExclude, Owning
<1>4. ASSUME NEW r \in Requests PROVE SlotInv(r)
  BY <1>4, Responses DEF Init, SlotInv, Owning
<1>5. OwnFresh
  BY DEF Init, OwnFresh, Owning
<1> QED BY <1>1, <1>2, <1>3, <1>4, <1>5 DEF IInv

\* A rejected request, or one whose key is found.
LEMMA RespondStep ==
  ASSUME IInv, NEW r \in Requests, NEW k \in Headers, NEW response \in ReplyType,
         Respond(r, k, response),
         \/ response.type \notin {"created", "conflict_error"}
         \/ /\ response.type = "created"
            /\ \E s \in WithKey(k) : s.id = response.session
  PROVE  IInv'
<1> USE DEF IInv
<1>1. /\ pc[r] = "idle" /\ UNCHANGED <<sessions, own, drafted, pc>>
      /\ key' = [key EXCEPT ![r] = k] /\ reply' = [reply EXCEPT ![r] = response]
  BY DEF Respond, mem
<1>2. TypeOK'
  BY <1>1 DEF TypeOK, ReplyType
<1>3. KeysUnique' /\ SessionsAreSeeded'
  BY <1>1 DEF KeysUnique, SessionsAreSeeded
<1>4. OwnersExclude'
  BY <1>1 DEF OwnersExclude, UniqueKey, WithKey, Owning, TypeOK
<1>5. ASSUME NEW s \in Requests PROVE SlotInv(s)'
  BY <1>1, <1>5 DEF SlotInv, WithKey, Owning, TypeOK
<1>6. OwnFresh'
  BY <1>1 DEF OwnFresh, Ids, Owning, TypeOK
<1> QED BY <1>2, <1>3, <1>4, <1>5, <1>6

\* A key that is not found, or not looked for.
LEMMA CreateStep ==
  ASSUME IInv, NEW r \in Requests, NEW k \in Headers,
         pc[r] = "idle", Goto(r, "inserting"),
         key' = [key EXCEPT ![r] = k],
         reply' = [reply EXCEPT ![r] = Response("none")],
         UNCHANGED <<sessions, mem>>
  PROVE  IInv'
<1> USE DEF IInv
<1>1. /\ pc' = [pc EXCEPT ![r] = "inserting"]
      /\ UNCHANGED <<sessions, own, drafted>>
      /\ Response("none").type = "none" /\ Response("none") \in ReplyType
  BY Responses DEF Goto, mem, ResponseTypes
<1>2. TypeOK'
  BY <1>1 DEF TypeOK, ReplyType, Locations
<1>3. KeysUnique' /\ SessionsAreSeeded'
  BY <1>1 DEF KeysUnique, SessionsAreSeeded
<1>4. OwnersExclude'
  BY <1>1 DEF OwnersExclude, UniqueKey, WithKey, Owning, TypeOK
<1>5. ASSUME NEW s \in Requests PROVE SlotInv(s)'
  BY <1>1, <1>5 DEF SlotInv, WithKey, Owning, TypeOK
<1>6. OwnFresh'
  BY <1>1 DEF OwnFresh, Ids, Owning, TypeOK
<1> QED BY <1>2, <1>3, <1>4, <1>5, <1>6

LEMMA ArriveStep ==
  ASSUME IInv, NEW r \in Requests, Arrive(r)
  PROVE  IInv'
<1>1. PICK k \in Headers : Reject(r, k) \/ Create(r, k)
  BY DEF Arrive
<1>2. CASE Reject(r, k)
  <2>1. Response("invalid") \in ReplyType /\ Response("invalid").type = "invalid"
    BY Responses DEF ResponseTypes
  <2> QED BY <1>2, <2>1, RespondStep DEF Reject
<1>3. CASE Create(r, k) /\ k \in Keys /\ WithKey(k) # {}
  <2>1. PICK s \in WithKey(k) : Respond(r, k, Created(s.id))
    BY <1>3 DEF Create
  <2>2. s.id \in SessionIds
    BY DEF IInv, TypeOK, WithKey
  <2>3. Created(s.id) \in ReplyType /\ Created(s.id).type = "created"
        /\ Created(s.id).session = s.id
    BY <2>2, Responses
  <2> QED BY <2>1, <2>3, RespondStep
<1>4. CASE Create(r, k) /\ ~ (k \in Keys /\ WithKey(k) # {})
  BY <1>4, CreateStep DEF Create
<1> QED BY <1>1, <1>2, <1>3, <1>4

\* The flush: the slot comes to own its key, or is told that it is taken.
LEMMA InsertStep ==
  ASSUME IInv, NEW r \in Requests, Insert(r)
  PROVE  IInv'
<1> USE DEF IInv
<1>1. CASE UniqueKey(key[r])
  <2>1. PICK id \in SessionIds \ (Ids \cup {own[s] : s \in Requests}) :
          own' = [own EXCEPT ![r] = id]
    BY <1>1 DEF Insert
  <2>2. /\ pc[r] = "inserting" /\ pc' = [pc EXCEPT ![r] = "inserted"]
        /\ Unowned(key[r]) /\ UNCHANGED <<sessions, drafted, key, reply>>
    BY <1>1 DEF Insert, Goto
  <2>3. TypeOK'
    BY <2>1, <2>2 DEF TypeOK, Locations
  <2>4. KeysUnique' /\ SessionsAreSeeded'
    BY <2>2 DEF KeysUnique, SessionsAreSeeded
  <2>5. OwnersExclude'
    BY <1>1, <2>2 DEF OwnersExclude, Unowned, UniqueKey, WithKey, TypeOK, Owning
  <2>6. ASSUME NEW s \in Requests PROVE SlotInv(s)'
    BY <2>1, <2>2, <2>6 DEF SlotInv, WithKey, TypeOK, Owning
  <2>7. OwnFresh'
    BY <2>1, <2>2 DEF OwnFresh, Ids, TypeOK, Owning
  <2> QED BY <2>3, <2>4, <2>5, <2>6, <2>7
<1>2. CASE ~ UniqueKey(key[r])
  <2> DEFINE response == Response("conflict_error")
  <2>1. /\ pc[r] = "inserting" /\ UNCHANGED sessions /\ Finish(r, response)
        /\ response \in ReplyType /\ response.type = "conflict_error"
        /\ WithKey(key[r]) # {}
    BY <1>2, Responses DEF Insert, UniqueKey, ResponseTypes
  <2> HIDE DEF response
  <2>2. TypeOK'
    BY <2>1, FinishEffect DEF TypeOK, ReplyType
  <2>3. KeysUnique' /\ SessionsAreSeeded'
    BY <2>1 DEF KeysUnique, SessionsAreSeeded
  <2>4. OwnersExclude'
    BY <2>1, FinishEffect DEF OwnersExclude, UniqueKey, WithKey, Owning
  <2>5. ASSUME NEW s \in Requests PROVE SlotInv(s)'
    BY <2>1, <2>5, FinishEffect DEF SlotInv, WithKey, Owning
  <2>6. OwnFresh'
    BY <2>1, FinishEffect DEF OwnFresh, Ids, Owning
  <2> QED BY <2>2, <2>3, <2>4, <2>5, <2>6
<1> QED BY <1>1, <1>2

LEMMA GenerateStep ==
  ASSUME IInv, NEW r \in Requests, Generate(r)
  PROVE  IInv'
<1> USE DEF IInv
<1>1. PICK n \in 1..NumQuestions : drafted' = [drafted EXCEPT ![r] = n]
  BY DEF Generate
<1>2. /\ pc[r] = "inserted" /\ pc' = [pc EXCEPT ![r] = "generated"]
      /\ UNCHANGED <<sessions, own, key, reply>>
  BY DEF Generate, Goto
<1>3. TypeOK'
  BY <1>1, <1>2, CreationAssumption DEF TypeOK, Locations
<1>4. KeysUnique' /\ SessionsAreSeeded'
  BY <1>2 DEF KeysUnique, SessionsAreSeeded
<1>5. OwnersExclude'
  BY <1>2 DEF OwnersExclude, UniqueKey, WithKey, TypeOK, Owning
<1>6. ASSUME NEW s \in Requests PROVE SlotInv(s)'
  BY <1>1, <1>2, <1>6 DEF SlotInv, WithKey, TypeOK, Owning
<1>7. OwnFresh'
  BY <1>2 DEF OwnFresh, Ids, TypeOK, Owning
<1> QED BY <1>3, <1>4, <1>5, <1>6, <1>7

\* The commit: nobody else can have committed or flushed the key.
LEMMA CommitStep ==
  ASSUME IInv, NEW r \in Requests, Commit(r)
  PROVE  IInv'
<1> USE DEF IInv
<1> DEFINE row == [id |-> own[r], key |-> key[r], questions |-> drafted[r]]
<1>1. pc[r] = "generated" /\ UniqueKey(key[r])
  BY DEF Commit, OwnersExclude, UniqueKey, Owning
<1>2. /\ sessions' = sessions \cup {row} /\ pc' = [pc EXCEPT ![r] = "committed"]
      /\ UNCHANGED <<own, drafted, key, reply>>
  BY <1>1 DEF Commit, Goto, mem
<1>3. own[r] \in SessionIds /\ drafted[r] \in 1..NumQuestions /\ key[r] \in Headers
  BY <1>1 DEF SlotInv, Owning
<1>4. /\ row \in [id : SessionIds, key : Headers, questions : Nat]
      /\ row.id = own[r] /\ row.key = key[r] /\ row.questions = drafted[r]
  BY <1>3, CreationAssumption
<1> HIDE DEF row
<1>5. TypeOK'
  BY <1>2, <1>4 DEF TypeOK, Locations
<1>6. KeysUnique'
  BY <1>1, <1>2, <1>4 DEF KeysUnique, UniqueKey, WithKey
<1>7. SessionsAreSeeded'
  BY <1>2, <1>3, <1>4 DEF SessionsAreSeeded
<1>8. OwnersExclude'
  BY <1>1, <1>2, <1>4 DEF OwnersExclude, UniqueKey, WithKey, TypeOK, Owning
<1>9. /\ \A k : \A s \in WithKey(k) : s \in WithKey(k)'
      /\ row \in WithKey(key[r])'
  <2>1. \A k : WithKey(k)' = {s \in sessions' : s.key = k}
    BY DEF WithKey
  <2>2. WithKey(key[r])' = {s \in sessions' : s.key = key'[r]}
    BY DEF WithKey
  <2>3. row \in sessions' /\ row.key = key'[r]
    BY <1>2, <1>4
  <2> QED BY <1>2, <2>1, <2>2, <2>3 DEF WithKey
<1>10. ASSUME NEW s \in Requests PROVE SlotInv(s)'
  BY <1>1, <1>2, <1>4, <1>9, <1>10 DEF SlotInv, WithKey, TypeOK, Owning
<1>11. OwnFresh'
  <2>1. Ids' = Ids \cup {own[r]}
    BY <1>2, <1>4 DEF Ids
  <2> QED BY <1>1, <1>2, <2>1 DEF OwnFresh, TypeOK, Owning
<1> QED BY <1>5, <1>6, <1>7, <1>8, <1>10, <1>11

\* The response: the session it names has been committed.
LEMMA RefreshStep ==
  ASSUME IInv, NEW r \in Requests, Refresh(r)
  PROVE  IInv'
<1> USE DEF IInv
<1>1. pc[r] = "committed" /\ Finish(r, Created(own[r])) /\ UNCHANGED sessions
  BY DEF Refresh
<1>2. PICK s \in WithKey(key[r]) : s.id = own[r]
  BY <1>1 DEF SlotInv
<1>3. own[r] \in SessionIds
  BY <1>2 DEF TypeOK, WithKey
<1>4. /\ Created(own[r]) \in ReplyType /\ Created(own[r]).type = "created"
      /\ Created(own[r]).session = own[r]
  BY <1>3, Responses
<1>5. TypeOK'
  BY <1>1, <1>4, FinishEffect DEF TypeOK, ReplyType
<1>6. KeysUnique' /\ SessionsAreSeeded'
  BY <1>1 DEF KeysUnique, SessionsAreSeeded
<1>7. OwnersExclude'
  BY <1>1, <1>4, FinishEffect DEF OwnersExclude, UniqueKey, WithKey, Owning
<1>8. ASSUME NEW q \in Requests PROVE SlotInv(q)'
  BY <1>1, <1>2, <1>4, <1>8, FinishEffect DEF SlotInv, WithKey, Owning
<1>9. OwnFresh'
  BY <1>1, <1>4, FinishEffect DEF OwnFresh, Ids, Owning
<1> QED BY <1>5, <1>6, <1>7, <1>8, <1>9

LEMMA StepIInv == IInv /\ [Next]_vars => IInv'
<1> SUFFICES ASSUME IInv, [Next]_vars PROVE IInv'
  OBVIOUS
<1>1. CASE UNCHANGED vars
  BY <1>1 DEF vars, mem, IInv, TypeOK, KeysUnique, SessionsAreSeeded, OwnersExclude,
     OwnFresh, Ids, SlotInv, UniqueKey, WithKey, Owning
<1>2. ASSUME NEW r \in Requests, Arrive(r) \/ Proceed(r) \/ Crash(r) PROVE IInv'
  <2>1. CASE GenerationFails(r)
    <3>1. Response("upstream") \in ReplyType /\ Response("upstream").type = "upstream"
      BY Responses DEF ResponseTypes
    <3> QED BY <2>1, <3>1, RollbackStep DEF GenerationFails
  <2>2. CASE Crash(r)
    <3>1. Response("error") \in ReplyType /\ Response("error").type = "error"
      BY Responses DEF ResponseTypes
    <3> QED BY <2>2, <3>1, RollbackStep DEF Crash
  <2> QED BY <1>2, <2>1, <2>2, ArriveStep, InsertStep, GenerateStep, CommitStep,
     RefreshStep DEF Proceed
<1> QED BY <1>1, <1>2 DEF Next

\* IInv is an invariant of create_session.
THEOREM Invariance == Spec => []IInv
BY InitIInv, StepIInv, PTL DEF Spec

-----------------------------------------------------------------------------
\* The table and the memory of the slots have their types.
THEOREM TypeCorrectness == Spec => []TypeOK
<1>1. IInv => TypeOK
  BY DEF IInv
<1> QED BY <1>1, Invariance, PTL

\* All clients that are given a session for a key are given the same one.
THEOREM KeyedRepliesHold == Spec => []KeyedRepliesAgree
<1>1. IInv => KeyedRepliesAgree
  <2> SUFFICES ASSUME IInv, NEW r \in Requests, reply[r].type = "created",
                      key[r] # NoKey
               PROVE  {s.id : s \in WithKey(key[r])} = {reply[r].session}
    BY DEF KeyedRepliesAgree
  <2>1. PICK s \in WithKey(key[r]) : s.id = reply[r].session
    BY DEF IInv, SlotInv
  <2>2. \A u \in WithKey(key[r]) : u = s
    BY <2>1 DEF IInv, KeysUnique, WithKey
  <2> QED BY <2>1, <2>2
<1> QED BY <1>1, Invariance, PTL

\* A session is never visible without its questions.
THEOREM SeededHolds == Spec => []SessionsAreSeeded
<1>1. IInv => SessionsAreSeeded
  BY DEF IInv
<1> QED BY <1>1, Invariance, PTL

\* The handler of a lost race at the commit of create_session is dead code.
THEOREM CommitIsSafe == Spec => []CommitNeverConflicts
<1>1. IInv => CommitNeverConflicts
  BY DEF IInv, OwnersExclude, CommitNeverConflicts, UniqueKey, Owning
<1> QED BY <1>1, Invariance, PTL

\* A create refused for its key is refused for a session that exists.
THEOREM ConflictIsTrue == Spec => []ConflictErrorMeansKeyTaken
<1>1. IInv => ConflictErrorMeansKeyTaken
  BY DEF IInv, SlotInv, ConflictErrorMeansKeyTaken
<1> QED BY <1>1, Invariance, PTL

\* Who wins a key, and who is refused for it, is settled by the INSERT.
THEOREM RaceEnds == Spec => []RaceEndsAtInsert
BY CommitIsSafe, ConflictIsTrue, PTL DEF RaceEndsAtInsert

-----------------------------------------------------------------------------
(***************************************************************************)
(* Refinement: create_session implements SessionRegistry.                  *)
(***************************************************************************)
Waiting == {r \in Requests : pc[r] # "idle"}

Made == [r \in Requests |-> IF pc[r] = "committed" THEN own[r] ELSE Nothing]

LEMMA RegistryResponse == \A type : Registry!Response(type) = Response(type)
BY DEF Response, Registry!Response

LEMMA RegistryKeys == \A k : (Registry!Free(k) <=> UniqueKey(k)) /\ Registry!Registered(k) = WithKey(k)
BY DEF UniqueKey, WithKey, Registry!Free, Registry!Registered

\* A request that is answered at once, and one that is not.
LEMMA RespondMaps ==
  ASSUME TypeOK, NEW r \in Requests, NEW k, NEW response, Respond(r, k, response)
  PROVE  Registry!Ask(r, k, response) /\ Waiting' = Waiting
BY DEF Respond, mem, Registry!Ask, Waiting

LEMMA ArriveMaps ==
  ASSUME TypeOK, NEW r \in Requests, Arrive(r)
  PROVE  Registry!Next
<1>1. PICK k \in Headers : Reject(r, k) \/ Create(r, k)
  BY DEF Arrive
<1>2. CASE Reject(r, k)
  <2>1. Registry!Refuse(r, k)
    BY <1>2, RespondMaps, RegistryResponse DEF Reject, Registry!Refuse, Waiting
  <2> QED BY <2>1 DEF Registry!Next
<1>3. CASE Create(r, k) /\ k \in Keys /\ WithKey(k) # {}
  <2>1. PICK s \in WithKey(k) : Respond(r, k, Created(s.id))
    BY <1>3 DEF Create
  <2>2. k # NoKey
    BY <1>3, CreationAssumption
  <2>3. Registry!Repeat(r, k)
    BY <2>1, <2>2, RespondMaps, RegistryKeys DEF Created, Registry!Repeat, Waiting
  <2> QED BY <2>3 DEF Registry!Next
<1>4. CASE Create(r, k) /\ ~ (k \in Keys /\ WithKey(k) # {})
  <2>1. Waiting' = Waiting \cup {r} /\ r \notin Waiting
    BY <1>4 DEF Create, Goto, TypeOK, Waiting
  <2>2. Made' = Made
    BY <1>4 DEF Create, Goto, mem, TypeOK, Made
  <2>3. Registry!Wait(r, k)
    BY <1>4, <2>1, <2>2, RegistryResponse
    DEF Create, Registry!Wait, Registry!Ask, Waiting, Made
  <2> QED BY <2>3 DEF Registry!Next
<1> QED BY <1>1, <1>2, <1>3, <1>4

LEMMA FinishMaps ==
  ASSUME TypeOK, NEW r \in Requests, NEW response, pc[r] # "idle",
         Finish(r, response), UNCHANGED sessions
  PROVE  Registry!Answer(r, response)
<1>1. Waiting' = Waiting \ {r} /\ r \in Waiting
  BY DEF Finish, Goto, TypeOK, Waiting
<1>2. Made' = [Made EXCEPT ![r] = Nothing]
  BY DEF Finish, Goto, TypeOK, Made
<1> QED BY <1>1, <1>2 DEF Finish, Registry!Answer, Waiting, Made

\* A create that ends without an answer that names a session.
LEMMA GiveUpMaps ==
  ASSUME TypeOK, NEW r \in Requests, pc[r] # "idle", UNCHANGED sessions,
         NEW type \in {"upstream", "error", "conflict_error"},
         type # "error" => pc[r] # "committed",
         type = "conflict_error" => ~ UniqueKey(key[r]),
         Finish(r, Response(type))
  PROVE  Registry!Next
<1>1. Registry!Answer(r, Registry!Response(type))
  BY FinishMaps, RegistryResponse
<1>2. type # "error" => Made[r] = Nothing
  BY DEF Made
<1>3. Registry!GiveUp(r)
  BY <1>1, <1>2, RegistryKeys DEF Registry!GiveUp, Made
<1> QED BY <1>3 DEF Registry!Next

\* The commit is where the registry gets the session ...
LEMMA CommitMaps ==
  ASSUME IInv, NEW r \in Requests, Commit(r)
  PROVE  Registry!Next
<1>1. pc[r] = "generated" /\ UniqueKey(key[r])
  BY DEF Commit, IInv, OwnersExclude, UniqueKey, Owning
<1>2. /\ sessions' = sessions \cup
            {[id |-> own[r], key |-> key[r], questions |-> drafted[r]]}
      /\ Goto(r, "committed") /\ UNCHANGED <<own, key, reply>>
  BY <1>1 DEF Commit, mem
<1>3. own[r] \in SessionIds \ Ids /\ drafted[r] \in 1..NumQuestions
  BY <1>1 DEF IInv, SlotInv, OwnFresh, Owning
<1>4. r \in Waiting /\ Waiting' = Waiting
  BY <1>1, <1>2 DEF IInv, TypeOK, Goto, Waiting
<1>5. Made[r] = Nothing /\ Made' = [Made EXCEPT ![r] = own[r]]
  BY <1>1, <1>2 DEF IInv, TypeOK, Goto, Made
<1>6. Registry!Register(r)
  <2>1. own[r] \in SessionIds \ {s.id : s \in sessions}
    BY <1>3 DEF Ids
  <2>2. Registry!Free(key[r])
    BY <1>1, RegistryKeys
  <2> QED BY <1>2, <1>3, <1>4, <1>5, <2>1, <2>2 DEF Registry!Register, Waiting, Made
<1> QED BY <1>6 DEF Registry!Next

\* ... and the refresh where its creator does.
LEMMA RefreshMaps ==
  ASSUME IInv, NEW r \in Requests, Refresh(r)
  PROVE  Registry!Next
<1>1. pc[r] = "committed" /\ UNCHANGED sessions /\ TypeOK
  BY DEF Refresh, IInv
<1>2. PICK s \in WithKey(key[r]) : s.id = own[r]
  BY <1>1 DEF IInv, SlotInv
<1>3. s.id # Nothing /\ Made[r] = s.id
  BY <1>1, <1>2, CreationAssumption DEF TypeOK, WithKey, Made
<1>4. Finish(r, Created(s.id))
  BY <1>2 DEF Refresh, Finish, Created
<1>5. Registry!Answer(r, Created(s.id))
  BY <1>1, <1>4, FinishMaps
<1>6. Registry!Deliver(r)
  BY <1>3, <1>5 DEF Registry!Deliver, Registry!Answer, Created, Made
<1> QED BY <1>6 DEF Registry!Next

\* Racing, failing and repeated creates implement a registry that adds whole
\* sessions, one for each key, and whose answers other than a 500 tell
\* whether it has.
THEOREM Refinement == Spec => ImplementsRegistry
<1>1. Init => Registry!Init
  <2> SUFFICES ASSUME Init PROVE Registry!Init
    OBVIOUS
  <2>1. Waiting = {} /\ Made = [r \in Requests |-> Nothing]
    BY DEF Init, Waiting, Made
  <2> QED BY <2>1, RegistryResponse DEF Init, Registry!Init, Waiting, Made
<1>2. IInv /\ [Next]_vars => [Registry!Next]_(Registry!vars)
  <2> SUFFICES ASSUME IInv, [Next]_vars PROVE [Registry!Next]_(Registry!vars)
    OBVIOUS
  <2>1. TypeOK
    BY DEF IInv
  <2>2. CASE UNCHANGED vars
    BY <2>2 DEF vars, mem, Registry!vars
  <2>3. ASSUME NEW r \in Requests, Insert(r) PROVE [Registry!Next]_(Registry!vars)
    <3>1. CASE UniqueKey(key[r])
      <4>1. Waiting' = Waiting /\ Made' = Made /\ UNCHANGED <<sessions, key, reply>>
        BY <2>1, <2>3, <3>1 DEF Insert, Goto, TypeOK, Waiting, Made
      <4> QED BY <4>1 DEF Registry!vars, Waiting, Made
    <3> QED BY <2>1, <2>3, <3>1, GiveUpMaps DEF Insert
  <2>4. ASSUME NEW r \in Requests, Generate(r) PROVE [Registry!Next]_(Registry!vars)
    <3>1. Waiting' = Waiting /\ Made' = Made /\ UNCHANGED <<sessions, key, reply>>
      BY <2>1, <2>4 DEF Generate, Goto, TypeOK, Waiting, Made
    <3> QED BY <3>1 DEF Registry!vars, Waiting, Made
  <2>5. ASSUME NEW r \in Requests, GenerationFails(r) \/ Crash(r) PROVE Registry!Next
    BY <2>1, <2>5, GiveUpMaps DEF GenerationFails, Crash
  <2> QED BY <2>1, <2>2, <2>3, <2>4, <2>5, ArriveMaps, CommitMaps, RefreshMaps
      DEF Next, Proceed
<1> QED BY <1>1, <1>2, Invariance, PTL DEF Spec, ImplementsRegistry, Registry!Spec
=============================================================================
