--------------------------- MODULE ContractProofs ---------------------------
(***************************************************************************)
(* What follows from the abstract specifications alone.  Interview and     *)
(* SessionCreation implement them (the Refinement theorems of their        *)
(* proofs), so it holds of the code's transactions too.                    *)
(***************************************************************************)
EXTENDS Naturals, TLAPS

CONSTANTS Headers, NoKey, NumQuestions, SessionIds, Requests, Nothing,
          MaxFollowups

VARIABLES sessions, waiting, made, key, reply, depth, open, session, reported

Registry == INSTANCE SessionRegistry

Contract == INSTANCE InterviewContract

-----------------------------------------------------------------------------
(***************************************************************************)
(* SessionRegistry.                                                        *)
(***************************************************************************)
Replies ==
  [type : {"none", "invalid", "created", "upstream", "error", "conflict_error"},
   session : SessionIds \cup {Nothing}]

Sessions == [id : SessionIds, key : Headers \cup {NoKey}, questions : 1..NumQuestions]

\* What a waiting request has registered is there, under its key.
MadeNamesSession ==
  \A r \in Requests : made[r] # Nothing =>
    /\ r \in waiting
    /\ \E s \in sessions : s.id = made[r] /\ s.key = key[r]

RegistryInv ==
  /\ sessions \in SUBSET Sessions
  /\ made \in [Requests -> SessionIds \cup {Nothing}]
  /\ key \in [Requests -> Headers \cup {NoKey}]
  /\ reply \in [Requests -> Replies]
  /\ Registry!OneSessionEach
  /\ Registry!AnswersNameSessions
  /\ MadeNamesSession

\* A request that is answered at once disturbs no other.
LEMMA AskKeeps ==
  ASSUME RegistryInv, NEW r \in Requests, NEW k \in Headers, NEW response \in Replies,
         Registry!Ask(r, k, response), waiting \subseteq waiting',
         response.type = "created" =>
           \E s \in sessions : s.id = response.session /\ s.key = k
  PROVE  RegistryInv'
<1>1. /\ sessions' = sessions /\ made' = made /\ r \notin waiting
      /\ key' = [key EXCEPT ![r] = k] /\ reply' = [reply EXCEPT ![r] = response]
  BY DEF Registry!Ask
<1>2. Registry!OneSessionEach'
  BY <1>1 DEF RegistryInv, Registry!OneSessionEach
<1>3. ASSUME NEW q \in Requests, reply'[q].type = "created"
      PROVE  \E s \in sessions' : /\ s.id = reply'[q].session
                                  /\ s.key = key'[q]
                                  /\ s.questions \in 1..NumQuestions
  <2>1. CASE q = r
    BY <1>1, <1>3, <2>1 DEF RegistryInv, Sessions
  <2>2. CASE q # r
    BY <1>1, <1>3, <2>2 DEF RegistryInv, Registry!AnswersNameSessions
  <2> QED BY <2>1, <2>2
<1>4. MadeNamesSession'
  BY <1>1 DEF RegistryInv, MadeNamesSession
<1> QED BY <1>1, <1>2, <1>3, <1>4 DEF RegistryInv, Registry!AnswersNameSessions

\* Nor does one that ends its wait; what it answers with is there.
LEMMA AnswerKeeps ==
  ASSUME RegistryInv, NEW r \in Requests, NEW response \in Replies,
         Registry!Answer(r, response),
         response.type = "created" =>
           \E s \in sessions : s.id = response.session /\ s.key = key[r]
  PROVE  RegistryInv'
<1>1. /\ sessions' = sessions /\ key' = key /\ waiting' = waiting \ {r}
      /\ made' = [made EXCEPT ![r] = Nothing]
      /\ reply' = [reply EXCEPT ![r] = response]
  BY DEF Registry!Answer
<1>2. Registry!OneSessionEach'
  BY <1>1 DEF RegistryInv, Registry!OneSessionEach
<1>3. ASSUME NEW q \in Requests, reply'[q].type = "created"
      PROVE  \E s \in sessions' : /\ s.id = reply'[q].session
                                  /\ s.key = key'[q]
                                  /\ s.questions \in 1..NumQuestions
  <2>1. CASE q = r
    BY <1>1, <1>3, <2>1 DEF RegistryInv, Sessions
  <2>2. CASE q # r
    BY <1>1, <1>3, <2>2 DEF RegistryInv, Registry!AnswersNameSessions
  <2> QED BY <2>1, <2>2
<1>4. MadeNamesSession'
  BY <1>1 DEF RegistryInv, MadeNamesSession
<1> QED BY <1>1, <1>2, <1>3, <1>4 DEF RegistryInv, Registry!AnswersNameSessions

LEMMA GiveUpKeeps ==
  ASSUME RegistryInv, NEW r \in Requests, Registry!GiveUp(r)
  PROVE  RegistryInv'
<1>1. PICK type \in {"upstream", "error", "conflict_error"} :
        Registry!Answer(r, Registry!Response(type))
  BY DEF Registry!GiveUp
<1>2. Registry!Response(type) \in Replies /\ Registry!Response(type).type # "created"
  BY DEF Registry!Response, Replies
<1> QED BY <1>1, <1>2, AnswerKeeps

LEMMA DeliverKeeps ==
  ASSUME RegistryInv, NEW r \in Requests, Registry!Deliver(r)
  PROVE  RegistryInv'
<1> DEFINE response == [type |-> "created", session |-> made[r]]
<1>1. made[r] # Nothing /\ Registry!Answer(r, response)
  BY DEF Registry!Deliver
<1>2. response \in Replies
  BY DEF RegistryInv, Replies
<1>3. \E s \in sessions : s.id = response.session /\ s.key = key[r]
  BY <1>1 DEF RegistryInv, MadeNamesSession
<1> HIDE DEF response
<1> QED BY <1>1, <1>2, <1>3, AnswerKeeps

\* The session that is added has a key, and an id, of its own.
LEMMA RegisterKeeps ==
  ASSUME RegistryInv, NEW r \in Requests, Registry!Register(r)
  PROVE  RegistryInv'
<1>1. PICK id \in SessionIds \ {s.id : s \in sessions}, n \in 1..NumQuestions :
        /\ sessions' = sessions \cup {[id |-> id, key |-> key[r], questions |-> n]}
        /\ made' = [made EXCEPT ![r] = id]
  BY DEF Registry!Register
<1>2. UNCHANGED <<waiting, key, reply>> /\ r \in waiting
  BY DEF Registry!Register
<1> DEFINE new == [id |-> id, key |-> key[r], questions |-> n]
<1>3. new \in Sessions /\ \A s \in sessions : s.id # id
  BY DEF RegistryInv, Sessions
<1>4. \A s \in sessions : key[r] # NoKey => s.key # key[r]
  BY DEF Registry!Register, Registry!Free, Registry!Registered
<1>5. sessions' \in SUBSET Sessions
  BY <1>1, <1>3 DEF RegistryInv
<1>6. Registry!OneSessionEach'
  <2> SUFFICES ASSUME NEW s \in sessions', NEW u \in sessions',
                      s.id = u.id \/ (s.key = u.key /\ s.key # NoKey)
               PROVE  s = u
    BY DEF Registry!OneSessionEach
  <2> QED BY <1>1, <1>3, <1>4 DEF RegistryInv, Registry!OneSessionEach
<1>7. Registry!AnswersNameSessions'
  BY <1>1, <1>2 DEF RegistryInv, Registry!AnswersNameSessions
<1>8. MadeNamesSession'
  <2>1. new \in sessions' /\ new.id = id /\ new.key = key[r]
    BY <1>1
  <2> HIDE DEF new
  <2> QED BY <1>1, <1>2, <2>1 DEF RegistryInv, MadeNamesSession
<1> QED BY <1>1, <1>2, <1>5, <1>6, <1>7, <1>8 DEF RegistryInv

LEMMA RegistryStep == RegistryInv /\ [Registry!Next]_(Registry!vars) => RegistryInv'
<1> SUFFICES ASSUME RegistryInv, [Registry!Next]_(Registry!vars) PROVE RegistryInv'
  OBVIOUS
<1>1. CASE UNCHANGED Registry!vars
  BY <1>1 DEF Registry!vars, RegistryInv, MadeNamesSession, Registry!OneSessionEach,
     Registry!AnswersNameSessions
<1>2. ASSUME NEW r \in Requests, NEW k \in Headers, Registry!Wait(r, k) \/ Registry!Refuse(r, k)
      PROVE  RegistryInv'
  <2>1. PICK type \in {"none", "invalid"} :
          Registry!Ask(r, k, Registry!Response(type)) /\ waiting \subseteq waiting'
    BY <1>2 DEF Registry!Wait, Registry!Refuse
  <2>2. Registry!Response(type) \in Replies /\ Registry!Response(type).type # "created"
    BY DEF Registry!Response, Replies
  <2> QED BY <2>1, <2>2, AskKeeps
<1>3. ASSUME NEW r \in Requests, NEW k \in Headers, Registry!Repeat(r, k)
      PROVE  RegistryInv'
  <2>1. PICK s \in sessions :
          /\ s.key = k /\ waiting' = waiting
          /\ Registry!Ask(r, k, [type |-> "created", session |-> s.id])
    BY <1>3 DEF Registry!Repeat, Registry!Registered
  <2>2. [type |-> "created", session |-> s.id] \in Replies
    BY DEF RegistryInv, Sessions, Replies
  <2> QED BY <2>1, <2>2, AskKeeps
<1> QED BY <1>1, <1>2, <1>3, GiveUpKeeps, RegisterKeeps, DeliverKeeps DEF Registry!Next

LEMMA RegistryInvariance == Registry!Spec => []RegistryInv
<1>1. Registry!Init => RegistryInv
  BY DEF Registry!Init, Registry!Response, RegistryInv, Sessions, Replies,
     MadeNamesSession, Registry!OneSessionEach, Registry!AnswersNameSessions
<1> QED BY <1>1, RegistryStep, PTL DEF Registry!Spec

\* Whatever implements SessionRegistry has one session for each key.
THEOREM RegistryIsAMap == Registry!Spec => []Registry!OneSessionEach
<1>1. RegistryInv => Registry!OneSessionEach
  BY DEF RegistryInv
<1> QED BY <1>1, RegistryInvariance, PTL

\* ... and answers with sessions that are there, with their questions.
THEOREM RegistryAnswers == Registry!Spec => []Registry!AnswersNameSessions
<1>1. RegistryInv => Registry!AnswersNameSessions
  BY DEF RegistryInv
<1> QED BY <1>1, RegistryInvariance, PTL

\* ... and keeps every session it has.
THEOREM RegistryKeeps == Registry!Spec => Registry!SessionsStay
<1>1. [Registry!Next]_(Registry!vars) => [sessions \subseteq sessions']_(Registry!vars)
  BY DEF Registry!Next, Registry!Wait, Registry!Refuse, Registry!Repeat, Registry!Ask,
     Registry!Register, Registry!GiveUp, Registry!Deliver, Registry!Answer
<1> QED BY <1>1, PTL DEF Registry!Spec, Registry!SessionsStay

-----------------------------------------------------------------------------
(***************************************************************************)
(* InterviewContract.                                                      *)
(***************************************************************************)
ContractInv ==
  /\ depth \in [Contract!Threads -> 0..MaxFollowups]
  /\ open \in [Contract!Threads -> BOOLEAN]
  /\ session \in {"IN_PROGRESS", "COMPLETED"}
  /\ reported \in BOOLEAN
  /\ Contract!ClosedInOrder

LEMMA ContractInit ==
  ASSUME MaxFollowups \in Nat, Contract!Init
  PROVE  ContractInv
<1>1. 0 \in 0..MaxFollowups
  OBVIOUS
<1>2. depth \in [Contract!Threads -> 0..MaxFollowups]
  BY <1>1 DEF Contract!Init
<1>3. open \in [Contract!Threads -> BOOLEAN]
  BY DEF Contract!Init
<1>4. session = "IN_PROGRESS" /\ reported = FALSE
  BY DEF Contract!Init
<1> QED BY <1>2, <1>3, <1>4 DEF ContractInv, Contract!ClosedInOrder

LEMMA ContractStep ==
  ASSUME MaxFollowups \in Nat, ContractInv, [Contract!Next]_(Contract!vars)
  PROVE  ContractInv'
<1> USE DEF ContractInv, Contract!ClosedInOrder
<1>1. CASE UNCHANGED Contract!vars
  BY <1>1 DEF Contract!vars, Contract!AllClosed
<1>2. ASSUME NEW t \in Contract!Threads, Contract!FollowUp(t) PROVE ContractInv'
  <2>1. depth[t] + 1 \in 0..MaxFollowups
    BY <1>2 DEF Contract!FollowUp
  <2>2. depth' \in [Contract!Threads -> 0..MaxFollowups]
    BY <1>2, <2>1 DEF Contract!FollowUp
  <2> QED BY <1>2, <2>2 DEF Contract!FollowUp, Contract!AllClosed
<1>3. ASSUME NEW t \in Contract!Threads, Contract!MoveOn(t) PROVE ContractInv'
  BY <1>3 DEF Contract!MoveOn, Contract!AllClosed
<1>4. CASE Contract!Close \/ Contract!Report
  BY <1>4 DEF Contract!Close, Contract!Report, Contract!AllClosed
<1> QED BY <1>1, <1>2, <1>3, <1>4 DEF Contract!Next

\* Whatever implements InterviewContract closes its threads, completes and
\* reports in this order, within the depth cap.
THEOREM ContractInOrder ==
  ASSUME MaxFollowups \in Nat
  PROVE  Contract!Spec => []Contract!ClosedInOrder
<1>1. Contract!Init => ContractInv
  BY ContractInit
<1>2. ContractInv /\ [Contract!Next]_(Contract!vars) => ContractInv'
  BY ContractStep
<1>3. ContractInv => Contract!ClosedInOrder
  BY DEF ContractInv
<1> QED BY <1>1, <1>2, <1>3, PTL DEF Contract!Spec

\* ... and never goes back.
THEOREM ContractGoesOn ==
  ASSUME MaxFollowups \in Nat
  PROVE  Contract!Spec => Contract!OneWay
<1>1. Contract!Init => ContractInv
  BY ContractInit
<1>2. ContractInv /\ [Contract!Next]_(Contract!vars) => ContractInv'
  BY ContractStep
<1>3. ASSUME ContractInv, Contract!Next
      PROVE  /\ \A t \in Contract!Threads : depth'[t] >= depth[t] /\ (open'[t] => open[t])
             /\ reported => reported'
             /\ session = "COMPLETED" => UNCHANGED <<depth, open, session>>
  <2> USE DEF ContractInv, Contract!ClosedInOrder, Contract!AllClosed
  <2>1. \A u \in Contract!Threads : depth[u] \in Nat
    BY <1>3
  <2>2. ASSUME NEW t \in Contract!Threads, Contract!FollowUp(t)
        PROVE  /\ session # "COMPLETED" /\ reported' = reported /\ open' = open
               /\ \A u \in Contract!Threads : depth'[u] >= depth[u]
    BY <1>3, <2>1, <2>2 DEF Contract!FollowUp
  <2>3. ASSUME NEW t \in Contract!Threads, Contract!MoveOn(t)
        PROVE  /\ session # "COMPLETED" /\ reported' = reported /\ depth' = depth
               /\ \A u \in Contract!Threads : open'[u] => open[u]
    <3>1. \A u \in Contract!Threads : open'[u] => open[u]
      BY <1>3, <2>3, Zenon DEF Contract!MoveOn
    <3> QED BY <1>3, <2>3, <3>1 DEF Contract!MoveOn
  <2>4. CASE Contract!Close \/ Contract!Report
    BY <1>3, <2>1, <2>4 DEF Contract!Close, Contract!Report
  <2>5. \A u \in Contract!Threads : depth[u] >= depth[u]
    BY <2>1
  <2> QED BY <1>3, <2>2, <2>3, <2>4, <2>5 DEF Contract!Next
<1>4. ContractInv /\ [Contract!Next]_(Contract!vars) =>
        [/\ \A t \in Contract!Threads : depth'[t] >= depth[t] /\ (open'[t] => open[t])
         /\ reported => reported'
         /\ session = "COMPLETED" => UNCHANGED <<depth, open, session>>]_(Contract!vars)
  BY <1>3
<1> QED BY <1>1, <1>2, <1>4, PTL DEF Contract!Spec, Contract!OneWay
=============================================================================
