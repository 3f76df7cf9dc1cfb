--------------------------- MODULE RagIndexProofs ---------------------------
(***************************************************************************)
(* Proofs about RagIndex, for every number of replicas and all articles.   *)
(***************************************************************************)
EXTENDS RagIndex, FiniteSetTheorems, TLAPS

Holding == {"counting", "querying", "probing", "checking", "recounting", "adding"}

\* A missing collection has no chunks.
IndexInv == collection = None => chunks = {}

\* What a place says about what the replica holds and may rely on.
SlotInv(r) ==
  /\ pc[r] \in Holding => handle[r] # None
  /\ pc[r] = "querying" => wanted[r] > 0 /\ (Alive(r) => chunks # {})
  /\ pc[r] \in Rebuilding \cup {"checking"} => article[r] \in Versions
  /\ pc[r] \in {"creating", "adding"} /\ r \notin disturbed => chunks = {}
  /\ pc[r] # "idle" => reply[r].type = "none"
  /\ reply[r].type = "chunks" => reply[r].found # {}

\* Two rebuilds at a time are both disturbed.
OverlapInv ==
  \A r, s \in Replicas :
    r # s /\ pc[r] \in Rebuilding /\ pc[s] \in Rebuilding => r \in disturbed

IInv ==
  /\ TypeOK
  /\ IndexInv
  /\ \A r \in Replicas : SlotInv(r)
  /\ OverlapInv

-----------------------------------------------------------------------------
(***************************************************************************)
(* Chunks and counts.                                                      *)
(***************************************************************************)

\* An article has finitely many chunks.
LEMMA ChunksFinite ==
  ASSUME NEW v \in Versions
  PROVE  IsFiniteSet(ChunksOf(v)) /\ ChunksOf(v) \in SUBSET Chunk
<1> DEFINE S == 0..(ChunkCount[v] - 1)
           f == [i \in S |-> [id |-> i, of |-> v]]
<1>1. ChunkCount[v] \in Nat \ {0}
  BY IndexAssumption
<1>2. IsFiniteSet(S)
  BY <1>1, FS_Interval
<1>3. f \in Surjection(S, ChunksOf(v))
  BY DEF Surjection, ChunksOf
<1>4. IsFiniteSet(ChunksOf(v))
  <2> HIDE DEF S, f
  <2> QED BY <1>2, <1>3, FS_Surjection
<1>5. ChunksOf(v) \in SUBSET Chunk
  BY <1>1 DEF ChunksOf, Chunk
<1> QED BY <1>4, <1>5

\* Adding keeps what is there and adds some of what is new, all of it to an
\* empty collection.
LEMMA AddedChunks ==
  ASSUME TypeOK, NEW v \in Versions
  PROVE  /\ Added(ChunksOf(v)) \in SUBSET Chunk
         /\ IsFiniteSet(Added(ChunksOf(v)))
         /\ chunks \subseteq Added(ChunksOf(v))
         /\ chunks = {} => Added(ChunksOf(v)) = ChunksOf(v)
<1> DEFINE N == {c \in ChunksOf(v) : \A d \in chunks : d.id # c.id}
<1>1. IsFiniteSet(N) /\ N \in SUBSET Chunk
  BY ChunksFinite, FS_Subset
<1>2. Added(ChunksOf(v)) = chunks \cup N
  BY DEF Added
<1>3. IsFiniteSet(chunks \cup N)
  <2> HIDE DEF N
  <2> QED BY <1>1, FS_Union DEF TypeOK
<1> QED BY <1>1, <1>2, <1>3 DEF TypeOK

\* What a retrieval asks for, and how much it gets.
LEMMA CountTyped ==
  ASSUME TypeOK
  PROVE  /\ Cardinality(chunks) \in Nat
         /\ chunks # {} => Cardinality(chunks) > 0
         /\ Least(TopK, Cardinality(chunks)) \in 0..TopK
         /\ chunks # {} => Least(TopK, Cardinality(chunks)) > 0
<1>1. Cardinality(chunks) \in Nat
  BY FS_CardinalityType DEF TypeOK
<1>2. chunks # {} => Cardinality(chunks) > 0
  BY <1>1, FS_EmptySet DEF TypeOK
<1> QED BY <1>1, <1>2, IndexAssumption DEF Least

-----------------------------------------------------------------------------
(***************************************************************************)
(* Steps that are shared by several actions.                               *)
(***************************************************************************)

\* A handler that ends without touching the index.
LEMMA FinishStep ==
  ASSUME IInv, NEW r \in Replicas, NEW type \in ResponseTypes, NEW found \in SUBSET Chunk,
         type = "chunks" => found # {},
         Finish(r, [type |-> type, found |-> found]), UNCHANGED index
  PROVE  IInv'
<1>1. TypeOK'
  BY IndexAssumption DEF Finish, Goto, index, IInv, TypeOK, Locations
<1>2. IndexInv'
  BY DEF index, IInv, IndexInv
<1>3. ASSUME NEW s \in Replicas PROVE SlotInv(s)'
  <2>1. CASE s = r
    BY <2>1 DEF Finish, Goto, IInv, TypeOK, SlotInv, Holding, Rebuilding
  <2>2. CASE s # r
    BY <1>3, <2>2 DEF Finish, Goto, index, IInv, TypeOK, SlotInv, Alive
  <2> QED BY <2>1, <2>2
<1>4. OverlapInv'
  BY DEF Finish, Goto, IInv, TypeOK, OverlapInv, Rebuilding
<1> QED BY <1>1, <1>2, <1>3, <1>4 DEF IInv

\* A handler that opens the collection.
LEMMA OpenStep ==
  ASSUME IInv, NEW r \in Replicas, NEW loc \in Locations, Open(r, loc),
         \A s \in Replicas \ {r} : /\ article'[s] = article[s]
                                   /\ wanted'[s] = wanted[s]
                                   /\ reply'[s] = reply[s],
         article' \in [Replicas -> Versions \cup {None}],
         wanted' = wanted,
         reply' \in [Replicas -> [type : ResponseTypes, found : SUBSET Chunk]],
         reply'[r].type = "none",
         disturbed' = disturbed,
         loc \notin {"querying", "creating", "dropping"},
         loc \in {"checking", "adding"} => article'[r] \in Versions,
         loc = "adding" => pc[r] = "creating"
  PROVE  IInv'
<1>1. /\ collection' \in Handles /\ chunks' \in {{}, chunks}
      /\ handle' = [handle EXCEPT ![r] = collection'] /\ pc' = [pc EXCEPT ![r] = loc]
      /\ \/ collection' = collection /\ chunks' = chunks
         \/ /\ collection = None /\ chunks' = {}
            /\ \A s \in Replicas \ {r} : handle[s] # collection'
  BY DEF Open, Goto, index, IInv, TypeOK
<1>2. TypeOK'
  BY <1>1, FS_EmptySet DEF IInv, TypeOK
<1>3. IndexInv'
  BY <1>1, IndexAssumption DEF IndexInv
<1>4. ASSUME NEW s \in Replicas PROVE SlotInv(s)'
  <2>1. CASE s = r
    BY <1>1, <2>1, IndexAssumption DEF IInv, TypeOK, SlotInv, Rebuilding, Holding
  <2>2. CASE s # r
    <3>1. /\ pc'[s] = pc[s] /\ handle'[s] = handle[s] /\ article'[s] = article[s]
          /\ wanted'[s] = wanted[s] /\ reply'[s] = reply[s]
      BY <1>1, <2>2 DEF IInv, TypeOK
    <3> QED BY <1>1, <2>2, <3>1 DEF IInv, SlotInv, Alive
  <2> QED BY <2>1, <2>2
<1>5. OverlapInv'
  BY <1>1 DEF IInv, TypeOK, OverlapInv, Rebuilding
<1> QED BY <1>2, <1>3, <1>4, <1>5 DEF IInv

\* A rebuild that begins.
LEMMA JoinStep ==
  ASSUME IInv, NEW r \in Replicas, pc[r] \notin Rebuilding, Join(r),
         article' \in [Replicas -> Versions \cup {None}], article'[r] \in Versions,
         \A s \in Replicas \ {r} : article'[s] = article[s],
         reply' \in [Replicas -> [type : ResponseTypes, found : SUBSET Chunk]],
         \A s \in Replicas \ {r} : reply'[s] = reply[s],
         reply'[r].type = "none",
         UNCHANGED <<index, handle, wanted>>
  PROVE  IInv'
<1> DEFINE others == {s \in Replicas : pc[s] \in Rebuilding}
<1>1. /\ pc' = [pc EXCEPT ![r] = "dropping"]
      /\ disturbed' = IF others = {} THEN disturbed ELSE disturbed \cup others \cup {r}
  BY DEF Join, Goto
<1>2. disturbed \subseteq disturbed' /\ disturbed' \subseteq Replicas
  BY <1>1 DEF IInv, TypeOK
<1>3. TypeOK'
  BY <1>1, <1>2 DEF index, IInv, TypeOK, Locations, Rebuilding
<1>4. IndexInv'
  BY DEF index, IInv, IndexInv
<1>5. ASSUME NEW s \in Replicas PROVE SlotInv(s)'
  <2>1. CASE s = r
    BY <1>1, <2>1 DEF IInv, TypeOK, SlotInv, Rebuilding, Holding
  <2>2. CASE s # r
    <3>1. pc'[s] = pc[s]
      BY <1>1, <2>2 DEF IInv, TypeOK
    <3> QED BY <1>2, <2>2, <3>1 DEF index, IInv, SlotInv, Alive
  <2> QED BY <2>1, <2>2
<1>6. OverlapInv'
  <2> SUFFICES ASSUME NEW s \in Replicas, NEW u \in Replicas, s # u,
                      pc'[s] \in Rebuilding, pc'[u] \in Rebuilding
               PROVE  s \in disturbed'
    BY DEF OverlapInv
  <2>1. CASE s = r
    <3>1. u \in others
      BY <1>1, <2>1 DEF IInv, TypeOK
    <3> QED BY <1>1, <2>1, <3>1
  <2>2. CASE s # r
    <3>1. s \in others
      BY <1>1, <2>2 DEF IInv, TypeOK
    <3> QED BY <1>1, <3>1
  <2> QED BY <2>1, <2>2
<1> QED BY <1>3, <1>4, <1>5, <1>6 DEF IInv

-----------------------------------------------------------------------------
(***************************************************************************)
(* One lemma for each group of actions.                                    *)
(***************************************************************************)
LEMMA InitIInv == Init => IInv
BY FS_EmptySet, IndexAssumption DEF Init, IInv, TypeOK, IndexInv, SlotInv, OverlapInv,
   Locations, Rebuilding, Holding, Response, ResponseTypes

LEMMA OpeningStep ==
  ASSUME IInv, NEW r \in Replicas,
         \/ Retrieve(r) \/ Probe(r) \/ Reopen(r) \/ Create(r)
         \/ \E v \in Versions : IngestOnce(r, v)
  PROVE  IInv'
<1>1. TypeOK /\ SlotInv(r)
  BY DEF IInv
<1>2. Response("none") \in [type : ResponseTypes, found : SUBSET Chunk]
      /\ Response("none").type = "none"
  BY DEF Response, ResponseTypes
<1>3. CASE Retrieve(r)
  <2>1. Open(r, "counting") /\ "counting" \in Locations
    BY <1>3 DEF Retrieve, Locations
  <2> QED BY <1>1, <1>2, <1>3, <2>1, OpenStep DEF Retrieve, TypeOK
<1>4. CASE Probe(r)
  <2>1. Open(r, "probing") /\ "probing" \in Locations
    BY <1>4 DEF Probe, Locations
  <2> QED BY <1>1, <1>2, <1>4, <2>1, OpenStep DEF Probe, TypeOK
<1>5. ASSUME NEW v \in Versions, IngestOnce(r, v) PROVE IInv'
  <2>1. Open(r, "checking") /\ "checking" \in Locations
    BY <1>5 DEF IngestOnce, Locations
  <2> QED BY <1>1, <1>2, <1>5, <2>1, OpenStep DEF IngestOnce, TypeOK
<1>6. CASE Reopen(r)
  <2>1. Open(r, "recounting") /\ "recounting" \in Locations /\ pc[r] = "reopening"
    BY <1>6 DEF Reopen, Locations
  <2> QED BY <1>1, <1>6, <2>1, OpenStep DEF Reopen, TypeOK, SlotInv
<1>7. CASE Create(r)
  <2>1. Open(r, "adding") /\ "adding" \in Locations /\ pc[r] = "creating"
    BY <1>7 DEF Create, Locations, Rebuilding
  <2>2. article[r] \in Versions
    BY <1>1, <2>1 DEF SlotInv, Rebuilding
  <2> QED BY <1>1, <1>7, <2>1, <2>2, OpenStep DEF Create, TypeOK, SlotInv
<1> QED BY <1>3, <1>4, <1>5, <1>6, <1>7

\* The actions that end a handler and only read the index.
LEMMA EndingStep ==
  ASSUME IInv, NEW r \in Replicas,
         \/ Query(r) \/ CountProbe(r) \/ Recount(r) \/ Fail(r) \/ Crash(r)
  PROVE  IInv'
<1>1. TypeOK /\ SlotInv(r)
  BY DEF IInv
<1>2. ASSUME NEW type \in ResponseTypes \ {"chunks"}, Finish(r, Response(type)),
             UNCHANGED index
      PROVE  IInv'
  BY <1>2, FinishStep DEF Response
<1>3. CASE Query(r)
  <2>1. PICK found \in SUBSET chunks :
          /\ Cardinality(found) = Least(wanted[r], Cardinality(chunks))
          /\ Finish(r, [type |-> "chunks", found |-> found])
    BY <1>3 DEF Query
  <2>2. chunks # {} /\ wanted[r] \in Nat \ {0} /\ UNCHANGED index
    BY <1>1, <1>3, IndexAssumption DEF Query, SlotInv, TypeOK
  <2>3. Cardinality(found) > 0
    BY <1>1, <2>1, <2>2, CountTyped DEF Least
  <2>4. found # {}
    BY <2>3, FS_EmptySet
  <2>5. found \in SUBSET Chunk /\ "chunks" \in ResponseTypes
    BY <1>1 DEF TypeOK, ResponseTypes
  <2> QED BY <2>1, <2>2, <2>4, <2>5, FinishStep
<1>4. CASE CountProbe(r)
  BY <1>2, <1>4 DEF CountProbe, ResponseTypes
<1>5. CASE Recount(r)
  BY <1>2, <1>5 DEF Recount, ResponseTypes
<1>6. CASE Fail(r)
  <2>1. Failure(pc[r]) \in ResponseTypes \ {"chunks"}
    BY DEF Failure, ResponseTypes
  <2> QED BY <1>2, <1>6, <2>1 DEF Fail
<1>7. CASE Crash(r)
  BY <1>2, <1>7 DEF Crash, ResponseTypes
<1> QED BY <1>3, <1>4, <1>5, <1>6, <1>7

LEMMA CountStep ==
  ASSUME IInv, NEW r \in Replicas, Count(r)
  PROVE  IInv'
<1>1. CASE chunks = {}
  <2>1. Finish(r, Response("unavailable")) /\ UNCHANGED index
    BY <1>1 DEF Count
  <2> QED BY <2>1, FinishStep DEF Response, ResponseTypes
<1>2. CASE chunks # {}
  <2> DEFINE n == Least(TopK, Cardinality(chunks))
  <2>1. n \in 0..TopK /\ n > 0
    BY <1>2, CountTyped DEF IInv
  <2>2. /\ pc[r] = "counting" /\ pc' = [pc EXCEPT ![r] = "querying"]
        /\ wanted' = [wanted EXCEPT ![r] = n]
        /\ UNCHANGED <<index, handle, article, reply, disturbed>>
    BY <1>2 DEF Count, Goto
  <2> HIDE DEF n
  <2>3. TypeOK'
    BY <2>1, <2>2 DEF index, IInv, TypeOK, Locations
  <2>4. IndexInv'
    BY <2>2 DEF index, IInv, IndexInv
  <2>5. ASSUME NEW s \in Replicas PROVE SlotInv(s)'
    <3>1. CASE s = r
      BY <1>2, <2>1, <2>2, <3>1 DEF index, IInv, TypeOK, SlotInv, Holding, Rebuilding, Alive
    <3>2. CASE s # r
      BY <2>2, <2>5, <3>2 DEF index, IInv, TypeOK, SlotInv, Alive
    <3> QED BY <3>1, <3>2
  <2>6. OverlapInv'
    BY <2>2 DEF IInv, TypeOK, OverlapInv, Rebuilding
  <2> QED BY <2>3, <2>4, <2>5, <2>6 DEF IInv
<1> QED BY <1>1, <1>2

LEMMA FetchFailsStep ==
  ASSUME IInv, NEW r \in Replicas, FetchFails(r)
  PROVE  IInv'
<1>1. /\ pc[r] = "idle" /\ reply' = [reply EXCEPT ![r] = Response("failed")]
      /\ UNCHANGED <<collection, chunks, pc, handle, article, wanted, disturbed>>
  BY DEF FetchFails, index
<1>2. TypeOK'
  BY <1>1 DEF IInv, TypeOK, Response, ResponseTypes
<1>3. ASSUME NEW s \in Replicas PROVE SlotInv(s)'
  BY <1>1 DEF IInv, TypeOK, SlotInv, Alive, Response
<1>4. IndexInv' /\ OverlapInv'
  BY <1>1 DEF IInv, IndexInv, OverlapInv
<1> QED BY <1>2, <1>3, <1>4 DEF IInv

LEMMA JoiningStep ==
  ASSUME IInv, NEW r \in Replicas, Check(r) \/ \E v \in Versions : Ingest(r, v)
  PROVE  IInv'
<1>1. TypeOK /\ SlotInv(r)
  BY DEF IInv
<1>2. ASSUME NEW v \in Versions, Ingest(r, v) PROVE IInv'
  <2>1. pc[r] \notin Rebuilding
    BY <1>2 DEF Ingest, Rebuilding
  <2>2. Response("none") \in [type : ResponseTypes, found : SUBSET Chunk]
        /\ Response("none").type = "none"
    BY DEF Response, ResponseTypes
  <2> QED BY <1>1, <1>2, <2>1, <2>2, JoinStep DEF Ingest, TypeOK
<1>3. CASE Check(r) /\ chunks = {}
  <2>1. pc[r] = "checking" /\ Join(r)
    BY <1>3 DEF Check
  <2>2. pc[r] \notin Rebuilding
    BY <2>1 DEF Rebuilding
  <2> QED BY <1>1, <1>3, <2>1, <2>2, JoinStep DEF Check, TypeOK, SlotInv
<1>4. CASE Check(r) /\ chunks # {}
  <2>1. /\ pc[r] = "checking" /\ pc' = [pc EXCEPT ![r] = "reopening"]
        /\ UNCHANGED <<collection, chunks, handle, article, wanted, reply, disturbed>>
    BY <1>4 DEF Check, Goto, index
  <2>2. TypeOK'
    BY <1>1, <2>1 DEF TypeOK, Locations
  <2>3. ASSUME NEW s \in Replicas PROVE SlotInv(s)'
    BY <2>1 DEF IInv, TypeOK, SlotInv, Alive, Holding, Rebuilding
  <2>4. IndexInv' /\ OverlapInv'
    BY <2>1 DEF IInv, TypeOK, IndexInv, OverlapInv, Rebuilding
  <2> QED BY <2>2, <2>3, <2>4 DEF IInv
<1> QED BY <1>2, <1>3, <1>4

LEMMA DropStep ==
  ASSUME IInv, NEW r \in Replicas, Drop(r)
  PROVE  IInv'
<1>1. /\ pc[r] = "dropping" /\ pc' = [pc EXCEPT ![r] = "creating"]
      /\ UNCHANGED <<handle, article, wanted, reply>>
      /\ \/ collection' = None /\ chunks' = {} /\ UNCHANGED disturbed
         \/ UNCHANGED <<collection, chunks>> /\ disturbed' = disturbed \cup {r}
  BY DEF Drop, Goto, index
<1>2. TypeOK'
  BY <1>1, FS_EmptySet DEF IInv, TypeOK, Locations, Rebuilding
<1>3. IndexInv'
  BY <1>1 DEF IInv, IndexInv
<1>4. ASSUME NEW s \in Replicas PROVE SlotInv(s)'
  <2>1. CASE s = r
    BY <1>1, <2>1 DEF IInv, TypeOK, SlotInv, Rebuilding, Holding
  <2>2. CASE s # r
    BY <1>1, <2>2, IndexAssumption DEF IInv, TypeOK, SlotInv, Alive, Holding
  <2> QED BY <2>1, <2>2
<1>5. OverlapInv'
  BY <1>1 DEF IInv, TypeOK, OverlapInv, Rebuilding
<1> QED BY <1>2, <1>3, <1>4, <1>5 DEF IInv

LEMMA StoringStep ==
  ASSUME IInv, NEW r \in Replicas, Add(r) \/ AddUnanswered(r)
  PROVE  IInv'
<1>1. PICK type \in {"indexed", "failed"} : Store(r) /\ Finish(r, Response(type))
  BY DEF Add, AddUnanswered
<1>2. /\ pc[r] = "adding" /\ article[r] \in Versions /\ handle[r] # None
      /\ collection = handle[r] /\ collection' = collection
      /\ chunks' = Added(ChunksOf(article[r]))
  BY <1>1 DEF Store, Alive, IInv, SlotInv, Rebuilding, Holding
<1>3. chunks' \in SUBSET Chunk /\ IsFiniteSet(chunks') /\ chunks \subseteq chunks'
  BY <1>2, AddedChunks DEF IInv
<1>4. /\ pc' = [pc EXCEPT ![r] = "idle"] /\ handle' = [handle EXCEPT ![r] = None]
      /\ article' = [article EXCEPT ![r] = None] /\ wanted' = [wanted EXCEPT ![r] = 0]
      /\ reply' = [reply EXCEPT ![r] = Response(type)]
      /\ disturbed' = disturbed \ {r}
  BY <1>1 DEF Finish, Goto
<1>5. Response(type) \in [type : ResponseTypes, found : SUBSET Chunk]
      /\ Response(type).type = type
  BY DEF Response, ResponseTypes
<1>6. TypeOK'
  BY <1>2, <1>3, <1>4, <1>5, IndexAssumption DEF IInv, TypeOK, Locations
<1>7. IndexInv'
  BY <1>2 DEF IndexInv
<1>8. ASSUME NEW s \in Replicas PROVE SlotInv(s)'
  <2>1. CASE s = r
    BY <1>4, <1>5, <2>1 DEF IInv, TypeOK, SlotInv, Holding, Rebuilding
  <2>2. CASE s # r
    <3>1. /\ pc'[s] = pc[s] /\ handle'[s] = handle[s] /\ article'[s] = article[s]
          /\ wanted'[s] = wanted[s] /\ reply'[s] = reply[s]
          /\ s \in disturbed' <=> s \in disturbed
      BY <1>4, <2>2 DEF IInv, TypeOK
    <3>2. pc[s] \in {"creating", "adding"} => s \in disturbed
      BY <1>2, <2>2 DEF IInv, OverlapInv, Rebuilding
    <3> QED BY <1>2, <1>3, <3>1, <3>2 DEF IInv, SlotInv, Alive
  <2> QED BY <2>1, <2>2
<1>9. OverlapInv'
  BY <1>4 DEF IInv, TypeOK, OverlapInv, Rebuilding
<1> QED BY <1>6, <1>7, <1>8, <1>9 DEF IInv

-----------------------------------------------------------------------------
\* Every step preserves the invariant.
LEMMA StepIInv == IInv /\ [Next]_vars => IInv'
<1> SUFFICES ASSUME IInv, [Next]_vars PROVE IInv'
  OBVIOUS
<1>1. CASE UNCHANGED vars
  BY <1>1 DEF vars, IInv, TypeOK, IndexInv, SlotInv, OverlapInv, Alive
<1>2. ASSUME NEW r \in Replicas, Search(r) PROVE IInv'
  BY <1>2, OpeningStep, CountStep, EndingStep DEF Search
<1>3. ASSUME NEW r \in Replicas, Rebuild(r) PROVE IInv'
  BY <1>3, OpeningStep, EndingStep, FetchFailsStep, JoiningStep, DropStep, StoringStep
     DEF Rebuild
<1>4. ASSUME NEW r \in Replicas, Fail(r) \/ Crash(r) PROVE IInv'
  BY <1>4, EndingStep
<1> QED BY <1>1, <1>2, <1>3, <1>4 DEF Next

\* The inductive invariant holds: what an undisturbed rebuild is about to fill
\* is empty, and two rebuilds at a time are disturbed.
THEOREM Invariance == Spec => []IInv
BY InitIInv, StepIInv, PTL DEF Spec

\* The variables have their types.
THEOREM TypeCorrectness == Spec => []TypeOK
<1>1. IInv => TypeOK
  BY DEF IInv
<1> QED BY <1>1, Invariance, PTL

\* similarity_search never returns an empty result.
THEOREM SearchHolds == Spec => []SearchFindsSomething
<1>1. IInv => SearchFindsSomething
  BY DEF IInv, SlotInv, SearchFindsSomething
<1> QED BY <1>1, Invariance, PTL

-----------------------------------------------------------------------------
\* The only step from adding to a reply is Add.
LEMMA OnlyAddIndexes ==
  ASSUME IInv, [Next]_vars, NEW r \in Replicas, pc[r] = "adding",
         reply'[r].type = "indexed"
  PROVE  Add(r)
<1>1. reply[r].type = "none" /\ reply[r] # reply'[r]
  BY DEF IInv, SlotInv
<1>2. PICK s \in Replicas : Search(s) \/ Rebuild(s) \/ Fail(s) \/ Crash(s)
  BY <1>1 DEF Next, vars
<1>3. \E response : reply' \in {reply, [reply EXCEPT ![s] = response]}
  BY <1>2 DEF Search, Rebuild, Retrieve, Probe, Count, Query, CountProbe, Ingest, IngestOnce,
     FetchFails, Check, Reopen, Recount, Drop, Create, Add, AddUnanswered, Fail, Crash, Finish
<1>4. s = r
  BY <1>1, <1>3 DEF IInv, TypeOK
<1>5. Failure("adding") = "failed"
  BY DEF Failure
<1>6. Add(r) \/ AddUnanswered(r) \/ Fail(r) \/ Crash(r)
  BY <1>2, <1>4 DEF Search, Rebuild, Retrieve, Probe, Count, Query, CountProbe, Ingest,
     IngestOnce, FetchFails, Check, Reopen, Recount, Drop, Create
<1>7. ASSUME NEW type, Finish(r, Response(type)) PROVE reply'[r].type = type
  BY <1>7 DEF Finish, Response, IInv, TypeOK
<1>8. ~AddUnanswered(r) /\ ~Fail(r) /\ ~Crash(r)
  BY <1>5, <1>7 DEF AddUnanswered, Fail, Crash
<1> QED BY <1>6, <1>8

\* An ingestion that met no other and whose drop went through makes the index
\* exactly its article's.
THEOREM ExactHolds == Spec => UndisturbedIngestIsExact
<1>1. ASSUME IInv, [Next]_vars
      PROVE  [\A r \in Replicas \ disturbed :
                (pc[r] = "adding" /\ reply'[r].type = "indexed")
                  => chunks' = ChunksOf(article[r])]_vars
  <2> SUFFICES ASSUME NEW r \in Replicas \ disturbed, pc[r] = "adding",
                      reply'[r].type = "indexed"
               PROVE  chunks' = ChunksOf(article[r])
    OBVIOUS
  <2>1. Add(r)
    BY <1>1, OnlyAddIndexes
  <2>2. chunks = {} /\ article[r] \in Versions
    BY <1>1 DEF IInv, SlotInv, Rebuilding
  <2> QED BY <1>1, <2>1, <2>2, AddedChunks DEF Add, Store, IInv
<1> QED BY <1>1, Invariance, PTL DEF Spec, UndisturbedIngestIsExact

\* Only an ingestion that met another, or whose drop failed, mixes articles.
THEOREM MixingHolds == Spec => OnlyDisturbedIngestsMix
<1>1. ASSUME IInv, [Next]_vars
      PROVE  [(Pure /\ ~Pure') => \E r \in disturbed : pc[r] = "adding"]_vars
  <2> SUFFICES ASSUME Pure, ~Pure' PROVE \E r \in disturbed : pc[r] = "adding"
    OBVIOUS
  <2>1. ~(chunks' \subseteq chunks)
    BY DEF Pure
  <2>2. PICK r \in Replicas : Search(r) \/ Rebuild(r) \/ Fail(r) \/ Crash(r)
    BY <1>1, <2>1 DEF Next, vars
  <2>3. Store(r)
    BY <2>1, <2>2 DEF Search, Rebuild, Retrieve, Probe, Count, Query, CountProbe, Ingest,
       IngestOnce, FetchFails, Check, Reopen, Recount, Drop, Create, Add, AddUnanswered,
       Fail, Crash, Open, index
  <2>4. pc[r] = "adding" /\ article[r] \in Versions
    BY <1>1, <2>3 DEF Store, IInv, SlotInv, Rebuilding
  <2>5. chunks # {}
    BY <1>1, <2>3, <2>4, AddedChunks DEF Store, IInv, Pure
  <2>6. r \in disturbed
    BY <1>1, <2>4, <2>5 DEF IInv, SlotInv
  <2> QED BY <2>4, <2>6
<1> QED BY <1>1, Invariance, PTL DEF Spec, OnlyDisturbedIngestsMix
=============================================================================
