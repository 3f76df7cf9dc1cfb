------------------------------ MODULE RagIndex ------------------------------
(***************************************************************************)
(* The index of the RAG service: ingestions, retrievals and readiness      *)
(* probes of several replicas over one Chroma server.  A handler of a      *)
(* replica makes its calls to Chroma one after the other, with no lock and *)
(* no transaction around them.                                             *)
(***************************************************************************)
EXTENDS Naturals, FiniteSets

CONSTANTS
  Replicas,    \* handlers at work at the same time, one for each replica
  Versions,    \* the contents that the source article can have
  ChunkCount,  \* chunk_article: how many chunks each makes
  TopK,        \* how many chunks a retrieval asks for
  Handles,     \* Chroma's ids of collections, used again when forgotten
  None         \* no collection, no article

ASSUME IndexAssumption ==
  /\ ChunkCount \in [Versions -> Nat \ {0}]
  /\ TopK \in Nat \ {0}
  /\ None \notin Handles
  /\ None \notin Versions

VARIABLES
  collection,  \* the collection that has the configured name, or None
  chunks,      \* what it contains
  pc,          \* where the handler of a replica is
  handle,      \* the Collection object it holds
  article,     \* what it ingests
  wanted,      \* n_results of its query
  reply,       \* the last response of a replica
  disturbed    \* history: ingestions that met another, or a failed drop

index == <<collection, chunks>>
vars == <<collection, chunks, pc, handle, article, wanted, reply, disturbed>>

Rebuilding == {"dropping", "creating", "adding"}
Locations  == {"idle", "counting", "querying", "probing", "checking",
               "reopening", "recounting"} \cup Rebuilding

\* The chunks of an article have the ids chunk-0, chunk-1 ...
Chunk == [id : Nat, of : Versions]
ChunksOf(v) == {[id |-> i, of |-> v] : i \in 0..(ChunkCount[v] - 1)}

\* Chroma: an id that is there already is skipped.
Added(new) == chunks \cup {c \in new : \A d \in chunks : d.id # c.id}

ResponseTypes == {"none", "chunks", "unavailable", "ready", "empty", "not_ready",
                  "indexed", "kept", "failed", "error"}
Response(type) == [type |-> type, found |-> {}]

\* Mutant: what a retrieval asks for is not cut.
Uncut(m, n) == n

Least(m, n) == IF m < n THEN m ELSE n

Init ==
  /\ collection = None
  /\ chunks = {}
  /\ pc = [r \in Replicas |-> "idle"]
  /\ handle = [r \in Replicas |-> None]
  /\ article = [r \in Replicas |-> None]
  /\ wanted = [r \in Replicas |-> 0]
  /\ reply = [r \in Replicas |-> Response("none")]
  /\ disturbed = {}

-----------------------------------------------------------------------------
Goto(r, loc) == pc' = [pc EXCEPT ![r] = loc]

\* The handler of r is done.
Finish(r, response) ==
  /\ Goto(r, "idle")
  /\ handle' = [handle EXCEPT ![r] = None]
  /\ article' = [article EXCEPT ![r] = None]
  /\ wanted' = [wanted EXCEPT ![r] = 0]
  /\ reply' = [reply EXCEPT ![r] = response]
  /\ disturbed' = disturbed \ {r}

\* get_or_create_collection.
Open(r, loc) ==
  /\ Goto(r, loc)
  /\ IF collection = None
     THEN \E h \in Handles \ {handle[s] : s \in Replicas \ {r}} :
            /\ collection' = h
            /\ chunks' = {}
            /\ handle' = [handle EXCEPT ![r] = h]
     ELSE /\ UNCHANGED index
          /\ handle' = [handle EXCEPT ![r] = collection]

\* A Collection object of a collection that was deleted raises.
Alive(r) == handle[r] = collection

\* The rebuild of r begins; two at a time disturb each other.
Join(r) ==
  LET others == {s \in Replicas : pc[s] \in Rebuilding} IN
  /\ Goto(r, "dropping")
  /\ disturbed' = IF others = {} THEN disturbed ELSE disturbed \cup others \cup {r}

-----------------------------------------------------------------------------
\* POST /retrieve
Retrieve(r) ==
  /\ pc[r] = "idle"
  /\ Open(r, "counting")
  /\ reply' = [reply EXCEPT ![r] = Response("none")]
  /\ UNCHANGED <<article, wanted, disturbed>>

\* Mutant: an empty collection is searched.
CountUnchecked(r) ==
  /\ pc[r] = "counting"
  /\ Alive(r)
  /\ UNCHANGED index
  /\ Goto(r, "querying")
  /\ wanted' = [wanted EXCEPT ![r] = Least(TopK, Cardinality(chunks))]
  /\ UNCHANGED <<handle, article, reply, disturbed>>

\* An empty collection is a 503, not an empty result.
Count(r) ==
  /\ pc[r] = "counting"
  /\ Alive(r)
  /\ UNCHANGED index
  /\ IF chunks = {}
     THEN Finish(r, Response("unavailable"))
     ELSE /\ Goto(r, "querying")
          /\ wanted' = [wanted EXCEPT ![r] = Least(TopK, Cardinality(chunks))]
          /\ UNCHANGED <<handle, article, reply, disturbed>>

Query(r) ==
  /\ pc[r] = "querying"
  /\ Alive(r)
  /\ UNCHANGED index
  /\ \E found \in SUBSET chunks :
       /\ Cardinality(found) = Least(wanted[r], Cardinality(chunks))
       /\ Finish(r, [type |-> "chunks", found |-> found])

\* GET /ready, which creates the collection too.
Probe(r) ==
  /\ pc[r] = "idle"
  /\ Open(r, "probing")
  /\ reply' = [reply EXCEPT ![r] = Response("none")]
  /\ UNCHANGED <<article, wanted, disturbed>>

CountProbe(r) ==
  /\ pc[r] = "probing"
  /\ Alive(r)
  /\ UNCHANGED index
  /\ Finish(r, Response(IF chunks = {} THEN "empty" ELSE "ready"))

-----------------------------------------------------------------------------
\* POST /ingest, once the article has been fetched.
Ingest(r, v) ==
  /\ pc[r] = "idle"
  /\ Join(r)
  /\ article' = [article EXCEPT ![r] = v]
  /\ reply' = [reply EXCEPT ![r] = Response("none")]
  /\ UNCHANGED <<index, handle, wanted>>

\* The article cannot be fetched or has no text: nothing is touched.
FetchFails(r) ==
  /\ pc[r] = "idle"
  /\ reply' = [reply EXCEPT ![r] = Response("failed")]
  /\ UNCHANGED <<index, pc, handle, article, wanted, disturbed>>

\* POST /ingest without recreate.
IngestOnce(r, v) ==
  /\ pc[r] = "idle"
  /\ Open(r, "checking")
  /\ article' = [article EXCEPT ![r] = v]
  /\ reply' = [reply EXCEPT ![r] = Response("none")]
  /\ UNCHANGED <<wanted, disturbed>>

\* Mutant: what is there is added to.
CheckAppending(r) ==
  /\ pc[r] = "checking"
  /\ Alive(r)
  /\ IF chunks = {} THEN Join(r) ELSE Goto(r, "creating") /\ UNCHANGED disturbed
  /\ UNCHANGED <<index, handle, article, wanted, reply>>

\* What is there is kept; an empty collection is rebuilt.
Check(r) ==
  /\ pc[r] = "checking"
  /\ Alive(r)
  /\ IF chunks = {} THEN Join(r) ELSE Goto(r, "reopening") /\ UNCHANGED disturbed
  /\ UNCHANGED <<index, handle, article, wanted, reply>>

Reopen(r) ==
  /\ pc[r] = "reopening"
  /\ Open(r, "recounting")
  /\ UNCHANGED <<article, wanted, reply, disturbed>>

Recount(r) ==
  /\ pc[r] = "recounting"
  /\ Alive(r)
  /\ UNCHANGED index
  /\ Finish(r, Response("kept"))

\* Mutant: only an empty collection is dropped.
DropEmpty(r) ==
  /\ pc[r] = "dropping"
  /\ Goto(r, "creating")
  /\ IF chunks = {} THEN collection' = None ELSE UNCHANGED collection
  /\ UNCHANGED <<chunks, disturbed, handle, article, wanted, reply>>

\* Any exception of delete_collection is suppressed, the ones that mean that
\* the collection is still there too.
Drop(r) ==
  /\ pc[r] = "dropping"
  /\ Goto(r, "creating")
  /\ \/ collection' = None /\ chunks' = {} /\ UNCHANGED disturbed
     \/ collection # None /\ UNCHANGED index /\ disturbed' = disturbed \cup {r}
  /\ UNCHANGED <<handle, article, wanted, reply>>

Create(r) ==
  /\ pc[r] = "creating"
  /\ Open(r, "adding")
  /\ UNCHANGED <<article, wanted, reply, disturbed>>

Store(r) ==
  /\ pc[r] = "adding"
  /\ Alive(r)
  /\ chunks' = Added(ChunksOf(article[r]))
  /\ UNCHANGED collection

\* The chunks are embedded and added in one call.
Add(r) == Store(r) /\ Finish(r, Response("indexed"))

\* They are added, but the answer is lost.
AddUnanswered(r) == Store(r) /\ Finish(r, Response("failed"))

-----------------------------------------------------------------------------
\* What an exception becomes: retrieve and rebuild_collection are called in a
\* try, collection_count in one for the probe but not for an ingestion.
Failure(loc) ==
  CASE loc \in {"counting", "querying"} -> "unavailable"
    [] loc = "probing" -> "not_ready"
    [] loc \in {"checking", "reopening", "recounting"} -> "error"
    [] OTHER -> "failed"

\* Chroma is down, the collection is gone, or the texts cannot be embedded.
Fail(r) ==
  /\ pc[r] \notin {"idle", "dropping"}
  /\ UNCHANGED index
  /\ Finish(r, Response(Failure(pc[r])))

\* The replica dies.
Crash(r) ==
  /\ pc[r] # "idle"
  /\ UNCHANGED index
  /\ Finish(r, Response("none"))

Search(r) == Retrieve(r) \/ Count(r) \/ Query(r) \/ Probe(r) \/ CountProbe(r)

Rebuild(r) ==
  \/ \E v \in Versions : Ingest(r, v) \/ IngestOnce(r, v)
  \/ FetchFails(r) \/ Check(r) \/ Reopen(r) \/ Recount(r)
  \/ Drop(r) \/ Create(r) \/ Add(r) \/ AddUnanswered(r)

Next == \E r \in Replicas : Search(r) \/ Rebuild(r) \/ Fail(r) \/ Crash(r)

Spec == Init /\ [][Next]_vars

-----------------------------------------------------------------------------
\* The variables have their types.
TypeOK ==
  /\ collection \in Handles \cup {None}
  /\ chunks \in SUBSET Chunk /\ IsFiniteSet(chunks)
  /\ pc \in [Replicas -> Locations]
  /\ handle \in [Replicas -> Handles \cup {None}]
  /\ article \in [Replicas -> Versions \cup {None}]
  /\ wanted \in [Replicas -> 0..TopK]
  /\ reply \in [Replicas -> [type : ResponseTypes, found : SUBSET Chunk]]
  /\ disturbed \in SUBSET Replicas

\* vectorstore: a retrieval fails rather than find nothing, although the
\* collection may be dropped and filled again between its count and its query.
SearchFindsSomething ==
  \A r \in Replicas : reply[r].type = "chunks" => reply[r].found # {}

\* Nobody is told ok of an index that a rebuild it met no other in did not
\* make exactly the article's, whatever crashed, failed or was lost before.
UndisturbedIngestIsExact ==
  [][\A r \in Replicas \ disturbed :
       (pc[r] = "adding" /\ reply'[r].type = "indexed")
         => chunks' = ChunksOf(article[r])]_vars

Pure == \E v \in Versions : chunks \subseteq ChunksOf(v)

\* Only ingestions that overlap, or one whose drop failed, mix the chunks of
\* two articles in one index; a crash or a lost answer never does.
OnlyDisturbedIngestsMix ==
  [][(Pure /\ ~Pure') => \E r \in disturbed : pc[r] = "adding"]_vars

\* rebuild_collection: drop and repopulate the collection from the chunks.
DropsAndRepopulates ==
  [][\A r \in Replicas :
       (pc[r] = "adding" /\ reply'[r].type = "indexed")
         => chunks' = ChunksOf(article[r])]_vars
=============================================================================
