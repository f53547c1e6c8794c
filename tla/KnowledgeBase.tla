---------------------------- MODULE KnowledgeBase ----------------------------
(***************************************************************************)
(* The documents of one knowledge base: LocalKnowledgeService stores the   *)
(* chunks of a document, then embeds them batch by batch, awaiting the     *)
(* embedding service before each write of vectors.                         *)
(*                                                                         *)
(* Nothing serialises the requests: an upload, the reindex of a document,  *)
(* the reindex of the collection and a deletion meet between two batches.  *)
(* A stretch of code between two awaits is one action.                     *)
(***************************************************************************)
EXTENDS Naturals, FiniteSets

CONSTANTS
  MaxDocs,     \* documents ever uploaded; their order is that of their ids
  MaxChunks,   \* bound on the chunks of a document
  Batch,       \* rows per call of the embedding service (32)
  Tasks        \* requests that await the embedding service

ASSUME BoundsOk == {MaxDocs, MaxChunks, Batch} \subseteq Nat \ {0}

VARIABLES
  config,   \* the embedding configuration a request would resolve now
  status,   \* knowledge_documents
  chunks,   \* knowledge_chunks: how many each document has
  vectors,  \* knowledge_embeddings, by the chunk they are of
  task,     \* what each request still has to embed
  blurred   \* history: why a document's vectors may not match its status

documents == <<status, chunks, vectors>>
vars == <<config, documents, task, blurred>>

Docs == 1 .. MaxDocs
Chunk == Docs \X (1 .. MaxChunks)
Exists(d) == status[d] \in {"indexing", "ready", "failed"}

Idle == [scope |-> {}, rows |-> {}]
WorksOn(t, d) == d \in task[t].scope
Contested(t, docs) == {d \in docs : \E o \in Tasks \ {t} : WorksOn(o, d)}

-----------------------------------------------------------------------------
(* The stores. *)

\* Mutant: the chunks are counted from 0.
RowsFromZero(d, count) == {<<d, i - 1>> : i \in 1 .. count}

\* listChunkRowsForDocument
RowsOf(d, count) == {<<d, i>> : i \in 1 .. count}

\* listChunkRows
AllRows == UNION {RowsOf(d, chunks[d]) : d \in Docs}

\* ORDER BY document_id, chunk_index, in which the rows are embedded.
Before(r, s) == r[1] < s[1] \/ (r[1] = s[1] /\ r[2] < s[2])

\* clearDocument, clearCollection.
Without(docs) == {v \in vectors : v[1] \notin docs}

\* The UPDATEs find no row of a document that was deleted.
Marked(docs, s) == [d \in Docs |-> IF d \in docs /\ Exists(d) THEN s ELSE status[d]]

-----------------------------------------------------------------------------
(* Requests. *)

\* The rows of the next call, and what indexRows has left after it.
NextBatch(rows) == {r \in rows : Cardinality({s \in rows : Before(s, r)}) < Batch}
Rest(rows) == rows \ NextBatch(rows)

\* A request of its own starts from cleared vectors; one that meets another
\* request on a document blurs it.
Blur(t, docs) ==
  blurred' = [d \in Docs |->
    IF d \in Contested(t, docs) THEN "contested" ELSE IF d \in docs THEN "no" ELSE blurred[d]]

\* The request awaits its first batch; with nothing to embed it is done.
Index(t, scope, rows) ==
  IF config = "keyed" /\ rows # {}
    THEN task' = [task EXCEPT ![t] = [scope |-> scope, rows |-> rows]] /\ UNCHANGED status
    ELSE status' = Marked(scope, "ready") /\ UNCHANGED task

\* ingestText: the id is new.  A configuration whose secret cannot be read
\* throws once the rows are there, outside the try.
Ingest(t, d, count) ==
  /\ task[t] = Idle /\ status[d] = "none"
  /\ chunks' = [chunks EXCEPT ![d] = count]
  /\ blurred' = [blurred EXCEPT ![d] = IF Contested(t, {d}) = {} THEN "no" ELSE "contested"]
  /\ IF config = "keyed"
       THEN status' = [status EXCEPT ![d] = "indexing"]
            /\ task' = [task EXCEPT ![t] = [scope |-> {d}, rows |-> RowsOf(d, count)]]
       ELSE status' = [status EXCEPT ![d] = IF config = "none" THEN "ready" ELSE "indexing"]
            /\ UNCHANGED task
  /\ UNCHANGED <<config, vectors>>

\* reindexDocument: the status stays what it is until the end.
ReindexDocument(t, d) ==
  /\ task[t] = Idle /\ Exists(d) /\ config # "unreadable"
  /\ vectors' = Without({d})
  /\ Index(t, {d}, RowsOf(d, chunks[d])) /\ Blur(t, {d})
  /\ UNCHANGED <<config, chunks>>

\* reindex: its end speaks for every document of the collection, those that
\* came after its rows were listed included.
Reindex(t) ==
  /\ task[t] = Idle /\ config # "unreadable"
  /\ vectors' = {}
  /\ Index(t, Docs, AllRows) /\ Blur(t, Docs)
  /\ UNCHANGED <<config, chunks>>

\* Mutant: the partial vectors of a request that fails are left.
AbortKeeping(t) ==
  /\ UNCHANGED vectors
  /\ status' = Marked(task[t].scope, "failed")
  /\ task' = [task EXCEPT ![t] = Idle]

\* The request ends in its catch: vectors cleared, documents failed.
Abort(t) ==
  /\ vectors' = Without(task[t].scope)
  /\ status' = Marked(task[t].scope, "failed")
  /\ task' = [task EXCEPT ![t] = Idle]

\* The service answers: upsertRows inserts the batch, which throws at a chunk
\* that has a vector already; after the last batch the documents are ready.
Embedded(t) ==
  LET rows == task[t].rows IN
  /\ task[t] # Idle
  /\ IF NextBatch(rows) \cap vectors # {} THEN Abort(t)
     ELSE /\ vectors' = vectors \cup NextBatch(rows)
          /\ IF Rest(rows) = {}
               THEN status' = Marked(task[t].scope, "ready") /\ task' = [task EXCEPT ![t] = Idle]
               ELSE task' = [task EXCEPT ![t].rows = Rest(rows)] /\ UNCHANGED status
  /\ UNCHANGED <<config, chunks, blurred>>

\* The service fails, or answers with too few vectors.
EmbeddingFails(t) ==
  /\ task[t] # Idle /\ Abort(t)
  /\ UNCHANGED <<config, chunks, blurred>>

\* Documents and all that is stored of them go, whoever is at work on them.
Drop(docs) ==
  /\ vectors' = Without(docs)
  /\ chunks' = [d \in Docs |-> IF d \in docs THEN 0 ELSE chunks[d]]
  /\ status' = [d \in Docs |-> IF d \in docs /\ Exists(d) THEN "deleted" ELSE status[d]]
  /\ blurred' = [d \in Docs |->
       IF d \notin docs THEN blurred[d]
       ELSE IF \E t \in Tasks : WorksOn(t, d) THEN "contested" ELSE "no"]
  /\ UNCHANGED <<config, task>>

DeleteDocument(d) == Exists(d) /\ Drop({d})

\* The knowledge base itself is deleted; uploads already admitted go on, and a
\* new base may take its id.
DeleteBase == Drop(Docs)

\* The resource is patched, or its secret becomes unreadable.
Configure(c) == config' = c /\ UNCHANGED <<documents, task, blurred>>

\* The process stops; nothing at the next start looks at the documents.
Crash ==
  /\ task' = [t \in Tasks |-> Idle]
  /\ blurred' = [d \in Docs |-> IF \E t \in Tasks : WorksOn(t, d) THEN "interrupted" ELSE blurred[d]]
  /\ UNCHANGED <<config, documents>>

-----------------------------------------------------------------------------
Init ==
  /\ config \in {"none", "keyed"}
  /\ status = [d \in Docs |-> "none"] /\ chunks = [d \in Docs |-> 0] /\ vectors = {}
  /\ task = [t \in Tasks |-> Idle] /\ blurred = [d \in Docs |-> "no"]

Answered(t) == Embedded(t) \/ EmbeddingFails(t)

Next ==
  \/ \E t \in Tasks :
       \/ \E d \in Docs, count \in 1 .. MaxChunks : Ingest(t, d, count)
       \/ \E d \in Docs : ReindexDocument(t, d)
       \/ Reindex(t) \/ Answered(t)
  \/ \E d \in Docs : DeleteDocument(d)
  \/ DeleteBase \/ Crash
  \/ \E c \in {"none", "keyed", "unreadable"} : Configure(c)

Spec == Init /\ [][Next]_vars

-----------------------------------------------------------------------------
\* Every variable stays in its type.
TypeOK ==
  /\ config \in {"none", "keyed", "unreadable"}
  /\ status \in [Docs -> {"none", "indexing", "ready", "failed", "deleted"}]
  /\ chunks \in [Docs -> 0 .. MaxChunks] /\ vectors \subseteq Chunk
  /\ task \in [Tasks -> [scope : SUBSET Docs, rows : SUBSET Chunk]]
  /\ blurred \in [Docs -> {"no", "contested", "interrupted"}]

\* "So status matches vector state": what the store says of a document agrees
\* with its vectors once nobody works on it.  A failed document has none, in
\* whatever order requests failed, collided or finished; a document that no two
\* requests worked on at once, and no crash interrupted, has none or all when
\* it is ready, and none when it is gone.
StatusMatchesVectors ==
  \A d \in Docs : (\A t \in Tasks : ~WorksOn(t, d)) =>
    LET stored == {v \in vectors : v[1] = d} IN
    /\ status[d] = "failed" => stored = {} \/ blurred[d] = "interrupted"
    /\ blurred[d] = "no" =>
         /\ status[d] = "ready" => stored \in {{}, RowsOf(d, chunks[d])}
         /\ status[d] \in {"none", "deleted"} => stored = {}

\* "Hard-delete one document and cascade clear chunks/FTS + embeddings [...] so
\* list/search cannot resurface it": search reads the vectors alone.
DeletedIsGone == \A d \in Docs : status[d] = "deleted" => \A v \in vectors : v[1] # d

\* "So status matches vector state", of a ready document too: no crash came
\* between, no request works on it, and it has none of its vectors or all.
ReadyMatchesVectors ==
  \A d \in Docs :
    status[d] = "ready" /\ blurred[d] # "interrupted" /\ (\A t \in Tasks : ~WorksOn(t, d)) =>
      {v \in vectors : v[1] = d} \in {{}, RowsOf(d, chunks[d])}
=============================================================================
