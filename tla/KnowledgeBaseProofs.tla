------------------------ MODULE KnowledgeBaseProofs ------------------------
(***************************************************************************)
(* What KnowledgeBase keeps for any number of documents, chunks, requests  *)
(* and any batch.                                                          *)
(*                                                                         *)
(* The documents are proved one by one: a step concerns a document as the  *)
(* request that begins, goes on or ends on it, as its deletion, or not at  *)
(* all.                                                                    *)
(***************************************************************************)
EXTENDS KnowledgeBase, TLAPS

Stored(d)  == {v \in vectors : v[1] = d}
Left(t, d) == {r \in task[t].rows : r[1] = d}
Rests(d)   == \A t \in Tasks : ~WorksOn(t, d)

\* A request embeds chunks of its documents only.
RowsInScope == \A t \in Tasks : \A r \in task[t].rows : r[1] \in task[t].scope

\* Nothing is stored of a document that is not there, nor awaited of one that
\* has never been.
GoneOk(d) ==
  /\ ~Exists(d) => chunks[d] = 0
  /\ status[d] = "none" => Stored(d) = {} /\ \A t \in Tasks : Left(t, d) = {}

FailedOk(d) == Rests(d) /\ status[d] = "failed" => Stored(d) = {} \/ blurred[d] = "interrupted"

\* The one request on a document has stored all it no longer awaits.
WorkOk(d) ==
  blurred[d] = "no" => \A t \in Tasks : WorksOn(t, d) =>
    /\ \A o \in Tasks : WorksOn(o, d) => o = t
    /\ Stored(d) \cup Left(t, d) = RowsOf(d, chunks[d])

RestOk(d) ==
  blurred[d] = "no" /\ Rests(d) =>
    /\ status[d] = "ready" => Stored(d) \in {{}, RowsOf(d, chunks[d])}
    /\ ~Exists(d) => Stored(d) = {}

DocOk(d) == GoneOk(d) /\ FailedOk(d) /\ WorkOk(d) /\ RestOk(d)

KInv == TypeOK /\ RowsInScope /\ \A d \in Docs : DocOk(d)

-----------------------------------------------------------------------------
(* The stores. *)

LEMMA RowsOfType ==
  ASSUME NEW d \in Docs, NEW n \in 0 .. MaxChunks
  PROVE  /\ RowsOf(d, n) \subseteq Chunk
         /\ \A r \in RowsOf(d, n) : r[1] = d
         /\ n = 0 => RowsOf(d, n) = {}
BY BoundsOk DEF RowsOf, Chunk

LEMMA WithoutStored ==
  ASSUME NEW docs, vectors' = Without(docs), NEW d
  PROVE  Stored(d)' = IF d \in docs THEN {} ELSE Stored(d)
BY DEF Without, Stored

LEMMA MarkedAt ==
  ASSUME NEW docs, NEW s, NEW d \in Docs
  PROVE  Marked(docs, s)[d] = IF d \in docs /\ Exists(d) THEN s ELSE status[d]
BY DEF Marked

\* Every row awaited is stored by the batch or left.
LEMMA BatchSplits ==
  ASSUME NEW rows
  PROVE  /\ NextBatch(rows) \subseteq rows
         /\ Rest(rows) = rows \ NextBatch(rows)
BY DEF NextBatch, Rest

-----------------------------------------------------------------------------
(* A document under the steps that concern it. *)

\* None.
LEMMA DocUntouched ==
  ASSUME NEW d \in Docs, DocOk(d),
         status'[d] = status[d], chunks'[d] = chunks[d], blurred'[d] = blurred[d],
         Stored(d)' = Stored(d),
         \A t \in Tasks : (WorksOn(t, d)' <=> WorksOn(t, d)) /\ Left(t, d)' = Left(t, d)
  PROVE  DocOk(d)'
BY DEF DocOk, GoneOk, FailedOk, WorkOk, RestOk, Rests, Exists

\* A request begins on it, which has nothing stored then.
Begins(t, d) ==
  /\ ~Exists(d)' => chunks'[d] = 0
  /\ status'[d] = "none" => status[d] = "none"
  /\ chunks'[d] \in 0 .. MaxChunks
  /\ Stored(d)' = {}
  /\ blurred'[d] = "no" => \A o \in Tasks \ {t} : ~WorksOn(o, d)
  /\ \A o \in Tasks \ {t} : task'[o] = task[o]
  /\ \/ WorksOn(t, d)' /\ Left(t, d)' = RowsOf(d, chunks'[d])
     \/ task'[t] = Idle

LEMMA DocBegun ==
  ASSUME NEW t \in Tasks, NEW d \in Docs, DocOk(d), Begins(t, d)
  PROVE  DocOk(d)'
<1>1. \A o \in Tasks \ {t} : (WorksOn(o, d)' <=> WorksOn(o, d)) /\ Left(o, d)' = Left(o, d)
  BY DEF Begins, WorksOn, Left
<1>2. \/ WorksOn(t, d)' /\ Left(t, d)' = RowsOf(d, chunks'[d])
      \/ ~WorksOn(t, d)' /\ Left(t, d)' = {}
  BY DEF Begins, WorksOn, Left, Idle
<1>3. GoneOk(d)'
  <2>1. SUFFICES ASSUME status'[d] = "none" PROVE \A o \in Tasks : Left(o, d)' = {}
    BY DEF GoneOk, Begins
  <2>2. \A o \in Tasks \ {t} : Left(o, d)' = {}
    BY <1>1, <2>1 DEF Begins, DocOk, GoneOk
  <2>3. chunks'[d] = 0
    BY <2>1 DEF Begins, Exists
  <2>4. Left(t, d)' = {}
    BY <1>2, <2>3, RowsOfType DEF Begins
  <2> QED
    BY <2>2, <2>4
<1>4. FailedOk(d)' /\ RestOk(d)'
  BY DEF Begins, FailedOk, RestOk
<1>5. WorkOk(d)'
  <2> SUFFICES ASSUME blurred'[d] = "no", NEW o \in Tasks, WorksOn(o, d)'
               PROVE  /\ \A x \in Tasks : WorksOn(x, d)' => x = o
                      /\ Stored(d)' \cup Left(o, d)' = RowsOf(d, chunks'[d])
    BY DEF WorkOk
  <2>1. \A x \in Tasks : WorksOn(x, d)' => x = t
    BY <1>1 DEF Begins
  <2>2. o = t
    BY <2>1
  <2>3. Left(t, d)' = RowsOf(d, chunks'[d])
    BY <1>2, <2>2
  <2> QED
    BY <2>1, <2>2, <2>3 DEF Begins
<1> QED
  BY <1>3, <1>4, <1>5 DEF DocOk

\* The request on it ends: failed and cleared, or ready with all it awaited.
Ends(t, d) ==
  /\ chunks'[d] = chunks[d] /\ blurred'[d] = blurred[d]
  /\ task'[t] = Idle /\ \A o \in Tasks \ {t} : task'[o] = task[o]
  /\ \/ Stored(d)' = {} /\ status'[d] = IF Exists(d) THEN "failed" ELSE status[d]
     \/ Stored(d)' = Stored(d) \cup Left(t, d) /\ status'[d] = IF Exists(d) THEN "ready" ELSE status[d]

LEMMA DocEnded ==
  ASSUME NEW t \in Tasks, NEW d \in Docs, DocOk(d), chunks[d] \in 0 .. MaxChunks,
         WorksOn(t, d), Ends(t, d)
  PROVE  DocOk(d)'
<1>1. \A o \in Tasks \ {t} : (WorksOn(o, d)' <=> WorksOn(o, d)) /\ Left(o, d)' = Left(o, d)
  BY DEF Ends, WorksOn, Left
<1>2. ~WorksOn(t, d)' /\ Left(t, d)' = {}
  BY DEF Ends, WorksOn, Left, Idle
<1>3. Exists(d)' <=> Exists(d)
  BY DEF Ends, Exists
<1>4. GoneOk(d)'
  <2>1. chunks'[d] = chunks[d] /\ (~Exists(d) => chunks[d] = 0)
    BY DEF Ends, DocOk, GoneOk
  <2>2. ASSUME status'[d] = "none" PROVE Stored(d)' = {} /\ \A o \in Tasks : Left(o, d)' = {}
    <3>1. status[d] = "none"
      BY <2>2 DEF Ends, Exists
    <3>2. Stored(d) = {} /\ \A o \in Tasks : Left(o, d) = {}
      BY <3>1 DEF DocOk, GoneOk
    <3> QED
      BY <1>1, <1>2, <3>2 DEF Ends
  <2> QED
    BY <1>3, <2>1, <2>2 DEF GoneOk
<1>5. FailedOk(d)'
  BY DEF FailedOk, Ends, Exists
<1>6. WorkOk(d)'
  BY <1>1, <1>2 DEF WorkOk, DocOk, Ends
<1>7. RestOk(d)'
  <2> SUFFICES ASSUME blurred[d] = "no"
               PROVE  /\ status'[d] = "ready" => Stored(d)' \in {{}, RowsOf(d, chunks[d])}
                      /\ ~Exists(d) => Stored(d)' = {}
    BY <1>3 DEF RestOk, Ends
  <2>1. Stored(d) \cup Left(t, d) = RowsOf(d, chunks[d])
    BY DEF DocOk, WorkOk
  <2>2. Stored(d)' \in {{}, RowsOf(d, chunks[d])}
    BY <2>1 DEF Ends
  <2>3. ~Exists(d) => RowsOf(d, chunks[d]) = {}
    BY RowsOfType DEF DocOk, GoneOk
  <2> QED
    BY <2>2, <2>3
<1> QED
  BY <1>4, <1>5, <1>6, <1>7 DEF DocOk

\* The request on it goes on.
GoesOn(t, d) ==
  /\ status'[d] = status[d] /\ chunks'[d] = chunks[d] /\ blurred'[d] = blurred[d]
  /\ WorksOn(t, d)' /\ \A o \in Tasks \ {t} : task'[o] = task[o]
  /\ Stored(d)' \cup Left(t, d)' = Stored(d) \cup Left(t, d)

LEMMA DocGoesOn ==
  ASSUME NEW t \in Tasks, NEW d \in Docs, DocOk(d), WorksOn(t, d), GoesOn(t, d)
  PROVE  DocOk(d)'
<1>1. \A o \in Tasks \ {t} : (WorksOn(o, d)' <=> WorksOn(o, d)) /\ Left(o, d)' = Left(o, d)
  BY DEF GoesOn, WorksOn, Left
<1>2. GoneOk(d)'
  <2>1. ~Exists(d)' => chunks'[d] = 0
    BY DEF GoesOn, Exists, DocOk, GoneOk
  <2>2. ASSUME status'[d] = "none" PROVE Stored(d)' = {} /\ \A o \in Tasks : Left(o, d)' = {}
    <3>1. Stored(d) = {} /\ \A o \in Tasks : Left(o, d) = {}
      BY <2>2 DEF GoesOn, DocOk, GoneOk
    <3>2. Stored(d)' \cup Left(t, d)' = {}
      BY <3>1 DEF GoesOn
    <3> QED
      BY <1>1, <3>1, <3>2
  <2> QED
    BY <2>1, <2>2 DEF GoneOk
<1>3. FailedOk(d)' /\ RestOk(d)'
  BY DEF FailedOk, RestOk, Rests, GoesOn
<1>4. WorkOk(d)'
  <2> SUFFICES ASSUME blurred[d] = "no", NEW o \in Tasks, WorksOn(o, d)'
               PROVE  /\ \A x \in Tasks : WorksOn(x, d)' => x = o
                      /\ Stored(d)' \cup Left(o, d)' = RowsOf(d, chunks[d])
    BY DEF WorkOk, GoesOn
  <2>1. \A x \in Tasks : WorksOn(x, d)' => x = t
    BY <1>1 DEF DocOk, WorkOk
  <2>2. o = t
    BY <2>1
  <2>3. Stored(d) \cup Left(t, d) = RowsOf(d, chunks[d])
    BY DEF DocOk, WorkOk
  <2> QED
    BY <2>1, <2>2, <2>3 DEF GoesOn
<1> QED
  BY <1>2, <1>3, <1>4 DEF DocOk

\* It is deleted.
LEMMA DocDropped ==
  ASSUME NEW docs, KInv, Drop(docs), NEW d \in Docs, d \in docs
  PROVE  DocOk(d)'
<1>1. /\ Stored(d)' = {} /\ chunks'[d] = 0 /\ UNCHANGED task
      /\ status'[d] = IF Exists(d) THEN "deleted" ELSE status[d]
      /\ blurred'[d] = "no" => Rests(d)
  BY WithoutStored DEF Drop, Rests
<1>2. \A t \in Tasks : (WorksOn(t, d)' <=> WorksOn(t, d)) /\ Left(t, d)' = Left(t, d)
  BY <1>1 DEF WorksOn, Left
<1>3. GoneOk(d)'
  BY <1>1, <1>2 DEF GoneOk, KInv, DocOk, Exists
<1> QED
  BY <1>1, <1>2, <1>3 DEF DocOk, FailedOk, RestOk, WorkOk, Rests

-----------------------------------------------------------------------------
(* The steps. *)

\* The request of t is all that changes of the requests.
Own(t) == \A o \in Tasks \ {t} : task'[o] = task[o]

\* What a document has when a step leaves its stores and its requests.
LEMMA DocAside ==
  ASSUME KInv, RowsInScope', NEW t \in Tasks, Own(t), NEW d \in Docs, ~WorksOn(t, d), ~WorksOn(t, d)',
         status'[d] = status[d], chunks'[d] = chunks[d], blurred'[d] = blurred[d], Stored(d)' = Stored(d)
  PROVE  DocOk(d)'
<1>1. Left(t, d) = {} /\ Left(t, d)' = {}
  BY DEF KInv, RowsInScope, Left, WorksOn
<1>2. \A o \in Tasks : (WorksOn(o, d)' <=> WorksOn(o, d)) /\ Left(o, d)' = Left(o, d)
  <2>1. \A o \in Tasks \ {t} : (WorksOn(o, d)' <=> WorksOn(o, d)) /\ Left(o, d)' = Left(o, d)
    BY DEF Own, WorksOn, Left
  <2> QED
    BY <1>1, <2>1
<1> QED
  BY <1>2, DocUntouched DEF KInv

\* The embedding of docs begins, or has nothing to do.
LEMMA Indexed ==
  ASSUME KInv, NEW t \in Tasks, task[t] = Idle,
         NEW docs \in SUBSET Docs, docs # {},
         vectors' = Without(docs),
         Index(t, docs, UNION {RowsOf(d, chunks[d]) : d \in docs}), Blur(t, docs), UNCHANGED <<config, chunks>>
  PROVE  KInv'
<1> DEFINE rows == UNION {RowsOf(d, chunks[d]) : d \in docs}
<1>0. TypeOK /\ \A d \in Docs : chunks[d] \in 0 .. MaxChunks
  BY DEF KInv, TypeOK
<1>1. rows \subseteq Chunk /\ \A r \in rows : r[1] \in docs
  BY <1>0, RowsOfType
<1>2. \A d \in docs : {r \in rows : r[1] = d} = RowsOf(d, chunks[d])
  BY <1>0, RowsOfType
<1> HIDE DEF rows
<1>3. /\ Own(t)
      /\ \/ task'[t] = [scope |-> docs, rows |-> rows] /\ UNCHANGED status
         \/ task'[t] = Idle /\ UNCHANGED task /\ status' = Marked(docs, "ready")
  BY <1>0 DEF Index, Own, TypeOK, rows
<1>4. \A d \in Docs : blurred'[d] = IF d \in Contested(t, docs) THEN "contested"
                                    ELSE IF d \in docs THEN "no" ELSE blurred[d]
  BY DEF Blur
<1>5. TypeOK'
  <2>1. status' \in [Docs -> {"none", "indexing", "ready", "failed", "deleted"}]
    BY <1>0, <1>3 DEF TypeOK, Marked
  <2>2. blurred' \in [Docs -> {"no", "contested", "interrupted"}]
    BY <1>0 DEF Blur, TypeOK
  <2>3. vectors' \subseteq Chunk
    BY <1>0 DEF Without, TypeOK
  <2>4. task' \in [Tasks -> [scope : SUBSET Docs, rows : SUBSET Chunk]]
    <3>1. [scope |-> docs, rows |-> rows] \in [scope : SUBSET Docs, rows : SUBSET Chunk]
      BY <1>1
    <3> QED
      BY <1>0, <3>1 DEF Index, TypeOK, rows
  <2> QED
    BY <1>0, <2>1, <2>2, <2>3, <2>4 DEF TypeOK
<1>6. RowsInScope'
  <2>1. \A r \in task'[t].rows : r[1] \in task'[t].scope
    BY <1>1, <1>3 DEF Idle
  <2> QED
    BY <1>3, <2>1 DEF RowsInScope, KInv, Own
<1>7. ASSUME NEW d \in docs PROVE DocOk(d)'
  <2>1. \/ WorksOn(t, d)' /\ Left(t, d)' = RowsOf(d, chunks[d])
        \/ task'[t] = Idle
    BY <1>2, <1>3 DEF WorksOn, Left
  <2>2. status'[d] = status[d] \/ (Exists(d) /\ status'[d] = "ready")
    BY <1>3, MarkedAt
  <2>3. ~Exists(d) => chunks[d] = 0
    BY DEF KInv, DocOk, GoneOk
  <2>4. (~Exists(d)' => chunks'[d] = 0) /\ (status'[d] = "none" => status[d] = "none")
    BY <2>2, <2>3 DEF Exists
  <2>5. Stored(d)' = {}
    BY WithoutStored
  <2>6. blurred'[d] = "no" => \A o \in Tasks \ {t} : ~WorksOn(o, d)
    BY <1>4 DEF Contested
  <2>7. Begins(t, d)
    BY <1>0, <1>3, <2>1, <2>4, <2>5, <2>6 DEF Begins, Own
  <2> QED
    BY <2>7, DocBegun DEF KInv
<1>8. ASSUME NEW d \in Docs \ docs PROVE DocOk(d)'
  <2>1. status'[d] = status[d] /\ blurred'[d] = blurred[d] /\ Stored(d)' = Stored(d) /\ chunks'[d] = chunks[d]
    BY <1>3, <1>4, MarkedAt, WithoutStored DEF Contested
  <2>2. ~WorksOn(t, d) /\ ~WorksOn(t, d)'
    BY <1>3 DEF WorksOn, Idle
  <2> QED
    BY <1>3, <1>6, <2>1, <2>2, DocAside
<1> QED
  BY <1>5, <1>6, <1>7, <1>8 DEF KInv

LEMMA IngestKeeps ==
  ASSUME KInv, NEW t \in Tasks, NEW d \in Docs, NEW count \in 1 .. MaxChunks, Ingest(t, d, count)
  PROVE  KInv'
<1>0. TypeOK /\ count \in 0 .. MaxChunks /\ status[d] = "none" /\ task[t] = Idle
  BY BoundsOk DEF KInv, Ingest
<1>1. RowsOf(d, count) \subseteq Chunk /\ \A r \in RowsOf(d, count) : r[1] = d
  BY <1>0, RowsOfType
<1>2. /\ Own(t)
      /\ task'[t] = [scope |-> {d}, rows |-> RowsOf(d, count)] \/ task'[t] = Idle
  BY <1>0 DEF Ingest, Own, TypeOK
<1>3. /\ chunks' = [chunks EXCEPT ![d] = count]
      /\ blurred' = [blurred EXCEPT ![d] = IF Contested(t, {d}) = {} THEN "no" ELSE "contested"]
      /\ UNCHANGED <<config, vectors>>
  BY DEF Ingest
<1>4. PICK s \in {"indexing", "ready"} : status' = [status EXCEPT ![d] = s]
  BY DEF Ingest
<1>5. TypeOK'
  <2>1. task' \in [Tasks -> [scope : SUBSET Docs, rows : SUBSET Chunk]]
    <3>1. [scope |-> {d}, rows |-> RowsOf(d, count)] \in [scope : SUBSET Docs, rows : SUBSET Chunk]
      BY <1>1
    <3> QED
      BY <1>0, <3>1 DEF Ingest, TypeOK
  <2> QED
    BY <1>0, <1>3, <1>4, <2>1 DEF TypeOK
<1>6. RowsInScope'
  <2>1. \A r \in task'[t].rows : r[1] \in task'[t].scope
    BY <1>1, <1>2 DEF Idle
  <2> QED
    BY <1>2, <2>1 DEF RowsInScope, KInv, Own
<1>7. DocOk(d)'
  <2>1. status'[d] = s /\ chunks'[d] = count
    BY <1>0, <1>3, <1>4 DEF TypeOK
  <2>2. \/ WorksOn(t, d)' /\ Left(t, d)' = RowsOf(d, count)
        \/ task'[t] = Idle
    BY <1>1, <1>2 DEF WorksOn, Left
  <2>3. Stored(d)' = {}
    BY <1>0, <1>3 DEF KInv, DocOk, GoneOk, Stored
  <2>4. blurred'[d] = "no" => \A o \in Tasks \ {t} : ~WorksOn(o, d)
    BY <1>0, <1>3 DEF Contested, TypeOK
  <2>5. Begins(t, d)
    BY <1>0, <1>2, <2>1, <2>2, <2>3, <2>4 DEF Begins, Own, Exists
  <2> QED
    BY <2>5, DocBegun DEF KInv
<1>8. ASSUME NEW x \in Docs \ {d} PROVE DocOk(x)'
  <2>1. status'[x] = status[x] /\ blurred'[x] = blurred[x] /\ Stored(x)' = Stored(x) /\ chunks'[x] = chunks[x]
    BY <1>0, <1>3, <1>4 DEF TypeOK, Stored
  <2>2. ~WorksOn(t, x) /\ ~WorksOn(t, x)'
    BY <1>0, <1>2 DEF WorksOn, Idle
  <2> QED
    BY <1>2, <1>6, <2>1, <2>2, DocAside
<1> QED
  BY <1>5, <1>6, <1>7, <1>8 DEF KInv

\* A request that fails clears what it works on.
LEMMA AbortKeeps ==
  ASSUME KInv, NEW t \in Tasks, Abort(t), UNCHANGED <<config, chunks, blurred>>
  PROVE  KInv'
<1>0. TypeOK
  BY DEF KInv
<1>1. Own(t) /\ task'[t] = Idle
  BY <1>0 DEF Abort, Own, TypeOK
<1>2. TypeOK'
  <2>1. status' \in [Docs -> {"none", "indexing", "ready", "failed", "deleted"}]
    BY <1>0 DEF Abort, Marked, TypeOK
  <2>2. vectors' \subseteq Chunk
    BY <1>0 DEF Abort, Without, TypeOK
  <2>3. task' \in [Tasks -> [scope : SUBSET Docs, rows : SUBSET Chunk]]
    BY <1>0 DEF Abort, Idle, TypeOK
  <2> QED
    BY <1>0, <2>1, <2>2, <2>3 DEF TypeOK
<1>3. RowsInScope'
  <2>1. task'[t].rows = {}
    BY <1>1 DEF Idle
  <2> QED
    BY <1>1, <2>1 DEF RowsInScope, KInv, Own
<1>4. ASSUME NEW d \in Docs, WorksOn(t, d) PROVE DocOk(d)'
  <2>1. Stored(d)' = {}
    BY <1>4, WithoutStored DEF Abort, WorksOn
  <2>2. status'[d] = IF Exists(d) THEN "failed" ELSE status[d]
    BY <1>4, MarkedAt DEF Abort, WorksOn
  <2>3. Ends(t, d)
    BY <1>1, <2>1, <2>2 DEF Ends, Own
  <2> QED
    BY <1>0, <1>4, <2>3, DocEnded DEF KInv, TypeOK
<1>5. ASSUME NEW d \in Docs, ~WorksOn(t, d) PROVE DocOk(d)'
  <2>1. Stored(d)' = Stored(d) /\ status'[d] = status[d]
    BY <1>5, WithoutStored, MarkedAt DEF Abort, WorksOn
  <2>2. ~WorksOn(t, d)'
    BY <1>1 DEF WorksOn, Idle
  <2> QED
    BY <1>1, <1>3, <1>5, <2>1, <2>2, DocAside
<1> QED
  BY <1>2, <1>3, <1>4, <1>5 DEF KInv

\* A batch is stored: what it stores is no longer awaited.
LEMMA EmbeddedKeeps ==
  ASSUME KInv, NEW t \in Tasks, Embedded(t)
  PROVE  KInv'
<1> DEFINE rows  == task[t].rows
           batch == NextBatch(rows)
           rest  == Rest(rows)
<1>0. /\ TypeOK /\ UNCHANGED <<config, chunks, blurred>>
      /\ rows \subseteq Chunk /\ \A r \in rows : r[1] \in task[t].scope
  BY DEF KInv, TypeOK, Embedded, RowsInScope
<1>1. batch \subseteq rows /\ rest = rows \ batch
  BY BatchSplits
<1>2. \/ Abort(t)
      \/ /\ vectors' = vectors \cup batch /\ rest = {}
         /\ status' = Marked(task[t].scope, "ready") /\ task' = [task EXCEPT ![t] = Idle]
      \/ /\ vectors' = vectors \cup batch
         /\ task' = [task EXCEPT ![t].rows = rest] /\ UNCHANGED status
  BY DEF Embedded
<1> HIDE DEF batch, rest
<1>3. CASE Abort(t)
  BY <1>0, <1>3, AbortKeeps
<1>4. ASSUME vectors' = vectors \cup batch
      PROVE  /\ vectors' \subseteq Chunk
             /\ \A d \in Docs : ~WorksOn(t, d) => Stored(d)' = Stored(d)
             /\ \A d \in Docs : Stored(d)' \cup {r \in rest : r[1] = d} = Stored(d) \cup Left(t, d)
  <2>1. \A d \in Docs : {r \in batch : r[1] = d} \cup {r \in rest : r[1] = d} = Left(t, d)
    BY <1>1 DEF Left
  <2>2. \A d \in Docs : Stored(d)' = Stored(d) \cup {r \in batch : r[1] = d}
    BY <1>4 DEF Stored
  <2>3. \A d \in Docs : ~WorksOn(t, d) => {r \in batch : r[1] = d} = {}
    BY <1>0, <1>1 DEF WorksOn
  <2>4. vectors' \subseteq Chunk
    BY <1>0, <1>1, <1>4 DEF TypeOK
  <2> QED
    BY <2>1, <2>2, <2>3, <2>4
<1>5. CASE /\ vectors' = vectors \cup batch /\ rest = {}
           /\ status' = Marked(task[t].scope, "ready") /\ task' = [task EXCEPT ![t] = Idle]
  <2>1. Own(t) /\ task'[t] = Idle
    BY <1>0, <1>5 DEF Own, TypeOK
  <2>2. TypeOK'
    <3>1. status' \in [Docs -> {"none", "indexing", "ready", "failed", "deleted"}]
      BY <1>0, <1>5 DEF Marked, TypeOK
    <3>2. task' \in [Tasks -> [scope : SUBSET Docs, rows : SUBSET Chunk]]
      BY <1>0, <1>5 DEF Idle, TypeOK
    <3> QED
      BY <1>0, <1>4, <1>5, <3>1, <3>2 DEF TypeOK
  <2>3. RowsInScope'
    <3>1. task'[t].rows = {}
      BY <2>1 DEF Idle
    <3> QED
      BY <2>1, <3>1 DEF RowsInScope, KInv, Own
  <2>4. ASSUME NEW d \in Docs, WorksOn(t, d) PROVE DocOk(d)'
    <3>1. Stored(d)' = Stored(d) \cup Left(t, d)
      <4>1. {r \in rest : r[1] = d} = {}
        BY <1>5
      <4> QED
        BY <1>4, <1>5, <4>1
    <3>2. status'[d] = IF Exists(d) THEN "ready" ELSE status[d]
      BY <1>5, <2>4, MarkedAt DEF WorksOn
    <3>3. Ends(t, d)
      BY <1>0, <2>1, <3>1, <3>2 DEF Ends, Own
    <3> QED
      BY <1>0, <2>4, <3>3, DocEnded DEF KInv, TypeOK
  <2>5. ASSUME NEW d \in Docs, ~WorksOn(t, d) PROVE DocOk(d)'
    <3>1. Stored(d)' = Stored(d) /\ status'[d] = status[d]
      BY <1>4, <1>5, <2>5, MarkedAt DEF WorksOn
    <3>2. ~WorksOn(t, d)'
      BY <2>1 DEF WorksOn, Idle
    <3> QED
      BY <1>0, <2>1, <2>3, <2>5, <3>1, <3>2, DocAside
  <2> QED
    BY <2>2, <2>3, <2>4, <2>5 DEF KInv
<1>6. CASE /\ vectors' = vectors \cup batch
           /\ task' = [task EXCEPT ![t].rows = rest] /\ UNCHANGED status
  <2>1. Own(t) /\ task'[t].scope = task[t].scope /\ task'[t].rows = rest
    BY <1>0, <1>6 DEF Own, TypeOK
  <2>2. TypeOK'
    <3>1. task' \in [Tasks -> [scope : SUBSET Docs, rows : SUBSET Chunk]]
      BY <1>0, <1>1, <1>6 DEF TypeOK
    <3> QED
      BY <1>0, <1>4, <1>6, <3>1 DEF TypeOK
  <2>3. RowsInScope'
    <3>1. \A r \in task'[t].rows : r[1] \in task'[t].scope
      BY <1>0, <1>1, <2>1
    <3> QED
      BY <2>1, <3>1 DEF RowsInScope, KInv, Own
  <2>4. ASSUME NEW d \in Docs, WorksOn(t, d) PROVE DocOk(d)'
    <3>1. WorksOn(t, d)' /\ Left(t, d)' = {r \in rest : r[1] = d}
      BY <2>1, <2>4 DEF WorksOn, Left
    <3>2. GoesOn(t, d)
      BY <1>0, <1>4, <1>6, <2>1, <3>1 DEF GoesOn, Own
    <3> QED
      BY <2>4, <3>2, DocGoesOn DEF KInv
  <2>5. ASSUME NEW d \in Docs, ~WorksOn(t, d) PROVE DocOk(d)'
    <3>1. ~WorksOn(t, d)'
      BY <2>1, <2>5 DEF WorksOn
    <3> QED
      BY <1>0, <1>4, <1>6, <2>1, <2>3, <2>5, <3>1, DocAside
  <2> QED
    BY <2>2, <2>3, <2>4, <2>5 DEF KInv
<1> QED
  BY <1>2, <1>3, <1>5, <1>6

LEMMA DropKeeps ==
  ASSUME KInv, NEW docs \in SUBSET Docs, Drop(docs)
  PROVE  KInv'
<1>0. TypeOK /\ UNCHANGED <<config, task>>
  BY DEF KInv, Drop
<1>1. TypeOK'
  <2>1. status' \in [Docs -> {"none", "indexing", "ready", "failed", "deleted"}]
    BY <1>0 DEF Drop, TypeOK
  <2>2. chunks' \in [Docs -> 0 .. MaxChunks]
    BY <1>0, BoundsOk DEF Drop, TypeOK
  <2>3. blurred' \in [Docs -> {"no", "contested", "interrupted"}]
    BY <1>0 DEF Drop, TypeOK
  <2>4. vectors' \subseteq Chunk
    BY <1>0 DEF Drop, Without, TypeOK
  <2> QED
    BY <1>0, <2>1, <2>2, <2>3, <2>4 DEF TypeOK
<1>2. RowsInScope'
  BY <1>0 DEF KInv, RowsInScope
<1>3. ASSUME NEW d \in Docs \ docs PROVE DocOk(d)'
  <2>1. status'[d] = status[d] /\ chunks'[d] = chunks[d] /\ blurred'[d] = blurred[d] /\ Stored(d)' = Stored(d)
    BY WithoutStored DEF Drop
  <2>2. \A t \in Tasks : (WorksOn(t, d)' <=> WorksOn(t, d)) /\ Left(t, d)' = Left(t, d)
    BY <1>0 DEF WorksOn, Left
  <2> QED
    BY <2>1, <2>2, DocUntouched DEF KInv
<1>4. \A d \in Docs : d \in docs => DocOk(d)'
  BY DocDropped
<1> QED
  BY <1>1, <1>2, <1>3, <1>4 DEF KInv

\* A crash ends every request where it is.
LEMMA CrashKeeps ==
  ASSUME KInv, Crash
  PROVE  KInv'
<1>0. /\ TypeOK /\ UNCHANGED <<config, status, chunks, vectors>>
      /\ \A t \in Tasks : task'[t] = Idle
  BY DEF KInv, Crash, documents
<1>1. TypeOK'
  <2>1. task' \in [Tasks -> [scope : SUBSET Docs, rows : SUBSET Chunk]]
    BY DEF Crash, Idle
  <2>2. blurred' \in [Docs -> {"no", "contested", "interrupted"}]
    BY <1>0 DEF Crash, TypeOK
  <2> QED
    BY <1>0, <2>1, <2>2 DEF TypeOK
<1>2. RowsInScope' /\ \A t \in Tasks : \A d \in Docs : ~WorksOn(t, d)' /\ Left(t, d)' = {}
  BY <1>0 DEF RowsInScope, WorksOn, Left, Idle
<1>3. ASSUME NEW d \in Docs PROVE DocOk(d)'
  <2>1. Stored(d)' = Stored(d) /\ (Exists(d)' <=> Exists(d)) /\ status'[d] = status[d] /\ chunks'[d] = chunks[d]
    BY <1>0 DEF Stored, Exists
  <2>2. GoneOk(d)'
    BY <1>2, <2>1 DEF GoneOk, KInv, DocOk
  <2>3. CASE Rests(d)
    <3>1. blurred'[d] = blurred[d]
      BY <2>3 DEF Crash, Rests
    <3> QED
      BY <1>2, <2>1, <2>2, <2>3, <3>1 DEF KInv, DocOk, FailedOk, WorkOk, RestOk
  <2>4. CASE ~Rests(d)
    <3>1. blurred'[d] = "interrupted"
      BY <2>4 DEF Crash, Rests
    <3> QED
      BY <2>2, <3>1 DEF DocOk, FailedOk, WorkOk, RestOk
  <2> QED
    BY <2>3, <2>4
<1> QED
  BY <1>1, <1>2, <1>3 DEF KInv

LEMMA KInit == Init => KInv
<1> SUFFICES ASSUME Init PROVE KInv
  OBVIOUS
<1>1. TypeOK
  BY BoundsOk DEF Init, TypeOK, Idle
<1>2. RowsInScope /\ \A t \in Tasks : \A d \in Docs : ~WorksOn(t, d) /\ Left(t, d) = {}
  BY DEF Init, RowsInScope, Idle, WorksOn, Left
<1>3. \A d \in Docs : Stored(d) = {} /\ status[d] = "none" /\ chunks[d] = 0
  BY DEF Init, Stored
<1>4. \A d \in Docs : DocOk(d)
  BY <1>2, <1>3 DEF DocOk, GoneOk, FailedOk, WorkOk, RestOk
<1> QED
  BY <1>1, <1>2, <1>4 DEF KInv

LEMMA KNext == KInv /\ [Next]_vars => KInv'
<1> SUFFICES ASSUME KInv, [Next]_vars PROVE KInv'
  OBVIOUS
<1>1. ASSUME UNCHANGED <<documents, task, blurred>>, config' \in {"none", "keyed", "unreadable"} PROVE KInv'
  <2>1. UNCHANGED <<status, chunks, vectors, task, blurred>>
    BY <1>1 DEF documents
  <2>2. TypeOK' /\ RowsInScope'
    BY <1>1, <2>1 DEF KInv, TypeOK, RowsInScope
  <2>3. ASSUME NEW d \in Docs PROVE DocOk(d)'
    <3>1. Stored(d)' = Stored(d) /\ \A t \in Tasks : (WorksOn(t, d)' <=> WorksOn(t, d)) /\ Left(t, d)' = Left(t, d)
      BY <2>1 DEF Stored, WorksOn, Left
    <3> QED
      BY <2>1, <3>1, DocUntouched DEF KInv
  <2> QED
    BY <2>2, <2>3 DEF KInv
<1>2. CASE UNCHANGED vars
  BY <1>1, <1>2 DEF vars, KInv, TypeOK
<1>3. ASSUME NEW t \in Tasks, NEW d \in Docs, ReindexDocument(t, d) PROVE KInv'
  <2>1. UNION {RowsOf(x, chunks[x]) : x \in {d}} = RowsOf(d, chunks[d])
    OBVIOUS
  <2>2. /\ task[t] = Idle /\ vectors' = Without({d})
        /\ Index(t, {d}, UNION {RowsOf(x, chunks[x]) : x \in {d}})
        /\ Blur(t, {d}) /\ UNCHANGED <<config, chunks>>
    BY <1>3, <2>1 DEF ReindexDocument
  <2> QED
    BY <2>2, Indexed
<1>4. ASSUME NEW t \in Tasks, Reindex(t) PROVE KInv'
  <2>1. Without(Docs) = {}
    <3>1. \A v \in vectors : v[1] \in Docs
      BY DEF KInv, TypeOK, Chunk
    <3> QED
      BY <3>1 DEF Without
  <2>2. /\ task[t] = Idle /\ vectors' = Without(Docs)
        /\ Index(t, Docs, UNION {RowsOf(x, chunks[x]) : x \in Docs})
        /\ Blur(t, Docs) /\ UNCHANGED <<config, chunks>>
    BY <1>4, <2>1 DEF Reindex, AllRows
  <2>3. Docs # {}
    BY BoundsOk DEF Docs
  <2> QED
    BY <2>2, <2>3, Indexed
<1>5. ASSUME NEW t \in Tasks, Answered(t) PROVE KInv'
  BY <1>5, EmbeddedKeeps, AbortKeeps DEF Answered, EmbeddingFails
<1>6. ASSUME NEW d \in Docs, DeleteDocument(d) PROVE KInv'
  BY <1>6, DropKeeps DEF DeleteDocument
<1>7. CASE DeleteBase
  BY <1>7, DropKeeps DEF DeleteBase
<1>8. CASE Crash
  BY <1>8, CrashKeeps
<1>9. ASSUME NEW c \in {"none", "keyed", "unreadable"}, Configure(c) PROVE KInv'
  BY <1>1, <1>9 DEF Configure
<1> QED
  BY <1>2, <1>3, <1>4, <1>5, <1>6, <1>7, <1>8, <1>9, IngestKeeps DEF Next

-----------------------------------------------------------------------------
(* The theorems. *)

\* Every variable stays in its type.
THEOREM TypeCorrect == Spec => []TypeOK
<1>1. KInv => TypeOK
  BY DEF KInv
<1> QED
  BY <1>1, KInit, KNext, PTL DEF Spec

\* Once nobody works on a document: a failed one has no vectors, wherever the
\* batches of the requests that met on it ended; a ready or a deleted one agrees
\* with its vectors when no two requests met on it and no crash interrupted one.
\* (Where they do meet, DeletedIsGone and ReadyMatchesVectors are violated.)
THEOREM StatusAgrees == Spec => []StatusMatchesVectors
<1>1. KInv => StatusMatchesVectors
  BY DEF KInv, DocOk, FailedOk, RestOk, Rests, Stored, Exists, StatusMatchesVectors
<1> QED
  BY <1>1, KInit, KNext, PTL DEF Spec
=============================================================================
