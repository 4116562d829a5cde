---------------------------- MODULE ChunkIndex ----------------------------
(***************************************************************************)
(* The passage index of the knowledge base: kb_chunks, the vectors in      *)
(* kb_chunk_embeddings, the handlers that replace a document's chunks with *)
(* its text, the startup backfills, and the background embedding loop that *)
(* reads chunks, calls the upstream model and writes vectors afterwards.   *)
(*                                                                         *)
(* Only rows whose status is ready are kept here (UploadQueue is about the *)
(* others).  A text is a version number, a chunk row is the document and   *)
(* the version it was cut from, a vector is the model and the version it   *)
(* was computed from.                                                      *)
(***************************************************************************)
EXTENDS Naturals, FiniteSets

CONSTANTS MaxDocs,      \* bound: document ids
          NLegacy,      \* documents 1..NLegacy are older than kb_chunks
          MaxTexts,     \* bound: texts ever written
          MaxChunks,    \* bound: chunk ids
          MaxPieces,    \* bound: chunks of one text
          Blank,        \* the texts that are empty, so are cut into no chunks
          BatchSize,    \* texts in one call of the upstream
          Model,        \* names of embedding models
          NoModel,      \* the setting was never written, or a missing vector
          Off,          \* the setting is "": no channel routes that model
          MaxSettings,  \* bound: changes of the setting, and reindexes
          MaxFails,     \* bound: failed calls of the upstream
          MaxRestarts   \* bound: restarts of the server

ASSUME IndexConstants ==
  /\ MaxDocs \in Nat /\ NLegacy \in 0..MaxDocs /\ MaxTexts \in Nat
  /\ NLegacy <= MaxTexts /\ MaxChunks \in Nat /\ MaxPieces \in Nat
  /\ Blank \subseteq (NLegacy + 1)..MaxTexts
  /\ BatchSize \in Nat \ {0}
  /\ MaxSettings \in Nat /\ MaxFails \in Nat /\ MaxRestarts \in Nat
  /\ NoModel \notin Model /\ Off \notin Model /\ NoModel # Off

VARIABLES text,       \* kb_documents: the version of each row, 0 for no row
          chunk,      \* kb_chunks
          vector,     \* kb_chunk_embeddings
          nextDoc, nextText, nextChunk,    \* the AUTOINCREMENT sequences
          setting,    \* kb.embedding_model
          snap,       \* BackfillChunks: the texts its scan read, 0 when done
          bpc,        \* its position
          scanned,    \* history: the documents a scan of it has ever read
          epc,        \* each embedder's position
          emodel,     \* the model it read
          edocs,      \* documents BackfillEmbeddings still has to visit
          todo,       \* the ids of the chunks it read and has not embedded
          etext,      \* the version of the text it read with them
          settings, fails, restarts

dbVars == <<text, chunk, vector, nextDoc, nextText, nextChunk>>
bVars  == <<snap, bpc, scanned>>
eVars  == <<epc, emodel, edocs, todo, etext>>
sVars  == <<setting, settings>>
vars   == <<dbVars, bVars, eVars, sVars, fails, restarts>>

Doc == 1..MaxDocs
Text == 0..MaxTexts
ChunkId == 1..MaxChunks
Embedder == {"loop", "backfill"}
Pieces(v) == IF v \in Blank THEN {0} ELSE 1..MaxPieces    \* len(ChunkText(v))
Chunk == [doc : Doc, text : Text \ {0}]
NoChunk == [doc |-> 0, text |-> 0]
NoVector == [model |-> NoModel, text |-> 0]

ChunksOf(d) == {c \in ChunkId : chunk[c].doc = d}
Missing(d) == {c \in ChunksOf(d) : vector[c] = NoVector}
DocsMissing == {d \in Doc : text[d] # 0 /\ Missing(d) # {}}

\* What kb.embedding_model may hold: a model, nothing yet, or the empty name.
Settings == Model \cup {NoModel, Off}

Init == /\ text = [d \in Doc |-> IF d <= NLegacy THEN d ELSE 0]
        /\ chunk = [c \in ChunkId |-> NoChunk]
        /\ vector = [c \in ChunkId |-> NoVector]
        /\ nextDoc = NLegacy + 1 /\ nextText = NLegacy + 1 /\ nextChunk = 1
        /\ setting = NoModel /\ settings = 0
        /\ snap = [d \in Doc |-> 0] /\ bpc = "scan" /\ scanned = {}
        /\ epc = [e \in Embedder |-> "idle"]
        /\ emodel = [e \in Embedder |-> NoModel]
        /\ edocs = {}
        /\ todo = [e \in Embedder |-> {}]
        /\ etext = [e \in Embedder |-> 0]
        /\ fails = 0 /\ restarts = 0

-----------------------------------------------------------------------------
(* Plausible bugs, each the twin of a definition below; see UploadQueue.   *)

\* kb_chunks.id without AUTOINCREMENT: the ids of deleted rows come back.
StoreChunksReusingIds(d, v, n) ==
  \E new \in SUBSET {c \in ChunkId : chunk[c] = NoChunk} :
    /\ Cardinality(new) = n
    /\ chunk' = [c \in ChunkId |-> IF c \in new THEN [doc |-> d, text |-> v]
                                   ELSE IF chunk[c].doc = d THEN NoChunk
                                   ELSE chunk[c]]
    /\ vector' = [c \in ChunkId |-> IF chunk[c].doc = d THEN NoVector
                                                        ELSE vector[c]]
    /\ UNCHANGED nextChunk

\* The old chunks are not deleted before the new ones are inserted.
StoreChunksKeepingOld(d, v, n) ==
  LET new == nextChunk..(nextChunk + n - 1) IN
    /\ new \subseteq ChunkId
    /\ chunk' = [c \in ChunkId |-> IF c \in new THEN [doc |-> d, text |-> v]
                                                ELSE chunk[c]]
    /\ nextChunk' = nextChunk + n
    /\ UNCHANGED vector

\* An edit writes the text and leaves the chunks to somebody else.
EditTextOnly(d) ==
  /\ text[d] # 0 /\ nextText <= MaxTexts
  /\ text' = [text EXCEPT ![d] = nextText]
  /\ nextText' = nextText + 1
  /\ UNCHANGED <<chunk, vector, nextDoc, nextChunk, bVars, eVars, sVars,
                 fails, restarts>>

\* The last chunk of a batch is dropped (an off-by-one in the batch bounds).
FirstOfDroppingLast(S) ==
  {c \in S : Cardinality({b \in S : b <= c}) < BatchSize}

-----------------------------------------------------------------------------
(* Texts and chunks.  Each handler is one transaction.                     *)

\* DELETE every chunk of the document (its vectors go by trigger), INSERT n.
StoreChunks(d, v, n) ==
  LET new == nextChunk..(nextChunk + n - 1) IN
    /\ new \subseteq ChunkId
    /\ chunk' = [c \in ChunkId |-> IF c \in new THEN [doc |-> d, text |-> v]
                                   ELSE IF chunk[c].doc = d THEN NoChunk
                                   ELSE chunk[c]]
    /\ vector' = [c \in ChunkId |-> IF chunk[c].doc = d THEN NoVector
                                                        ELSE vector[c]]
    /\ nextChunk' = nextChunk + n

\* CreateKBDocumentWithChunks, and a completed upload's row turning ready.
Publish ==
  /\ nextDoc \in Doc /\ nextText <= MaxTexts
  /\ text' = [text EXCEPT ![nextDoc] = nextText]
  /\ \E n \in Pieces(nextText) : StoreChunks(nextDoc, nextText, n)
  /\ nextDoc' = nextDoc + 1 /\ nextText' = nextText + 1
  /\ UNCHANGED <<bVars, eVars, sVars, fails, restarts>>

\* UpdateKBDocumentWithChunks
Edit(d) ==
  /\ text[d] # 0 /\ nextText <= MaxTexts
  /\ text' = [text EXCEPT ![d] = nextText]
  /\ \E n \in Pieces(nextText) : StoreChunks(d, nextText, n)
  /\ nextText' = nextText + 1
  /\ UNCHANGED <<nextDoc, bVars, eVars, sVars, fails, restarts>>

\* DeleteKBDocument; the triggers take the chunks and their vectors along.
Delete(d) ==
  /\ text[d] # 0
  /\ text' = [text EXCEPT ![d] = 0]
  /\ chunk' = [c \in ChunkId |-> IF chunk[c].doc = d THEN NoChunk ELSE chunk[c]]
  /\ vector' = [c \in ChunkId |-> IF chunk[c].doc = d THEN NoVector
                                                      ELSE vector[c]]
  /\ UNCHANGED <<nextDoc, nextText, nextChunk, bVars, eVars, sVars, fails,
                 restarts>>

-----------------------------------------------------------------------------
(* BackfillChunks: one query for the texts of the ready rows that have no  *)
(* chunks, then one ReplaceChunks for each, from the texts it read.        *)

BackfillScan ==
  /\ bpc = "scan"
  /\ snap' = [d \in Doc |-> IF ChunksOf(d) = {} THEN text[d] ELSE 0]
  /\ scanned' = scanned \cup {d \in Doc : snap'[d] # 0}
  /\ bpc' = "replace"
  /\ UNCHANGED <<dbVars, eVars, sVars, fails, restarts>>

BackfillReplace(d) ==
  /\ bpc = "replace"
  /\ snap[d] # 0 /\ \A e \in 1..(d - 1) : snap[e] = 0
  /\ \E n \in Pieces(snap[d]) : StoreChunks(d, snap[d], n)
  /\ snap' = [snap EXCEPT ![d] = 0]
  /\ UNCHANGED <<text, nextDoc, nextText, bpc, scanned, eVars, sVars, fails,
                 restarts>>

\* The list is done, or a transaction failed and the rest is given up.
BackfillEnd ==
  /\ bpc = "replace"
  /\ bpc' = "done"
  /\ snap' = [d \in Doc |-> 0]
  /\ UNCHANGED <<scanned, dbVars, eVars, sVars, fails, restarts>>

-----------------------------------------------------------------------------
(* The embedders: the loop takes the oldest document that misses a vector, *)
(* again and again; BackfillEmbeddings visits once each of the documents   *)
(* that missed one at startup.  Both run embedMissingChunks on a document. *)

\* GetEmbeddingModel.
ReadModel(e, next) ==
  /\ epc[e] = "idle" /\ setting # NoModel
  /\ emodel' = [emodel EXCEPT ![e] = setting]
  /\ epc' = [epc EXCEPT ![e] = next]
  /\ UNCHANGED <<dbVars, bVars, edocs, todo, etext, sVars, fails, restarts>>

LoopReadModel == ReadModel("loop", "scan")

BackfillReadModel == ReadModel("backfill", "list")

BackfillNoModel ==
  /\ epc["backfill"] = "idle" /\ setting = NoModel
  /\ epc' = [epc EXCEPT !["backfill"] = "done"]
  /\ UNCHANGED <<dbVars, bVars, emodel, edocs, todo, etext, sVars, fails,
                 restarts>>

BackfillList ==
  /\ epc["backfill"] = "list"
  /\ edocs' = DocsMissing
  /\ epc' = [epc EXCEPT !["backfill"] = "scan"]
  /\ UNCHANGED <<dbVars, bVars, emodel, todo, etext, sVars, fails, restarts>>

\* embedMissingChunks returns: the loop reads the setting again, the backfill
\* goes to its next document.
Return(e) ==
  /\ epc' = [epc EXCEPT ![e] = IF e = "loop" THEN "idle" ELSE "scan"]
  /\ emodel' = [emodel EXCEPT ![e] = IF e = "loop" THEN NoModel ELSE @]
  /\ todo' = [todo EXCEPT ![e] = {}]
  /\ etext' = [etext EXCEPT ![e] = 0]

\* The SELECT of embedMissingChunks for document d.
ReadMissing(e, d) ==
  /\ todo' = [todo EXCEPT ![e] = Missing(d)]
  /\ etext' = [etext EXCEPT ![e] =
                 IF Missing(d) = {} THEN 0
                 ELSE chunk[CHOOSE c \in Missing(d) : TRUE].text]
  /\ epc' = [epc EXCEPT ![e] = IF Missing(d) = {} THEN "scan" ELSE "calling"]

LoopScan ==
  /\ epc["loop"] = "scan"
  /\ \/ \E d \in DocsMissing : /\ \A x \in DocsMissing : d <= x
                               /\ ReadMissing("loop", d) /\ UNCHANGED emodel
     \/ /\ DocsMissing = {}                    \* sleep, then read the setting
        /\ Return("loop")
  /\ UNCHANGED <<dbVars, bVars, edocs, sVars, fails, restarts>>

BackfillNextDoc ==
  /\ epc["backfill"] = "scan"
  /\ \/ \E d \in edocs : /\ \A x \in edocs : d <= x
                         /\ edocs' = edocs \ {d}
                         /\ ReadMissing("backfill", d) /\ UNCHANGED emodel
     \/ /\ edocs = {}
        /\ epc' = [epc EXCEPT !["backfill"] = "done"]
        /\ emodel' = [emodel EXCEPT !["backfill"] = NoModel]
        /\ UNCHANGED <<edocs, todo, etext>>
  /\ UNCHANGED <<dbVars, bVars, sVars, fails, restarts>>

\* The first BatchSize of a set of ids, in the order of seq.
FirstOf(S) == {c \in S : Cardinality({b \in S : b <= c}) <= BatchSize}

\* The upstream answered: INSERT OR REPLACE by id, whatever became of the
\* chunk rows since they were read.
EmbedBatch(e) ==
  /\ epc[e] = "calling" /\ emodel[e] # Off
  /\ LET batch == FirstOf(todo[e]) IN
       /\ vector' = [c \in ChunkId |->
                       IF c \in batch
                         THEN [model |-> emodel[e], text |-> etext[e]]
                         ELSE vector[c]]
       /\ \/ todo[e] \subseteq batch /\ Return(e)
          \/ /\ ~ todo[e] \subseteq batch
             /\ todo' = [todo EXCEPT ![e] = todo[e] \ batch]
             /\ UNCHANGED <<epc, emodel, etext>>
  /\ UNCHANGED <<text, chunk, nextDoc, nextText, nextChunk, bVars, edocs,
                 sVars, fails, restarts>>

\* The call, or the transaction, failed: the rest of the document is left.
EmbedFails(e) ==
  /\ epc[e] = "calling"
  /\ \/ emodel[e] = Off /\ UNCHANGED fails
     \/ fails < MaxFails /\ fails' = fails + 1
  /\ Return(e)
  /\ UNCHANGED <<dbVars, bVars, edocs, sVars, restarts>>

-----------------------------------------------------------------------------
(* The administrator, and the process.                                     *)

\* setEmbeddingModel; Off stands for the empty name.
SetModel(m) ==
  /\ settings < MaxSettings
  /\ setting' = m
  /\ settings' = settings + 1
  /\ UNCHANGED <<dbVars, bVars, eVars, fails, restarts>>

\* reindexEmbeddings.
Reindex ==
  /\ settings < MaxSettings
  /\ vector' = [c \in ChunkId |-> NoVector]
  /\ settings' = settings + 1
  /\ UNCHANGED <<text, chunk, nextDoc, nextText, nextChunk, setting, bVars,
                 eVars, fails, restarts>>

Restart ==
  /\ restarts < MaxRestarts
  /\ restarts' = restarts + 1
  /\ snap' = [d \in Doc |-> 0] /\ bpc' = "scan"
  /\ epc' = [e \in Embedder |-> "idle"]
  /\ emodel' = [e \in Embedder |-> NoModel]
  /\ todo' = [e \in Embedder |-> {}]
  /\ etext' = [e \in Embedder |-> 0]
  /\ edocs' = {}
  /\ UNCHANGED <<scanned, dbVars, sVars, fails>>

-----------------------------------------------------------------------------
Backfill == BackfillScan \/ BackfillEnd \/ \E d \in Doc : BackfillReplace(d)
Loop == \/ LoopReadModel \/ LoopScan
        \/ EmbedBatch("loop") \/ EmbedFails("loop")
Once == \/ BackfillReadModel \/ BackfillNoModel \/ BackfillList
        \/ BackfillNextDoc
        \/ EmbedBatch("backfill") \/ EmbedFails("backfill")

Next == \/ Publish \/ \E d \in Doc : Edit(d) \/ Delete(d)
        \/ Backfill \/ Loop \/ Once
        \/ \E m \in Model \cup {Off} : SetModel(m)
        \/ Reindex \/ Restart

Spec == Init /\ [][Next]_vars

(* The background goroutines run on; MaxFails says the upstream does not   *)
(* fail for ever.  Nothing is assumed of the administrator.                *)
FairSpec == Spec /\ WF_vars(Backfill) /\ WF_vars(Loop) /\ WF_vars(Once)

-----------------------------------------------------------------------------
(* Every variable has its type.                                            *)

TypeOK ==
  /\ text \in [Doc -> Text]
  /\ chunk \in [ChunkId -> Chunk \cup {NoChunk}]
  /\ vector \in [ChunkId -> [model : Settings, text : Text]]
  /\ nextDoc \in 1..(MaxDocs + 1)
  /\ nextText \in 1..(MaxTexts + 1)
  /\ nextChunk \in 1..(MaxChunks + 1)
  /\ setting \in Settings
  /\ snap \in [Doc -> Text]
  /\ bpc \in {"scan", "replace", "done"}
  /\ scanned \subseteq Doc
  /\ epc \in [Embedder -> {"idle", "list", "scan", "calling", "done"}]
  /\ emodel \in [Embedder -> Settings]
  /\ edocs \subseteq Doc
  /\ todo \in [Embedder -> SUBSET ChunkId]
  /\ etext \in [Embedder -> Text]
  /\ settings \in 0..MaxSettings
  /\ fails \in 0..MaxFails
  /\ restarts \in 0..MaxRestarts

(* A vector found under a chunk's id was computed from that chunk's text,  *)
(* although an embedder writes vectors long after it read the chunks and   *)
(* never looks whether they are still there: ids are not used twice.       *)
VectorOfItsChunk ==
  \A c \in ChunkId : chunk[c] # NoChunk /\ vector[c] # NoVector =>
                       vector[c].text = chunk[c].text

(* All chunks of a document were cut from one text: a search never mixes   *)
(* passages of two versions.                                               *)
OneVersionPerDoc ==
  \A b, c \in ChunkId : chunk[b] # NoChunk /\ chunk[b].doc = chunk[c].doc =>
                          chunk[b].text = chunk[c].text

(* "content and chunks never diverge" (ReplaceChunks): the chunks a search *)
(* reads are those of the current text, and a deleted document has none.   *)
ChunksFollow(d) ==
  /\ \A c \in ChunksOf(d) : chunk[c].text = text[d]
  /\ ChunksOf(d) = {} <=> text[d] = 0 \/ text[d] \in Blank

(* Beside a running backfill too, this holds of every document that was not*)
(* without chunks when one scanned: of all that are newer than the chunk   *)
(* table and have not been empty at a start of the server.  It need not    *)
(* hold of the others: an edit between the scan and the write of           *)
(* BackfillChunks is overwritten with the chunks of the text before it.    *)
NewDocsNeverDiverge ==
  \A d \in Doc \ scanned : d > NLegacy => ChunksFollow(d)

(* Why those hold: the invariant that is inductive.                        *)

\* Ids in use were handed out: those of rows, of vectors left behind by rows
\* that are gone, and those an embedder is about to write.
IdsInUse ==
  /\ \A c \in ChunkId : chunk[c] # NoChunk \/ vector[c] # NoVector => c < nextChunk
  /\ \A e \in Embedder : \A c \in todo[e] : c < nextChunk

\* What an embedder has read is still true of the rows that are still there.
EmbeddersKnow ==
  \A e \in Embedder : \A c \in todo[e] :
    chunk[c] # NoChunk => chunk[c].text = etext[e]

SnapIsScanned == \A d \in Doc : snap[d] # 0 => d \in scanned

IndexInv == /\ TypeOK /\ IdsInUse /\ EmbeddersKnow /\ SnapIsScanned
        /\ VectorOfItsChunk /\ OneVersionPerDoc /\ NewDocsNeverDiverge

(* Every chunk of a document gets its vector, over failed calls, edits,    *)
(* reindexes and restarts, as long as an embedding model is configured.    *)
EveryChunkEmbedded ==
  \A c \in ChunkId :
    (chunk[c] # NoChunk /\ vector[c] = NoVector)
      ~> \/ chunk[c] = NoChunk \/ vector[c] # NoVector
         \/ text[chunk[c].doc] = 0
         \/ setting \notin Model
=============================================================================
