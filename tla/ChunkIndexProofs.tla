-------------------------- MODULE ChunkIndexProofs --------------------------
(***************************************************************************)
(* Proofs about ChunkIndex, for any number of documents, texts, chunks,    *)
(* settings, failures and restarts, and any batch size, and about Search,  *)
(* which reads what ChunkIndex keeps.  The inductive invariants, IndexInv and  *)
(* SearchInv, are defined and explained there.                             *)
(***************************************************************************)
EXTENDS ChunkIndex, Search, TLAPS, FiniteSetTheorems, FunctionTheorems,
        WellFoundedInduction

-----------------------------------------------------------------------------
(* Lemmas.                                                                 *)

\* A chunk is a piece of some document.
LEMMA ChunksHaveDocs == \A x \in Chunk : x.doc \in Doc /\ x.doc # 0
  BY DEF Chunk, Doc

(* ReplaceChunks puts the chunks of one version in the place of all the    *)
(* document had, under ids that nothing has referred to before: it keeps   *)
(* every part of IndexInv that is about chunks and vectors.                    *)
LEMMA StoreChunksKeeps ==
  ASSUME IndexInv, NEW d \in Doc, NEW v \in Text \ {0}, NEW n \in Pieces(v),
         StoreChunks(d, v, n), UNCHANGED eVars
  PROVE  /\ chunk' \in [ChunkId -> Chunk \cup {NoChunk}]
         /\ vector' \in [ChunkId -> [model : Settings, text : Text]]
         /\ nextChunk' \in 1..(MaxChunks + 1)
         /\ IdsInUse' /\ EmbeddersKnow'
         /\ VectorOfItsChunk' /\ OneVersionPerDoc'
         /\ \A c \in ChunkId : chunk'[c].doc = d => chunk'[c].text = v
         /\ {c \in ChunkId : chunk'[c].doc = d} = {} <=> v \in Blank
         /\ \A c \in ChunkId, e \in Doc \ {d} :
              \/ chunk'[c] = chunk[c]
              \/ chunk'[c].doc # e /\ chunk[c].doc # e
<1> DEFINE new == nextChunk..(nextChunk + n - 1)
<1> USE IndexConstants DEF IndexInv, TypeOK, Doc, ChunkId, Text, Settings, Chunk
<1>1. n \in Nat /\ (n = 0 <=> v \in Blank)
  BY DEF Pieces
<1>2. /\ new \subseteq ChunkId /\ nextChunk' = nextChunk + n
      /\ chunk' = [c \in ChunkId |-> IF c \in new THEN [doc |-> d, text |-> v]
                                     ELSE IF chunk[c].doc = d THEN NoChunk
                                     ELSE chunk[c]]
      /\ vector' = [c \in ChunkId |-> IF chunk[c].doc = d THEN NoVector
                                                          ELSE vector[c]]
  BY DEF StoreChunks
<1>3. /\ chunk' \in [ChunkId -> Chunk \cup {NoChunk}]
      /\ vector' \in [ChunkId -> [model : Settings, text : Text]]
  BY <1>2 DEF NoChunk, NoVector
<1>4. nextChunk' \in 1..(MaxChunks + 1)
  <2>1. CASE n = 0
    BY <1>2, <2>1
  <2>2. CASE n # 0
    <3>1. nextChunk + n - 1 \in new
      BY <1>1, <2>2
    <3>2. nextChunk + n - 1 \in ChunkId /\ nextChunk' = nextChunk + n
      BY <1>2, <3>1
    <3> QED BY <1>1, <3>2
  <2> QED BY <2>1, <2>2
<1>5. \A c \in ChunkId : c \in new => /\ chunk[c] = NoChunk /\ vector[c] = NoVector
                                      /\ \A e \in Embedder : c \notin todo[e]
  BY <1>1 DEF IdsInUse
<1>6. IdsInUse'
  <2>1. \A c \in ChunkId : c \in new => c < nextChunk'
    BY <1>1, <1>2
  <2> QED BY <1>1, <1>2, <2>1 DEF IdsInUse, eVars
<1>7. EmbeddersKnow'
  BY <1>2, <1>5 DEF EmbeddersKnow, eVars, Embedder
<1>8. VectorOfItsChunk'
  BY <1>2, <1>5 DEF VectorOfItsChunk
<1>9. OneVersionPerDoc'
  <2> SUFFICES ASSUME NEW b \in ChunkId, NEW c \in ChunkId,
                      chunk'[b] # NoChunk, chunk'[b].doc = chunk'[c].doc
               PROVE  chunk'[b].text = chunk'[c].text
    BY DEF OneVersionPerDoc
  <2>1. \A x \in ChunkId : chunk'[x].doc = d => chunk'[x].text = v
    BY <1>2 DEF NoChunk
  <2>2. \A x \in ChunkId : chunk'[x].doc \notin {d, 0} => chunk'[x] = chunk[x]
    BY <1>2 DEF NoChunk
  <2>3. chunk'[b].doc # 0
    <3>1. chunk'[b] \in Chunk
      BY <1>3
    <3> QED BY <3>1, ChunksHaveDocs
  <2>4. CASE chunk'[b].doc = d
    BY <2>1, <2>4
  <2>5. CASE chunk'[b].doc # d
    <3>1. chunk'[b] = chunk[b] /\ chunk'[c] = chunk[c]
      BY <2>2, <2>3, <2>5
    <3> QED BY <3>1 DEF OneVersionPerDoc
  <2> QED BY <2>4, <2>5
<1>10. \A c \in ChunkId : chunk'[c].doc = d => chunk'[c].text = v
  BY <1>2 DEF NoChunk
<1>11. {c \in ChunkId : chunk'[c].doc = d} = {} <=> v \in Blank
  <2>1. CASE n = 0
    BY <1>1, <1>2, <2>1 DEF NoChunk
  <2>2. CASE n # 0
    <3>1. nextChunk \in new
      BY <1>1, <2>2
    <3>2. chunk'[nextChunk].doc = d
      BY <1>2, <3>1
    <3> QED BY <1>1, <1>2, <2>2, <3>1, <3>2
  <2> QED BY <2>1, <2>2
<1>12. \A c \in ChunkId, e \in Doc \ {d} :
         \/ chunk'[c] = chunk[c]
         \/ chunk'[c].doc # e /\ chunk[c].doc # e
  BY <1>2, <1>5 DEF NoChunk
<1> QED BY <1>3, <1>4, <1>6, <1>7, <1>8, <1>9, <1>10, <1>11, <1>12

(* When the text is written with them, the chunks follow it.               *)
LEMMA StoreChunksFollow ==
  ASSUME IndexInv, NEW d \in Doc, NEW v \in Text \ {0}, NEW n \in Pieces(v),
         StoreChunks(d, v, n), UNCHANGED <<eVars, scanned>>,
         text' = [text EXCEPT ![d] = v]
  PROVE  NewDocsNeverDiverge'
<1> SUFFICES ASSUME NEW e \in Doc, e \notin scanned, e > NLegacy
             PROVE  ChunksFollow(e)'
  BY DEF NewDocsNeverDiverge
<1>1. UNCHANGED eVars
  OBVIOUS
<1>2. /\ \A c \in ChunkId : chunk'[c].doc = d => chunk'[c].text = v
      /\ {c \in ChunkId : chunk'[c].doc = d} = {} <=> v \in Blank
      /\ \A c \in ChunkId, x \in Doc \ {d} :
           \/ chunk'[c] = chunk[c]
           \/ chunk'[c].doc # x /\ chunk[c].doc # x
  BY <1>1, StoreChunksKeeps
<1>3. text'[e] = IF e = d THEN v ELSE text[e]
  BY DEF IndexInv, TypeOK
<1>4. CASE e = d
  BY <1>2, <1>3, <1>4 DEF ChunksFollow, ChunksOf
<1>5. CASE e # d
  <2>1. ChunksFollow(e)
    BY DEF IndexInv, NewDocsNeverDiverge
  <2>2. \A c \in ChunkId :
          /\ (chunk'[c].doc = e) <=> (chunk[c].doc = e)
          /\ (chunk[c].doc = e) => (chunk'[c] = chunk[c])
    BY <1>2, <1>5
  <2>3. ChunksOf(e)' = ChunksOf(e)
    BY <2>2 DEF ChunksOf
  <2>4. \A c \in ChunksOf(e) : chunk'[c] = chunk[c]
    BY <2>2 DEF ChunksOf
  <2> QED BY <1>3, <1>5, <2>1, <2>3, <2>4 DEF ChunksFollow
<1> QED BY <1>4, <1>5

(* What embedMissingChunks selects for a document keeps an embedder's      *)
(* knowledge: all of it was cut from the one text it notes.                *)
LEMMA ReadMissingKnows ==
  ASSUME IndexInv, NEW e \in Embedder, NEW d \in Doc, ReadMissing(e, d),
         UNCHANGED <<chunk, vector, nextChunk>>
  PROVE  /\ todo' \in [Embedder -> SUBSET ChunkId]
         /\ etext' \in [Embedder -> Text]
         /\ epc' \in [Embedder -> {"idle", "list", "scan", "calling", "done"}]
         /\ IdsInUse' /\ EmbeddersKnow'
<1> USE IndexConstants DEF IndexInv, TypeOK, Doc, ChunkId, Chunk, Text
<1> DEFINE v == IF Missing(d) = {} THEN 0
                ELSE chunk[CHOOSE c \in Missing(d) : TRUE].text
<1>1. /\ todo' = [todo EXCEPT ![e] = Missing(d)]
      /\ etext' = [etext EXCEPT ![e] = v]
      /\ epc' = [epc EXCEPT ![e] = IF Missing(d) = {} THEN "scan" ELSE "calling"]
  BY DEF ReadMissing
<1>2. \A c \in Missing(d) : c \in ChunkId /\ chunk[c] # NoChunk /\ chunk[c].doc = d
  BY DEF Missing, ChunksOf, NoChunk
<1>3. Missing(d) # {} => (CHOOSE c \in Missing(d) : TRUE) \in Missing(d)
  OBVIOUS
<1>4. v \in Text /\ \A c \in Missing(d) : chunk[c].text = v
  <2>1. CASE Missing(d) = {}
    BY <2>1
  <2>2. CASE Missing(d) # {}
    <3>1. PICK b \in Missing(d) : v = chunk[b].text
      BY <1>3, <2>2
    <3>2. chunk[b] \in Chunk
      BY <1>2 DEF NoChunk
    <3> QED BY <1>2, <3>1, <3>2 DEF OneVersionPerDoc
  <2> QED BY <2>1, <2>2
<1> HIDE DEF v
<1>5. IdsInUse'
  BY <1>1, <1>2 DEF IdsInUse
<1>6. EmbeddersKnow'
  BY <1>1, <1>4 DEF EmbeddersKnow
<1> QED BY <1>1, <1>2, <1>4, <1>5, <1>6

\* An embedder that gives up a batch or a round keeps the types, and what the
\* embedders know.
LEMMA ReturnKeeps ==
  ASSUME IndexInv, NEW e \in Embedder, Return(e), UNCHANGED dbVars
  PROVE  /\ epc' \in [Embedder -> {"idle", "list", "scan", "calling", "done"}]
         /\ emodel' \in [Embedder -> Settings]
         /\ todo' \in [Embedder -> SUBSET ChunkId]
         /\ etext' \in [Embedder -> Text]
         /\ EmbeddersKnow'
         /\ \A x \in Embedder : \A c \in todo'[x] : c < nextChunk
<1> USE IndexConstants
<1>1. TypeOK /\ IdsInUse /\ EmbeddersKnow
  BY DEF IndexInv
<1>2. /\ epc' \in [Embedder -> {"idle", "list", "scan", "calling", "done"}]
      /\ emodel' \in [Embedder -> Settings]
  BY <1>1 DEF TypeOK, Return, Settings
<1>3. todo' = [todo EXCEPT ![e] = {}] /\ etext' = [etext EXCEPT ![e] = 0]
  BY DEF Return
<1>4. todo' \in [Embedder -> SUBSET ChunkId] /\ etext' \in [Embedder -> Text]
  BY <1>1, <1>3 DEF TypeOK, Text
<1>5. \A x \in Embedder : todo'[x] = {} \/ (todo'[x] = todo[x] /\ etext'[x] = etext[x])
  BY <1>1, <1>3 DEF TypeOK
<1>6. EmbeddersKnow'
  BY <1>1, <1>5 DEF EmbeddersKnow, dbVars
<1>7. \A x \in Embedder : \A c \in todo'[x] : c < nextChunk
  BY <1>1, <1>5 DEF IdsInUse
<1> QED
  BY <1>2, <1>4, <1>6, <1>7

-----------------------------------------------------------------------------
(* Every reachable state satisfies IndexInv: whatever handlers, backfills and  *)
(* embedders do in between, what an embedder holds is true of the rows     *)
(* that are left, and no id it holds is given to another row.              *)
THEOREM Invariance == Spec => []IndexInv
<1>1. Init => IndexInv
  BY IndexConstants
  DEF Init, IndexInv, TypeOK, Doc, ChunkId, Text, Settings, Embedder, IdsInUse,
      EmbeddersKnow, SnapIsScanned, VectorOfItsChunk, OneVersionPerDoc,
      NewDocsNeverDiverge, ChunksFollow, ChunksOf, NoChunk, NoVector
<1>2. IndexInv /\ [Next]_vars => IndexInv'
  <2> SUFFICES ASSUME IndexInv, [Next]_vars PROVE IndexInv'
    OBVIOUS
  <2> USE IndexConstants
      DEF IndexInv, TypeOK, Doc, ChunkId, Chunk, Text, Settings, dbVars, bVars,
          eVars, sVars
  <2>1. ASSUME Publish PROVE IndexInv'
    <3>1. PICK n \in Pieces(nextText) : StoreChunks(nextDoc, nextText, n)
      BY <2>1 DEF Publish
    <3>2. nextDoc \in Doc /\ nextText \in Text \ {0}
      BY <2>1 DEF Publish
    <3>3. UNCHANGED eVars
      BY <2>1 DEF Publish
    <3>4. /\ text' = [text EXCEPT ![nextDoc] = nextText]
          /\ nextDoc' = nextDoc + 1 /\ nextText' = nextText + 1
          /\ UNCHANGED <<bVars, eVars, sVars, fails, restarts>>
      BY <2>1 DEF Publish
    <3>5. NewDocsNeverDiverge'
      BY <3>1, <3>2, <3>4, StoreChunksFollow
    <3>6. SnapIsScanned'
      BY <3>4 DEF SnapIsScanned
    <3>7. /\ chunk' \in [ChunkId -> Chunk \cup {NoChunk}]
          /\ vector' \in [ChunkId -> [model : Settings, text : Text]]
          /\ nextChunk' \in 1..(MaxChunks + 1)
          /\ IdsInUse' /\ EmbeddersKnow'
          /\ VectorOfItsChunk' /\ OneVersionPerDoc'
      BY <3>1, <3>2, <3>3, StoreChunksKeeps
    <3>8. TypeOK'
      <4>1. text' \in [Doc -> Text] /\ nextText' \in 1..(MaxTexts + 1)
        BY <3>2, <3>4
      <4>2. nextDoc' \in 1..(MaxDocs + 1)
        BY <3>2, <3>4
      <4> QED BY <3>4, <3>7, <4>1, <4>2
    <3> QED BY <3>5, <3>6, <3>7, <3>8
  <2>2. ASSUME NEW d \in Doc, Edit(d) PROVE IndexInv'
    <3>1. PICK n \in Pieces(nextText) : StoreChunks(d, nextText, n)
      BY <2>2 DEF Edit
    <3>2. nextText \in Text \ {0}
      BY <2>2 DEF Edit
    <3>4. /\ text' = [text EXCEPT ![d] = nextText]
          /\ nextText' = nextText + 1
          /\ UNCHANGED <<nextDoc, bVars, eVars, sVars, fails, restarts>>
      BY <2>2 DEF Edit
    <3>5. NewDocsNeverDiverge'
      BY <3>1, <3>2, <3>4, StoreChunksFollow
    <3>6. SnapIsScanned'
      BY <3>4 DEF SnapIsScanned
    <3>7. /\ chunk' \in [ChunkId -> Chunk \cup {NoChunk}]
          /\ vector' \in [ChunkId -> [model : Settings, text : Text]]
          /\ nextChunk' \in 1..(MaxChunks + 1)
          /\ IdsInUse' /\ EmbeddersKnow'
          /\ VectorOfItsChunk' /\ OneVersionPerDoc'
      BY <3>1, <3>2, <3>4, StoreChunksKeeps
    <3>8. TypeOK'
      <4>1. text' \in [Doc -> Text] /\ nextText' \in 1..(MaxTexts + 1)
        BY <3>2, <3>4
      <4> QED BY <3>2, <3>4, <3>7, <4>1
    <3> QED BY <3>5, <3>6, <3>7, <3>8
  <2>3. ASSUME NEW d \in Doc, Delete(d) PROVE IndexInv'
    <3> USE <2>3 DEF Delete
    <3>1. TypeOK'
      BY DEF NoChunk, NoVector
    <3>2. IdsInUse' /\ EmbeddersKnow' /\ SnapIsScanned'
      BY DEF IdsInUse, EmbeddersKnow, SnapIsScanned
    <3>3. VectorOfItsChunk'
      BY DEF VectorOfItsChunk
    <3>4. \A b \in ChunkId : chunk'[b] # NoChunk => chunk'[b] = chunk[b]
      OBVIOUS
    <3>5. \A c \in ChunkId : chunk[c].doc # d => chunk'[c] = chunk[c]
      OBVIOUS
    <3>6. \A b \in ChunkId : chunk'[b] # NoChunk => chunk'[b].doc \notin {0, d}
      <4>1. \A b \in ChunkId : chunk[b] # NoChunk => chunk[b].doc # 0
        BY DEF NoChunk
      <4> QED BY <3>4, <4>1 DEF NoChunk
    <3>7. OneVersionPerDoc'
      BY <3>4, <3>5, <3>6 DEF OneVersionPerDoc, NoChunk
    <3>8. NewDocsNeverDiverge'
      <4> SUFFICES ASSUME NEW e \in Doc, e \notin scanned, e > NLegacy
                   PROVE  ChunksFollow(e)'
        BY DEF NewDocsNeverDiverge
      <4>1. CASE e = d
        BY <3>6, <4>1 DEF ChunksFollow, ChunksOf, NoChunk
      <4>2. CASE e # d
        <5>1. ChunksFollow(e) /\ text'[e] = text[e]
          BY <4>2 DEF NewDocsNeverDiverge
        <5>2. \A c \in ChunkId : chunk'[c].doc = e <=> chunk[c].doc = e
          BY <3>5, <4>2 DEF NoChunk
        <5> QED BY <3>5, <4>2, <5>1, <5>2 DEF ChunksFollow, ChunksOf
      <4> QED BY <4>1, <4>2
    <3> QED BY <3>1, <3>2, <3>3, <3>7, <3>8
  <2>4. ASSUME BackfillScan PROVE IndexInv'
    <3> USE <2>4 DEF BackfillScan
    <3>1. TypeOK'
      <4>1. snap' \in [Doc -> Text]
        OBVIOUS
      <4>2. scanned' \subseteq Doc
        OBVIOUS
      <4> QED BY <4>1, <4>2
    <3>2. SnapIsScanned'
      BY DEF SnapIsScanned
    <3>3. NewDocsNeverDiverge'
      BY DEF NewDocsNeverDiverge, ChunksFollow, ChunksOf
    <3> QED BY <3>1, <3>2, <3>3
            DEF IdsInUse, EmbeddersKnow, VectorOfItsChunk, OneVersionPerDoc
  <2>5. ASSUME NEW d \in Doc, BackfillReplace(d) PROVE IndexInv'
    <3>1. PICK n \in Pieces(snap[d]) : StoreChunks(d, snap[d], n)
      BY <2>5 DEF BackfillReplace
    <3>2. snap[d] \in Text \ {0}
      BY <2>5 DEF BackfillReplace
    <3>3. /\ snap' = [snap EXCEPT ![d] = 0]
          /\ UNCHANGED <<text, nextDoc, nextText, bpc, scanned, eVars, sVars,
                         fails, restarts>>
      BY <2>5 DEF BackfillReplace
    <3>4. NewDocsNeverDiverge'
      <4> SUFFICES ASSUME NEW e \in Doc, e \notin scanned, e > NLegacy
                   PROVE  ChunksFollow(e)'
        BY <3>3 DEF NewDocsNeverDiverge
      <4>1. e # d
        BY <3>2 DEF SnapIsScanned
      <4>2. ChunksFollow(e)
        BY DEF NewDocsNeverDiverge
      <4>3. \A c \in ChunkId, x \in Doc \ {d} :
              \/ chunk'[c] = chunk[c]
              \/ chunk'[c].doc # x /\ chunk[c].doc # x
        BY <3>1, <3>2, <3>3, StoreChunksKeeps
      <4>4. \A c \in ChunkId :
              /\ (chunk'[c].doc = e) <=> (chunk[c].doc = e)
              /\ (chunk[c].doc = e) => (chunk'[c] = chunk[c])
        BY <4>1, <4>3
      <4>5. ChunksOf(e)' = ChunksOf(e)
        BY <4>4 DEF ChunksOf
      <4>6. \A c \in ChunksOf(e) : chunk'[c] = chunk[c]
        BY <4>4 DEF ChunksOf
      <4> QED BY <3>3, <4>2, <4>5, <4>6 DEF ChunksFollow
    <3>5. SnapIsScanned'
      BY <3>3 DEF SnapIsScanned
    <3>7. /\ chunk' \in [ChunkId -> Chunk \cup {NoChunk}]
          /\ vector' \in [ChunkId -> [model : Settings, text : Text]]
          /\ nextChunk' \in 1..(MaxChunks + 1)
          /\ IdsInUse' /\ EmbeddersKnow'
          /\ VectorOfItsChunk' /\ OneVersionPerDoc'
      BY <3>1, <3>2, <3>3, StoreChunksKeeps
    <3>8. TypeOK'
      BY <3>2, <3>3, <3>7
    <3> QED BY <3>4, <3>5, <3>7, <3>8
  <2>6. ASSUME BackfillEnd PROVE IndexInv'
    BY <2>6 DEF BackfillEnd, IdsInUse, EmbeddersKnow, SnapIsScanned,
      VectorOfItsChunk, OneVersionPerDoc, NewDocsNeverDiverge, ChunksFollow,
      ChunksOf
  \* The rows stay as they are in all that is left but four actions.
  <2>a. ASSUME TypeOK', UNCHANGED <<dbVars, snap, scanned>>, EmbeddersKnow',
               \A e \in Embedder : \A c \in todo'[e] : c < nextChunk
        PROVE  IndexInv'
    <3>1. IdsInUse' /\ SnapIsScanned'
      BY <2>a DEF IdsInUse, SnapIsScanned
    <3>2. VectorOfItsChunk' /\ OneVersionPerDoc'
      BY <2>a DEF VectorOfItsChunk, OneVersionPerDoc
    <3>3. NewDocsNeverDiverge'
      BY <2>a DEF NewDocsNeverDiverge, ChunksFollow, ChunksOf
    <3> QED BY <2>a, <3>1, <3>2, <3>3
  <2>7. ASSUME LoopReadModel \/ BackfillReadModel \/ BackfillNoModel
               \/ BackfillList
        PROVE  IndexInv'
    <3>1. UNCHANGED <<dbVars, snap, scanned, todo, etext>>
      BY <2>7 DEF LoopReadModel, BackfillReadModel, ReadModel, BackfillNoModel,
         BackfillList
    <3>2. TypeOK'
      <4>1. CASE LoopReadModel
        BY <4>1 DEF LoopReadModel, ReadModel, Embedder
      <4>2. CASE BackfillReadModel
        BY <4>2 DEF BackfillReadModel, ReadModel, Embedder
      <4>3. CASE BackfillNoModel
        BY <4>3 DEF BackfillNoModel, Embedder
      <4>4. CASE BackfillList
        BY <4>4 DEF BackfillList, DocsMissing, Embedder
      <4> QED BY <2>7, <4>1, <4>2, <4>3, <4>4
    <3>3. EmbeddersKnow'
      BY <3>1 DEF EmbeddersKnow
    <3>4. \A e \in Embedder : \A c \in todo'[e] : c < nextChunk
      BY <3>1 DEF IdsInUse
    <3> QED BY <2>a, <3>1, <3>2, <3>3, <3>4
  <2>8. ASSUME LoopScan PROVE IndexInv'
    <3>1. CASE DocsMissing = {} /\ Return("loop")
      <4>1. UNCHANGED <<dbVars, bVars, edocs, sVars, fails, restarts>>
        BY <2>8 DEF LoopScan
      <4>2. "loop" \in Embedder
        BY DEF Embedder
      <4>3. /\ epc' \in [Embedder -> {"idle", "list", "scan", "calling", "done"}]
            /\ emodel' \in [Embedder -> Settings]
            /\ todo' \in [Embedder -> SUBSET ChunkId]
            /\ etext' \in [Embedder -> Text]
            /\ EmbeddersKnow'
            /\ \A x \in Embedder : \A c \in todo'[x] : c < nextChunk
        BY <3>1, <4>1, <4>2, ReturnKeeps
      <4>4. TypeOK'
        BY <4>1, <4>3
      <4> QED BY <2>a, <4>1, <4>3, <4>4
    <3>2. ASSUME NEW d \in DocsMissing, ReadMissing("loop", d), UNCHANGED emodel
          PROVE  IndexInv'
      <4>1. d \in Doc /\ "loop" \in Embedder
        BY DEF DocsMissing, Embedder
      <4>2. UNCHANGED <<dbVars, bVars, edocs, sVars, fails, restarts>>
        BY <2>8 DEF LoopScan
      <4>3. TypeOK' /\ EmbeddersKnow'
            /\ \A e \in Embedder : \A c \in todo'[e] : c < nextChunk
        BY <3>2, <4>1, <4>2, ReadMissingKnows DEF IdsInUse
      <4> QED BY <2>a, <4>2, <4>3
    <3> QED BY <2>8, <3>1, <3>2 DEF LoopScan
  <2>9. ASSUME BackfillNextDoc PROVE IndexInv'
    <3>1. UNCHANGED <<dbVars, bVars, sVars, fails, restarts>>
      BY <2>9 DEF BackfillNextDoc
    <3>2. CASE /\ epc' = [epc EXCEPT !["backfill"] = "done"]
               /\ emodel' = [emodel EXCEPT !["backfill"] = NoModel]
               /\ UNCHANGED <<edocs, todo, etext>>
      <4>1. TypeOK' /\ EmbeddersKnow'
        BY <3>1, <3>2 DEF EmbeddersKnow
      <4>2. \A e \in Embedder : \A c \in todo'[e] : c < nextChunk
        BY <3>2, <3>1 DEF IdsInUse
      <4> QED BY <2>a, <3>1, <4>1, <4>2
    <3>3. ASSUME NEW d \in edocs, edocs' = edocs \ {d},
                 ReadMissing("backfill", d), UNCHANGED emodel
          PROVE  IndexInv'
      <4>1. d \in Doc /\ "backfill" \in Embedder
        BY DEF Embedder
      <4>2. TypeOK' /\ EmbeddersKnow'
            /\ \A e \in Embedder : \A c \in todo'[e] : c < nextChunk
        BY <3>1, <3>3, <4>1, ReadMissingKnows DEF IdsInUse
      <4> QED BY <2>a, <3>1, <4>2
    <3> QED BY <2>9, <3>2, <3>3 DEF BackfillNextDoc
  <2>10. ASSUME NEW e \in Embedder, EmbedBatch(e) PROVE IndexInv'
    <3> DEFINE batch == FirstOf(todo[e])
    <3>1. batch \subseteq todo[e]
      BY DEF FirstOf
    <3>2. /\ vector' = [c \in ChunkId |->
                          IF c \in batch
                            THEN [model |-> emodel[e], text |-> etext[e]]
                            ELSE vector[c]]
          /\ UNCHANGED <<text, chunk, nextDoc, nextText, nextChunk, bVars,
                         edocs, sVars, fails, restarts>>
      BY <2>10 DEF EmbedBatch
    <3> HIDE DEF batch
    <3>3. \/ Return(e)
          \/ todo' = [todo EXCEPT ![e] = todo[e] \ batch]
             /\ UNCHANGED <<epc, emodel, etext>>
      BY <2>10 DEF EmbedBatch, batch
    <3>4. TypeOK'
      <4>1. vector' \in [ChunkId -> [model : Settings, text : Text]]
        BY <3>2
      <4>2. /\ epc' \in [Embedder -> {"idle", "list", "scan", "calling", "done"}]
            /\ emodel' \in [Embedder -> Settings]
            /\ todo' \in [Embedder -> SUBSET ChunkId]
            /\ etext' \in [Embedder -> Text]
        <5>1. CASE Return(e)
          BY <5>1 DEF Return
        <5>2. CASE /\ todo' = [todo EXCEPT ![e] = todo[e] \ batch]
                   /\ UNCHANGED <<epc, emodel, etext>>
          <6>1. todo[e] \ batch \in SUBSET ChunkId
            OBVIOUS
          <6> QED BY <5>2, <6>1
        <5> QED BY <3>3, <5>1, <5>2
      <4> QED BY <3>2, <4>1, <4>2
    <3>5. \A x \in Embedder : /\ todo'[x] \subseteq todo[x]
                              /\ todo'[x] # {} => etext'[x] = etext[x]
      BY <3>3 DEF Return
    <3>6. IdsInUse' /\ EmbeddersKnow'
      BY <3>1, <3>2, <3>5 DEF IdsInUse, EmbeddersKnow
    <3>7. VectorOfItsChunk'
      BY <3>1, <3>2 DEF VectorOfItsChunk, EmbeddersKnow
    <3>8. SnapIsScanned' /\ OneVersionPerDoc' /\ NewDocsNeverDiverge'
      BY <3>2 DEF SnapIsScanned, OneVersionPerDoc, NewDocsNeverDiverge,
         ChunksFollow, ChunksOf
    <3> QED BY <3>4, <3>6, <3>7, <3>8
  <2>11. ASSUME NEW e \in Embedder, EmbedFails(e) PROVE IndexInv'
    <3>1. UNCHANGED <<dbVars, bVars, edocs, sVars, restarts>> /\ Return(e)
      BY <2>11 DEF EmbedFails
    <3>2. fails' \in 0..MaxFails
      BY <2>11 DEF EmbedFails
    <3>3. /\ epc' \in [Embedder -> {"idle", "list", "scan", "calling", "done"}]
          /\ emodel' \in [Embedder -> Settings]
          /\ todo' \in [Embedder -> SUBSET ChunkId]
          /\ etext' \in [Embedder -> Text]
          /\ EmbeddersKnow'
          /\ \A x \in Embedder : \A c \in todo'[x] : c < nextChunk
      BY <3>1, ReturnKeeps
    <3>4. TypeOK'
      BY <3>1, <3>2, <3>3
    <3> QED BY <2>a, <3>1, <3>3, <3>4
  <2>12. ASSUME NEW m \in Model \cup {Off}, SetModel(m) PROVE IndexInv'
    <3>1. TypeOK' /\ EmbeddersKnow'
      BY <2>12 DEF SetModel, EmbeddersKnow
    <3>2. UNCHANGED <<dbVars, snap, scanned, todo>>
      BY <2>12 DEF SetModel
    <3>3. \A e \in Embedder : \A c \in todo'[e] : c < nextChunk
      BY <3>2 DEF IdsInUse
    <3> QED BY <2>a, <3>1, <3>2, <3>3
  <2>13. ASSUME Reindex PROVE IndexInv'
    <3> USE <2>13 DEF Reindex
    <3>1. TypeOK'
      BY DEF NoVector
    <3>2. IdsInUse' /\ EmbeddersKnow' /\ VectorOfItsChunk'
      BY DEF IdsInUse, EmbeddersKnow, VectorOfItsChunk
    <3>3. SnapIsScanned' /\ OneVersionPerDoc'
      BY DEF SnapIsScanned, OneVersionPerDoc
    <3>4. NewDocsNeverDiverge'
      BY DEF NewDocsNeverDiverge, ChunksFollow, ChunksOf
    <3> QED BY <3>1, <3>2, <3>3, <3>4
  <2>14. ASSUME Restart PROVE IndexInv'
    <3> USE <2>14 DEF Restart
    <3>1. TypeOK'
      OBVIOUS
    <3>2. IdsInUse' /\ EmbeddersKnow' /\ SnapIsScanned'
      BY DEF IdsInUse, EmbeddersKnow, SnapIsScanned
    <3> QED BY <3>1, <3>2 DEF VectorOfItsChunk, OneVersionPerDoc,
            NewDocsNeverDiverge, ChunksFollow, ChunksOf
  <2>15. ASSUME UNCHANGED vars PROVE IndexInv'
    BY <2>15 DEF vars, IdsInUse, EmbeddersKnow, SnapIsScanned,
       VectorOfItsChunk, OneVersionPerDoc, NewDocsNeverDiverge, ChunksFollow,
       ChunksOf
  <2> QED BY <2>1, <2>2, <2>3, <2>4, <2>5, <2>6, <2>7, <2>8, <2>9, <2>10,
            <2>11, <2>12, <2>13, <2>14, <2>15
          DEF Next, Backfill, Loop, Once, Embedder
<1> QED BY <1>1, <1>2, PTL DEF Spec

(* Every variable has its type.                                            *)
THEOREM TypeCorrect == Spec => []TypeOK
  BY Invariance, PTL DEF IndexInv

(* No chunk ever carries the vector of another text.                       *)
THEOREM VectorsBelongToTheirChunks == Spec => []VectorOfItsChunk
  BY Invariance, PTL DEF IndexInv

(* No document ever has chunks of two texts.                               *)
THEOREM DocumentsHaveOneVersion == Spec => []OneVersionPerDoc
  BY Invariance, PTL DEF IndexInv

(* The chunks of a document no backfill has read are those of its text.    *)
THEOREM UnscannedDocumentsNeverDiverge == Spec => []NewDocsNeverDiverge
  BY Invariance, PTL DEF IndexInv

-----------------------------------------------------------------------------
(* Search, for any rows, edits, page numbers and sizes, any limits and any *)
(* width of an int.                                                        *)

\* What the constants are.
LEMMA SearchNumbers ==
  /\ Ids \subseteq Int /\ IsFiniteSet(Ids) /\ Scores \subseteq Int /\ None \notin Scores
  /\ TopK \in Nat /\ K \in Nat /\ ScanLimit \in Nat /\ DefaultSize \in Nat /\ MaxSize \in Nat
  /\ Word \in Nat
  /\ TopK > 0 /\ K > 0 /\ DefaultSize > 0 /\ MaxSize > 0 /\ Word > 0
  /\ Asked \subseteq Int /\ Ids \subseteq Nat /\ MaxChanges \in Nat
BY SearchAssumption

\* What it means that a sequence is a ranking of a set.
IsRanking(s, S, score) ==
  /\ s \in Seq(S) /\ Len(s) = Cardinality(S) /\ ToSet(s) = S /\ IsInjective(s)
  /\ \A i, j \in S : Place(s, i) < Place(s, j) <=> Better(score, i, j)

\* The places of a sequence without repetitions.
LEMMA Places ==
  ASSUME NEW T, NEW s \in Seq(T), IsInjective(s)
  PROVE  /\ \A i \in ToSet(s) : Place(s, i) \in 1..Len(s) /\ s[Place(s, i)] = i
         /\ \A r \in 1..Len(s) : s[r] \in ToSet(s) /\ Place(s, s[r]) = r
<1>0. DOMAIN s = 1..Len(s)
  OBVIOUS
<1>1. ASSUME NEW i \in ToSet(s) PROVE Place(s, i) \in 1..Len(s) /\ s[Place(s, i)] = i
  <2>1. \E r \in DOMAIN s : s[r] = i
    BY DEF ToSet
  <2>2. Place(s, i) \in DOMAIN s /\ s[Place(s, i)] = i
    BY <2>1, Zenon DEF Place
  <2> QED
    BY <1>0, <2>2
<1>2. ASSUME NEW r \in 1..Len(s) PROVE s[r] \in ToSet(s) /\ Place(s, s[r]) = r
  <2>1. s[r] \in ToSet(s)
    BY <1>0 DEF ToSet
  <2>2. Place(s, s[r]) \in DOMAIN s /\ s[Place(s, s[r])] = s[r]
    BY <1>0, <1>1, <2>1
  <2> QED
    BY <1>0, <2>1, <2>2 DEF IsInjective
<1> QED
  BY <1>1, <1>2

\* Who stands at the place that is the number of those ahead of him: everybody
\* has a place of his own, from 1 to the number of all.
LEMMA RankedIsRanking ==
  ASSUME NEW S \in SUBSET Int, IsFiniteSet(S), NEW score, \A i \in S : score[i] \in Int
  PROVE  IsRanking(Ranked(S, score), S, score)
<1> DEFINE n == Cardinality(S)
           ahead(i) == Ahead(S, score, i)
           place == [i \in S |-> Cardinality(ahead(i)) + 1]
           R == Ranked(S, score)
<1>0. n \in Nat /\ IsFiniteSet(1..n) /\ Cardinality(1..n) = n
  BY FS_CardinalityType, FS_Interval
<1>1. /\ \A i, j \in S : i # j => Better(score, i, j) \/ Better(score, j, i)
      /\ \A i, j \in S : ~(Better(score, i, j) /\ Better(score, j, i))
      /\ \A i, j, m \in S : Better(score, i, j) /\ Better(score, j, m) => Better(score, i, m)
  BY DEF Better
<1>2. \A i \in S : ahead(i) \in SUBSET S /\ IsFiniteSet(ahead(i)) /\ Cardinality(ahead(i)) \in Nat
  BY FS_Subset, FS_CardinalityType DEF Ahead
<1>3. ASSUME NEW i \in S, NEW j \in S, Better(score, i, j)
      PROVE  place[i] < place[j]
  <2>1. ahead(i) \in SUBSET ahead(j) /\ i \in ahead(j) /\ i \notin ahead(i)
    BY <1>1, <1>3 DEF Ahead
  <2>2. /\ Cardinality(ahead(i)) <= Cardinality(ahead(j))
        /\ Cardinality(ahead(j)) = Cardinality(ahead(i)) => ahead(i) = ahead(j)
    BY <1>2, <2>1, FS_Subset
  <2> HIDE DEF ahead
  <2> QED
    BY <1>2, <2>1, <2>2
<1>4. \A i \in S : place[i] \in 1..n
  <2> SUFFICES ASSUME NEW i \in S PROVE place[i] \in 1..n
    OBVIOUS
  <2>1. ahead(i) \in SUBSET S /\ i \notin ahead(i)
    BY <1>1 DEF Ahead
  <2>2. /\ Cardinality(ahead(i)) <= n
        /\ n = Cardinality(ahead(i)) => S = ahead(i)
    BY <2>1, FS_Subset
  <2> HIDE DEF ahead, n
  <2> QED
    BY <1>0, <1>2, <2>1, <2>2
<1>5. place \in Injection(S, 1..n)
  <2>1. place \in [S -> 1..n]
    BY <1>4
  <2>2. \A i, j \in S : place[i] = place[j] => i = j
    <3> SUFFICES ASSUME NEW i \in S, NEW j \in S, i # j PROVE place[i] # place[j]
      OBVIOUS
    <3>1. place[i] < place[j] \/ place[j] < place[i]
      BY <1>1, <1>3
    <3>2. place[i] \in Int /\ place[j] \in Int
      BY <1>4
    <3> QED
      BY <3>1, <3>2
  <2> HIDE DEF place
  <2> QED
    BY <2>1, <2>2 DEF Injection, IsInjective
<1>6. place \in Surjection(S, 1..n)
  BY <1>0, <1>5, FS_Injection
<1>7. ASSUME NEW r \in 1..n PROVE R[r] \in S /\ place[R[r]] = r
  <2>1. PICK i \in S : place[i] = r
    BY <1>6 DEF Surjection
  <2>2. Cardinality(Ahead(S, score, i)) = r - 1
    BY <1>2, <2>1
  <2>3. R[r] = CHOOSE x \in S : Cardinality(Ahead(S, score, x)) = r - 1
    BY DEF Ranked
  <2>4. R[r] \in S /\ Cardinality(Ahead(S, score, R[r])) = r - 1
    BY <2>2, <2>3, Zenon
  <2> QED
    BY <1>0, <2>4
<1>8. R \in Seq(S) /\ Len(R) = n /\ DOMAIN R = 1..n
  <2>1. R = [r \in 1..n |-> R[r]]
    BY DEF Ranked
  <2>2. \A r \in 1..n : R[r] \in S
    BY <1>7
  <2> HIDE DEF R, n
  <2>3. R \in [1..n -> S]
    BY <2>1, <2>2
  <2> QED
    BY <1>0, <2>3
<1>9. IsInjective(R)
  <2> HIDE DEF R, n, place
  <2> QED
    BY <1>7, <1>8 DEF IsInjective
<1>10. ASSUME NEW i \in S PROVE place[i] \in 1..n /\ R[place[i]] = i
  <2>1. place[i] \in 1..n
    BY <1>4
  <2>2. R[place[i]] \in S /\ place[R[place[i]]] = place[i]
    BY <1>7, <2>1
  <2>3. DOMAIN place = S
    OBVIOUS
  <2> HIDE DEF place, R
  <2> QED
    BY <1>5, <2>1, <2>2, <2>3 DEF Injection, IsInjective
<1>11. ToSet(R) = S
  <2> HIDE DEF R, place
  <2> QED
    BY <1>7, <1>8, <1>10 DEF ToSet
<1>12. \A i \in S : Place(R, i) = place[i]
  BY <1>8, <1>9, <1>10, Places
<1>13. \A i, j \in S : place[i] < place[j] <=> Better(score, i, j)
  <2> SUFFICES ASSUME NEW i \in S, NEW j \in S, place[i] < place[j] PROVE Better(score, i, j)
    BY <1>3
  <2>1. place[i] \in Int /\ place[j] \in Int
    BY <1>4
  <2> HIDE DEF place
  <2> QED
    BY <1>1, <1>3, <2>1
<1> HIDE DEF R, place
<1> QED
  BY <1>8, <1>9, <1>11, <1>12, <1>13 DEF IsRanking, R

\* Every set of numbers has a least element.
LEMMA LeastNumber ==
  ASSUME NEW T \in SUBSET Nat, T # {}
  PROVE  \E n \in T : \A m \in T : n <= m
<1> DEFINE R == {ss \in Nat \X Nat : ss[1] < ss[2]}
<1>1. IsWellFoundedOn(R, Nat)
  BY NatLessThanWellFounded, Zenon DEF OpToRel
<1> HIDE DEF R
<1>2. PICK n \in T : \A m \in T : <<m, n>> \notin R
  BY <1>1, WFMin, Zenon
<1>3. \A m \in T : ~(m < n)
  BY <1>2 DEF R
<1> QED
  BY <1>3

\* The id that is given next is one that is still to be given.
LEMMA NextId ==
  ASSUME NEW T \in SUBSET Nat, T # {}
  PROVE  Min(T) \in T /\ \A m \in T : Min(T) <= m
<1>1. \E n \in T : \A m \in T : n <= m
  BY LeastNumber
<1> QED
  BY <1>1, Zenon DEF Min

\* Induction: a set that holds 0 and the successor of what it holds is complete.
LEMMA BoundedInduction ==
  ASSUME NEW N \in Nat, NEW T, 0 \in T, \A n \in 0..N : n \in T /\ n < N => n + 1 \in T
  PROVE  0..N \subseteq T
<1> SUFFICES ASSUME (0..N) \ T # {} PROVE FALSE
  OBVIOUS
<1> DEFINE U == (0..N) \ T
<1>0. U \in SUBSET Nat /\ U # {}
  OBVIOUS
<1>1. PICK n \in U : \A m \in U : n <= m
  BY <1>0, LeastNumber
<1>2. n - 1 \in 0..N /\ n - 1 < N /\ (n - 1) + 1 = n
  BY <1>1
<1>3. n - 1 \in T
  BY <1>1, <1>2
<1> QED
  BY <1>1, <1>2, <1>3

\* The smaller of two numbers.
LEMMA Smaller ==
  ASSUME NEW m \in Int, NEW n \in Int
  PROVE  Min({m, n}) = IF m <= n THEN m ELSE n
BY DEF Min

\* A part of a sequence without repetitions: what it holds, and where.
LEMMA Parts ==
  ASSUME NEW T, NEW s \in Seq(T), IsInjective(s), NEW lo \in Nat, NEW hi \in Nat,
         lo <= Len(s), lo <= hi
  PROVE  LET t == SubSeq(s, lo + 1, Min({Len(s), hi}))
         IN /\ t \in Seq(T) /\ IsInjective(t) /\ Len(t) <= hi - lo
            /\ ToSet(t) = {i \in ToSet(s) : lo < Place(s, i) /\ Place(s, i) <= hi}
            /\ \A i \in ToSet(t) : Place(t, i) = Place(s, i) - lo
<1> DEFINE m == Min({Len(s), hi})
           t == SubSeq(s, lo + 1, m)
<1>1. Len(s) \in Nat /\ m \in Nat /\ lo <= m /\ m <= Len(s) /\ m <= hi
      /\ (m = Len(s) \/ m = hi)
  BY Smaller
<1> HIDE DEF m
<1>2. t \in Seq(T) /\ Len(t) = m - lo /\ \A r \in 1..(m - lo) : t[r] = s[lo + r]
  BY <1>1
<1>3. /\ \A i \in ToSet(s) : Place(s, i) \in 1..Len(s) /\ s[Place(s, i)] = i
      /\ \A r \in 1..Len(s) : s[r] \in ToSet(s) /\ Place(s, s[r]) = r
  BY Places
<1> HIDE DEF t
<1>4. \A r \in 1..(m - lo) : lo + r \in 1..Len(s) /\ lo + r <= hi
  BY <1>1
<1>5. DOMAIN t = 1..(m - lo)
  BY <1>1, <1>2
<1>6. \A r \in 1..(m - lo) : Place(s, t[r]) = lo + r /\ t[r] \in ToSet(s)
  BY <1>2, <1>3, <1>4
<1>7. IsInjective(t)
  <2> SUFFICES ASSUME NEW a \in 1..(m - lo), NEW b \in 1..(m - lo), t[a] = t[b] PROVE a = b
    BY <1>5 DEF IsInjective
  <2>1. lo + a = lo + b
    BY <1>6
  <2> QED
    BY <1>1, <2>1
<1>8. \A r \in 1..(m - lo) : t[r] \in ToSet(t) /\ Place(t, t[r]) = r
  BY <1>1, <1>2, <1>7, Places
<1>9. ASSUME NEW i \in ToSet(s), lo < Place(s, i), Place(s, i) <= hi
      PROVE  i \in ToSet(t)
  <2>1. Place(s, i) \in 1..Len(s) /\ s[Place(s, i)] = i
    BY <1>3
  <2>2. Place(s, i) - lo \in 1..(m - lo) /\ lo + (Place(s, i) - lo) = Place(s, i)
    BY <1>1, <1>9, <2>1
  <2>3. t[Place(s, i) - lo] = i
    BY <1>2, <2>1, <2>2
  <2> QED
    BY <1>8, <2>2, <2>3
<1>10. ASSUME NEW i \in ToSet(t)
       PROVE  /\ i \in ToSet(s) /\ lo < Place(s, i) /\ Place(s, i) <= hi
              /\ Place(t, i) = Place(s, i) - lo
  <2>1. PICK r \in 1..(m - lo) : t[r] = i
    BY <1>5 DEF ToSet
  <2>2. Place(s, i) = lo + r /\ i \in ToSet(s) /\ Place(t, i) = r
    BY <1>6, <1>8, <2>1
  <2> QED
    BY <1>1, <1>4, <2>2
<1>11. ToSet(t) = {i \in ToSet(s) : lo < Place(s, i) /\ Place(s, i) <= hi}
  BY <1>9, <1>10
<1>12. Len(t) <= hi - lo
  BY <1>1, <1>2
<1> QED
  BY <1>2, <1>7, <1>10, <1>11, <1>12 DEF t, m

\* The first n of a sequence without repetitions.
LEMMA Firsts ==
  ASSUME NEW T, NEW s \in Seq(T), IsInjective(s), NEW n \in Nat
  PROVE  /\ First(s, n) \in Seq(T) /\ IsInjective(First(s, n)) /\ Len(First(s, n)) <= n
         /\ ToSet(First(s, n)) = {i \in ToSet(s) : Place(s, i) <= n}
         /\ \A i \in ToSet(First(s, n)) : Place(First(s, n), i) = Place(s, i)
<1>1. 0 \in Nat /\ 0 <= Len(s) /\ 0 <= n /\ 0 + 1 = 1 /\ n - 0 = n
  OBVIOUS
<1>2. \A i \in ToSet(s) : Place(s, i) \in 1..Len(s)
  BY Places
<1> DEFINE t == SubSeq(s, 0 + 1, Min({Len(s), n}))
<1>3. First(s, n) = t
  BY <1>1 DEF First
<1>4. /\ t \in Seq(T) /\ IsInjective(t) /\ Len(t) <= n - 0
      /\ ToSet(t) = {i \in ToSet(s) : 0 < Place(s, i) /\ Place(s, i) <= n}
      /\ \A i \in ToSet(t) : Place(t, i) = Place(s, i) - 0
  BY <1>1, Parts
<1>5. \A i \in ToSet(s) : Place(s, i) \in Int /\ 0 < Place(s, i) /\ Place(s, i) - 0 = Place(s, i)
  BY <1>2
<1> HIDE DEF t
<1> QED
  BY <1>1, <1>3, <1>4, <1>5

-----------------------------------------------------------------------------
(* The fractions of the fusion.                                            *)

\* The values of the recursive function Product, as far as n.
IsProduct(f, n) ==
  /\ f \in [0..n -> Nat \ {0}] /\ f[0] = 1
  /\ \A i \in 0..n : i < n => f[i + 1] = (K + (i + 1)) * f[i]

\* There are such values, as far as one likes.
LEMMA ProductsExist == \E f : IsProduct(f, TopK)
<1> DEFINE T == {n \in 0..TopK : \E f : IsProduct(f, n)}
<1>0. TopK \in Nat /\ K \in Nat
  BY SearchNumbers
<1>1. 0 \in T
  <2>1. IsProduct([i \in 0..0 |-> 1], 0)
    BY <1>0 DEF IsProduct
  <2> QED
    BY <1>0, <2>1
<1>2. ASSUME NEW n \in 0..TopK, n \in T, n < TopK PROVE n + 1 \in T
  <2>1. PICK f : IsProduct(f, n)
    BY <1>2
  <2> DEFINE g == [i \in 0..(n + 1) |-> IF i = n + 1 THEN (K + (n + 1)) * f[n] ELSE f[i]]
  <2>2. n \in Nat /\ n + 1 \in 0..TopK /\ f[n] \in Nat \ {0} /\ K + (n + 1) \in Nat \ {0}
    BY <1>0, <1>2, <2>1 DEF IsProduct
  <2>3. (K + (n + 1)) * f[n] \in Nat \ {0}
    BY <2>2
  <2>4. \A i \in 0..(n + 1) : g[i] \in Nat \ {0}
    BY <2>1, <2>2, <2>3 DEF IsProduct
  <2>5. g[0] = 1 /\ \A i \in 0..n : g[i] = f[i] /\ g[n + 1] = (K + (n + 1)) * f[n]
    BY <2>1, <2>2 DEF IsProduct
  <2>6. ASSUME NEW i \in 0..(n + 1), i < n + 1 PROVE g[i + 1] = (K + (i + 1)) * g[i]
    <3>1. CASE i = n
      BY <2>2, <2>5, <3>1
    <3>2. CASE i # n
      <4>1. i \in 0..n /\ i < n /\ i + 1 \in 0..n
        BY <2>2, <2>6, <3>2
      <4> HIDE DEF g
      <4> QED
        BY <2>1, <2>5, <4>1 DEF IsProduct
    <3> QED
      BY <3>1, <3>2
  <2>7. g \in [0..(n + 1) -> Nat \ {0}]
    BY <2>4
  <2> HIDE DEF g
  <2>8. IsProduct(g, n + 1)
    BY <2>5, <2>6, <2>7 DEF IsProduct
  <2> QED
    BY <2>2, <2>8
<1>3. 0..TopK \subseteq T
  <2> HIDE DEF T
  <2> QED
    BY <1>0, <1>1, <1>2, BoundedInduction
<1> QED
  BY <1>0, <1>3

\* The recursive definition has these values.
LEMMA ProductIs ==
  /\ Product[0] = 1
  /\ \A n \in 0..TopK : n < TopK => Product[n + 1] = (K + (n + 1)) * Product[n]
<1> DEFINE Is(f) == f = [n \in 0..TopK |-> IF n = 0 THEN 1 ELSE (K + n) * f[n - 1]]
           p == CHOOSE f : Is(f)
<1>0. TopK \in Nat /\ K \in Nat
  BY SearchNumbers
<1>1. PICK f : IsProduct(f, TopK)
  BY ProductsExist
<1>2. Is(f)
  <2>1. ASSUME NEW n \in 0..TopK PROVE f[n] = IF n = 0 THEN 1 ELSE (K + n) * f[n - 1]
    <3>1. CASE n = 0
      BY <1>1, <3>1 DEF IsProduct
    <3>2. CASE n # 0
      <4>1. n - 1 \in 0..TopK /\ n - 1 < TopK /\ (n - 1) + 1 = n
        BY <1>0, <3>2
      <4> QED
        BY <1>1, <3>2, <4>1 DEF IsProduct
    <3> QED
      BY <3>1, <3>2
  <2> QED
    BY <1>1, <2>1 DEF IsProduct
<1>3. Is(p)
  <2> HIDE DEF Is
  <2> QED
    BY <1>2, Zenon
<1>4. Product = p
  BY Zenon DEF Product
<1> HIDE DEF p
<1>5. \A n \in 0..TopK : n < TopK => n + 1 \in 0..TopK /\ n + 1 # 0 /\ (n + 1) - 1 = n
  BY <1>0
<1> QED
  BY <1>0, <1>3, <1>4, <1>5

\* K + 1 to K + TopK divide it.
LEMMA ProductDivides ==
  /\ Product[TopK] \in Nat \ {0}
  /\ \A r \in 1..TopK : \E q \in Nat : Product[TopK] = q * (K + r)
<1> DEFINE T == {n \in 0..TopK :
                   /\ Product[n] \in Nat \ {0}
                   /\ \A r \in 1..n : \E q \in Nat : Product[n] = q * (K + r)}
<1>0. TopK \in Nat /\ K \in Nat
  BY SearchNumbers
<1>1. 0 \in T
  BY <1>0, ProductIs
<1>2. ASSUME NEW n \in 0..TopK, n \in T, n < TopK PROVE n + 1 \in T
  <2> DEFINE P == Product[n]
  <2>1. /\ n \in Nat /\ n + 1 \in 0..TopK /\ P \in Nat \ {0} /\ K + (n + 1) \in Nat \ {0}
        /\ Product[n + 1] = (K + (n + 1)) * P
    BY <1>0, <1>2, ProductIs
  <2>2. Product[n + 1] \in Nat \ {0}
    BY <2>1
  <2>3. ASSUME NEW r \in 1..(n + 1)
        PROVE  \E q \in Nat : Product[n + 1] = q * (K + r)
    <3>1. CASE r = n + 1
      <4>1. Product[n + 1] = P * (K + r)
        BY <1>0, <2>1, <3>1
      <4> QED
        BY <2>1, <4>1
    <3>2. CASE r # n + 1
      <4>1. r \in 1..n
        BY <2>1, <3>2
      <4>2. PICK q \in Nat : P = q * (K + r)
        BY <1>2, <4>1
      <4>3. (K + (n + 1)) * (q * (K + r)) = ((K + (n + 1)) * q) * (K + r)
        BY <1>0, <2>1
      <4>4. (K + (n + 1)) * q \in Nat
        BY <2>1
      <4> QED
        BY <2>1, <4>2, <4>3, <4>4
    <3> QED
      BY <3>1, <3>2
  <2> QED
    BY <2>1, <2>2, <2>3
<1>3. TopK \in T
  <2> HIDE DEF T
  <2> QED
    BY <1>0, <1>1, <1>2, BoundedInduction
<1> QED
  BY <1>3

\* What a route gives is exactly the fraction.
LEMMA PartIs ==
  ASSUME NEW s \in Seq(Ids), IsInjective(s), Len(s) <= TopK, NEW i
  PROVE  /\ Part(s, i) \in Nat
         /\ i \in ToSet(s) => /\ Place(s, i) \in 1..TopK
                              /\ Part(s, i) * (K + Place(s, i)) = Product[TopK]
                              /\ Part(s, i) > 0
         /\ i \notin ToSet(s) => Part(s, i) = 0
<1>1. CASE i \notin ToSet(s)
  BY <1>1 DEF Part
<1>2. CASE i \in ToSet(s)
  <2> DEFINE r == Place(s, i)
  <2>0. TopK \in Nat /\ K \in Nat /\ Product[TopK] \in Nat \ {0}
    BY SearchNumbers, ProductDivides
  <2>1. r \in 1..Len(s) /\ Len(s) \in Nat
    BY <1>2, Places
  <2>2. r \in 1..TopK
    BY <2>0, <2>1
  <2>3. PICK q \in Nat : Product[TopK] = q * (K + r)
    BY <2>2, ProductDivides
  <2> HIDE DEF r
  <2>4. K + r \in Nat /\ K + r > 0
    BY <2>0, <2>2
  <2>5. (q * (K + r)) \div (K + r) = q
    BY <2>4
  <2>6. Part(s, i) = q
    BY <1>2, <2>3, <2>5 DEF Part, r
  <2>7. q # 0
    BY <2>0, <2>3, <2>4
  <2> QED
    BY <1>2, <2>2, <2>3, <2>6, <2>7 DEF r
<1> QED
  BY <1>1, <1>2

\* A place further ahead gives more.
LEMMA AheadGivesMore ==
  ASSUME NEW s \in Seq(Ids), IsInjective(s), Len(s) <= TopK, NEW a, NEW b, Leads(s, a, b)
  PROVE  Part(s, a) > Part(s, b)
<1>0. K \in Nat /\ TopK \in Nat /\ Product[TopK] \in Nat \ {0}
  BY SearchNumbers, ProductDivides
<1>1. /\ Part(s, a) \in Nat /\ Part(s, a) > 0 /\ Place(s, a) \in 1..TopK
      /\ Part(s, a) * (K + Place(s, a)) = Product[TopK]
  BY PartIs DEF Leads
<1>2. CASE b \notin ToSet(s)
  BY <1>1, <1>2, PartIs
<1>3. CASE b \in ToSet(s)
  <2>1. /\ Part(s, b) \in Nat /\ Place(s, b) \in 1..TopK /\ Place(s, a) < Place(s, b)
        /\ Part(s, b) * (K + Place(s, b)) = Product[TopK]
    BY <1>3, PartIs DEF Leads
  <2>2. ASSUME NEW x \in Nat, NEW y \in Nat, NEW m \in Nat, NEW n \in Nat,
               m < n, x * m = y * n, x > 0
        PROVE  x > y
    <3> SUFFICES ASSUME x <= y PROVE FALSE
      OBVIOUS
    <3>1. x * m < x * n
      BY <2>2
    <3>2. x * n <= y * n
      OBVIOUS
    <3>3. x * m \in Nat /\ x * n \in Nat /\ y * n \in Nat
      OBVIOUS
    <3> QED
      BY <2>2, <3>1, <3>2, <3>3
  <2>3. K + Place(s, a) \in Nat /\ K + Place(s, b) \in Nat /\ K + Place(s, a) < K + Place(s, b)
    BY <1>0, <1>1, <2>1
  <2> QED
    BY <1>1, <2>1, <2>2, <2>3
<1> QED
  BY <1>2, <1>3

\* Two places among the first K + 1 give more than any one place.
LEMMA TwoGiveMore ==
  ASSUME NEW s \in Seq(Ids), IsInjective(s), Len(s) <= TopK,
         NEW t \in Seq(Ids), IsInjective(t), Len(t) <= TopK,
         NEW u \in Seq(Ids), IsInjective(u), Len(u) <= TopK,
         NEW a \in ToSet(s) \cap ToSet(t), NEW b,
         Place(s, a) <= K + 1, Place(t, a) <= K + 1
  PROVE  Part(s, a) + Part(t, a) > Part(u, b)
<1> DEFINE D == Product[TopK]
<1>0. K \in Nat /\ TopK \in Nat /\ D \in Nat \ {0}
  BY SearchNumbers, ProductDivides
<1>1. /\ Part(s, a) \in Nat /\ Part(s, a) > 0 /\ Place(s, a) \in 1..TopK
      /\ Part(s, a) * (K + Place(s, a)) = D
      /\ Part(t, a) \in Nat /\ Part(t, a) > 0 /\ Place(t, a) \in 1..TopK
      /\ Part(t, a) * (K + Place(t, a)) = D
      /\ Part(u, b) \in Nat
  BY PartIs
<1>2. CASE b \notin ToSet(u)
  BY <1>1, <1>2, PartIs
<1>3. CASE b \in ToSet(u)
  <2>1. Place(u, b) \in 1..TopK /\ Part(u, b) * (K + Place(u, b)) = D
    BY <1>3, PartIs
  <2> DEFINE m == K + K + 1
  <2>2. ASSUME NEW x \in Nat, NEW k \in Nat, k <= m, x * k = D PROVE x * m >= D
    <3>1. m \in Nat
      BY <1>0
    <3> HIDE DEF m
    <3>2. x * k <= x * m
      BY <2>2, <3>1
    <3> QED
      BY <2>2, <3>1, <3>2
  <2>3. Part(s, a) * m >= D /\ Part(t, a) * m >= D
    BY <1>0, <1>1, <2>2
  <2>4. Part(u, b) * (K + 1) <= D
    <3>1. K + 1 \in Nat /\ K + Place(u, b) \in Nat /\ K + 1 <= K + Place(u, b)
      BY <1>0, <2>1
    <3>2. \A x, y, z \in Nat : y <= z => x * y <= x * z
      OBVIOUS
    <3>3. Part(u, b) * (K + 1) <= Part(u, b) * (K + Place(u, b))
      BY <1>1, <3>1, <3>2
    <3> QED
      BY <2>1, <3>3
  <2>5. ASSUME NEW x \in Nat, NEW y \in Nat, NEW z \in Nat,
               x * m >= D, y * m >= D, z * (K + 1) <= D
        PROVE  x + y > z
    <3> SUFFICES ASSUME x + y <= z PROVE FALSE
      OBVIOUS
    <3>1. (x + y) * (K + 1) <= z * (K + 1)
      BY <1>0
    <3>2. (x + y) * m >= D + D
      BY <1>0, <2>5
    <3>3. (x + y) * m = (x + y) * (K + 1) + (x + y) * K
      BY <1>0
    <3>4. (x + y) * K < (x + y) * (K + 1) \/ x + y = 0
      BY <1>0
    <3> HIDE DEF D, m
    <3> QED
      BY <1>0, <2>5, <3>1, <3>2, <3>3, <3>4
  <2> HIDE DEF D, m
  <2> QED
    BY <1>1, <2>3, <2>4, <2>5
<1> QED
  BY <1>2, <1>3

\* A row that is compared has a score, a number.
LEMMA Scored ==
  ASSUME SearchTypeOK
  PROVE  /\ Visible \in SUBSET Ids /\ Matching \in SUBSET Visible /\ Near \in SUBSET Visible
         /\ \A i \in Matching : rows[i].lex \in Int
         /\ \A i \in Near : rows[i].vec \in Int
<1>1. Scores \subseteq Int
  BY SearchNumbers
<1>2. \A r \in Rows : r.visible => r.lex \in Scores \cup {None} /\ r.vec \in Scores \cup {None}
  <2> SUFFICES ASSUME NEW r \in Rows, r.visible
               PROVE  r.lex \in Scores \cup {None} /\ r.vec \in Scores \cup {None}
    OBVIOUS
  <2>1. CASE r \in [visible : {TRUE}, lex : Scores \cup {None}, vec : Scores \cup {None}]
    BY <2>1
  <2>2. CASE r = [visible |-> FALSE, lex |-> Max(Scores), vec |-> Max(Scores)]
    <3>1. r.visible = FALSE
      BY <2>2
    <3> QED
      BY <3>1
  <2> QED
    BY <2>1, <2>2 DEF Rows
<1>3. \A i \in Ids : rows[i] # None => rows[i] \in Rows
  BY DEF SearchTypeOK
<1>4. \A i \in Visible : i \in Ids /\ rows[i] \in Rows /\ rows[i].visible
  BY <1>3 DEF Visible
<1>5. \A i \in Visible : rows[i].lex \in Scores \cup {None} /\ rows[i].vec \in Scores \cup {None}
  BY <1>2, <1>4
<1> QED
  BY <1>1, <1>4, <1>5 DEF Matching, Near

\* A ranking of rows.
LEMMA RowsRanked ==
  ASSUME NEW S \in SUBSET Ids, NEW score, \A i \in S : score[i] \in Int
  PROVE  LET s == Ranked(S, score)
         IN /\ s \in Seq(Ids) /\ IsInjective(s) /\ ToSet(s) = S
            /\ \A i, j \in S : Place(s, i) < Place(s, j) <=> Better(score, i, j)
<1>1. S \in SUBSET Int /\ IsFiniteSet(S)
  BY SearchNumbers, FS_Subset
<1>2. IsRanking(Ranked(S, score), S, score)
  BY <1>1, RankedIsRanking
<1> QED
  BY <1>2 DEF IsRanking

\* The lexical route: every row that matches, once.
LEMMA LexicalRanked ==
  ASSUME SearchTypeOK
  PROVE  LET s == Ranked(Matching, [i \in Matching |-> rows[i].lex])
         IN s \in Seq(Ids) /\ IsInjective(s) /\ ToSet(s) = Matching
<1> DEFINE score == [i \in Matching |-> rows[i].lex]
<1>1. Matching \in SUBSET Ids /\ \A i \in Matching : score[i] \in Int
  BY Scored
<1> HIDE DEF score
<1>2. LET s == Ranked(Matching, score)
      IN s \in Seq(Ids) /\ IsInjective(s) /\ ToSet(s) = Matching
  BY <1>1, RowsRanked
<1> QED
  BY <1>2 DEF score

\* The vector route: TopK rows with a vector at most, none twice.
LEMMA VectorRanked ==
  ASSUME SearchTypeOK
  PROVE  LET s == First(Ranked(Scanned, [i \in Scanned |-> rows[i].vec]), TopK)
         IN s \in Seq(Ids) /\ IsInjective(s) /\ Len(s) <= TopK /\ ToSet(s) \subseteq Near
<1> DEFINE score == [i \in Scanned |-> rows[i].vec]
           r == Ranked(Scanned, score)
<1>1. Scanned \in SUBSET Ids /\ Scanned \subseteq Near /\ \A i \in Scanned : score[i] \in Int
  BY Scored DEF Scanned
<1> HIDE DEF score
<1>2. r \in Seq(Ids) /\ IsInjective(r) /\ ToSet(r) = Scanned
  BY <1>1, RowsRanked
<1>3. TopK \in Nat
  BY SearchNumbers
<1> HIDE DEF r
<1>4. /\ First(r, TopK) \in Seq(Ids) /\ IsInjective(First(r, TopK)) /\ Len(First(r, TopK)) <= TopK
      /\ ToSet(First(r, TopK)) \subseteq ToSet(r)
  BY <1>2, <1>3, Firsts
<1> QED
  BY <1>1, <1>2, <1>4 DEF r, score

\* What the fusion ranks.
Fusing == Loaded(ToSet(First(lex, TopK)) \cup ToSet(vec))
FusedScore == [i \in Fusing |-> Part(First(lex, TopK), i) + Part(vec, i)]

\* The ranking is of these rows, by this score.
LEMMA Fusion ==
  ASSUME SearchTypeOK, RoutesAreRankings
  PROVE  LET top == First(lex, TopK)
             s == Fused(top, vec, Loaded(ToSet(top) \cup ToSet(vec)))
         IN /\ top \in Seq(Ids) /\ IsInjective(top) /\ Len(top) <= TopK
            /\ ToSet(top) \subseteq ToSet(lex)
            /\ s \in Seq(Ids) /\ IsInjective(s) /\ ToSet(s) = Fusing
            /\ \A i, j \in Fusing : FusedScore[i] > FusedScore[j] => Place(s, i) < Place(s, j)
            /\ \A i \in Fusing : FusedScore[i] = Part(top, i) + Part(vec, i)
<1> DEFINE top == First(lex, TopK)
           s == Fused(top, vec, Loaded(ToSet(top) \cup ToSet(vec)))
<1>0. TopK \in Nat /\ lex \in Seq(Ids) /\ vec \in Seq(Ids) /\ IsInjective(lex)
      /\ IsInjective(vec) /\ Len(vec) <= TopK
  BY SearchNumbers DEF SearchTypeOK, RoutesAreRankings
<1>1. /\ top \in Seq(Ids) /\ IsInjective(top) /\ Len(top) <= TopK
      /\ ToSet(top) \subseteq ToSet(lex)
  BY <1>0, Firsts
<1>2. ToSet(top) \subseteq Ids /\ ToSet(vec) \subseteq Ids
  BY <1>0, <1>1 DEF ToSet
<1> HIDE DEF top
<1>3. \A i : Part(top, i) \in Nat /\ Part(vec, i) \in Nat
  BY <1>0, <1>1, PartIs
<1>4. Fusing \in SUBSET Ids
  BY <1>2 DEF Fusing, Loaded, top
<1>5. FusedScore = [i \in Fusing |-> Part(top, i) + Part(vec, i)]
  BY DEF FusedScore, top
<1>6. \A i \in Fusing : FusedScore[i] = Part(top, i) + Part(vec, i) /\ FusedScore[i] \in Int
  BY <1>3, <1>5
<1>7. s = Ranked(Fusing, FusedScore)
  BY <1>5 DEF Fused, Fusing, top
<1>8. /\ s \in Seq(Ids) /\ IsInjective(s) /\ ToSet(s) = Fusing
      /\ \A i, j \in Fusing : Place(s, i) < Place(s, j) <=> Better(FusedScore, i, j)
  BY <1>4, <1>6, <1>7, RowsRanked
<1> HIDE DEF s
<1>9. \A i, j \in Fusing : FusedScore[i] > FusedScore[j] => Place(s, i) < Place(s, j)
  BY <1>8 DEF Better
<1> QED
  BY <1>1, <1>6, <1>8, <1>9 DEF top, s

\* A chunk that is to be preferred has more.
LEMMA Preferred ==
  ASSUME SearchTypeOK, RoutesAreRankings, NEW a \in Ids, NEW b \in Ids,
         Prefer(First(lex, TopK), a, b)
  PROVE  Part(First(lex, TopK), a) + Part(vec, a) > Part(First(lex, TopK), b) + Part(vec, b)
<1> DEFINE top == First(lex, TopK)
<1>1. /\ top \in Seq(Ids) /\ IsInjective(top) /\ Len(top) <= TopK
      /\ vec \in Seq(Ids) /\ IsInjective(vec) /\ Len(vec) <= TopK
  BY Fusion DEF SearchTypeOK, RoutesAreRankings
<1>2. Prefer(top, a, b)
  OBVIOUS
<1> HIDE DEF top
<1>3. \A i \in Ids : /\ Part(top, i) \in Nat /\ Part(vec, i) \in Nat
                     /\ i \notin ToSet(top) => Part(top, i) = 0
                     /\ i \notin ToSet(vec) => Part(vec, i) = 0
  BY <1>1, PartIs
<1>4. CASE a \in Agreed(top) /\ b \notin ToSet(top) \cap ToSet(vec)
  <2>1. K + 1 \in Nat
    BY SearchNumbers
  <2>2. /\ a \in ToSet(top) \cap ToSet(vec)
        /\ Place(top, a) <= K + 1 /\ Place(vec, a) <= K + 1
    BY <1>1, <1>4, <2>1, Firsts DEF Agreed
  <2>3. /\ Part(top, a) + Part(vec, a) > Part(top, b)
        /\ Part(top, a) + Part(vec, a) > Part(vec, b)
    BY <1>1, <2>2, TwoGiveMore
  <2>4. Part(top, b) = 0 \/ Part(vec, b) = 0
    BY <1>3, <1>4
  <2> QED
    BY <1>3, <2>3, <2>4 DEF top
<1>5. CASE Leads(top, a, b) /\ Leads(vec, a, b)
  <2>1. Part(top, a) > Part(top, b) /\ Part(vec, a) > Part(vec, b)
    BY <1>1, <1>5, AheadGivesMore
  <2> QED
    BY <1>3, <2>1 DEF top
<1>6. CASE Leads(top, a, b) /\ {a, b} \cap ToSet(vec) = {}
  <2>1. Part(top, a) > Part(top, b) /\ Part(vec, a) = 0 /\ Part(vec, b) = 0
    BY <1>1, <1>3, <1>6, AheadGivesMore
  <2> QED
    BY <1>3, <2>1 DEF top
<1>7. CASE Leads(vec, a, b) /\ {a, b} \cap ToSet(top) = {}
  <2>1. Part(vec, a) > Part(vec, b) /\ Part(top, a) = 0 /\ Part(top, b) = 0
    BY <1>1, <1>3, <1>7, AheadGivesMore
  <2> QED
    BY <1>3, <2>1 DEF top
<1> QED
  BY <1>2, <1>4, <1>5, <1>6, <1>7 DEF Prefer

-----------------------------------------------------------------------------
(* The invariant: one lemma for every action.                              *)

LEMMA SearchStarts == SearchInit => SearchInv
<1> SUFFICES ASSUME SearchInit PROVE SearchInv
  OBVIOUS
<1>0. MaxChanges \in Nat
  BY SearchNumbers
<1>1. SearchTypeOK
  BY <1>0 DEF SearchInit, SearchTypeOK, Unasked, NoAnswer
<1>2. IsInjective(<<>>) /\ Len(<<>>) = 0 /\ ToSet(<<>>) = {}
  BY DEF IsInjective, ToSet
<1>3. RoutesAreRead /\ RoutesAreRankings /\ NewIdsAreUnseen
  BY <1>2, SearchNumbers DEF SearchInit, RoutesAreRead, RoutesAreRankings, NewIdsAreUnseen
<1>4. SearchHolds
  BY DEF SearchInit, SearchHolds, RoutesAgree, RankingIsComplete, PagesAgree
<1> QED
  BY <1>1, <1>3, <1>4 DEF SearchInv

LEMMA LexicalKeeps == SearchInv /\ ReadLexical => SearchInv'
<1> SUFFICES ASSUME SearchInv, ReadLexical PROVE SearchInv'
  OBVIOUS
<1> USE DEF SearchInv
<1>1. lex' \in Seq(Ids) /\ IsInjective(lex') /\ ToSet(lex') = Matching
  BY LexicalRanked DEF ReadLexical
<1>2. vec = <<>> /\ vec' = <<>> /\ Len(vec) = 0 /\ ToSet(vec) = {}
  BY DEF ReadLexical, RoutesAreRead, ToSet
<1>3. SearchTypeOK'
  BY <1>1 DEF ReadLexical, SearchTypeOK
<1>4. (RoutesAreRead /\ RoutesAreRankings /\ NewIdsAreUnseen)'
  BY <1>1, <1>2 DEF ReadLexical, RoutesAreRead, RoutesAreRankings, NewIdsAreUnseen
<1>5. RankingIsComplete'
  <2> SUFFICES ASSUME pc' = "page" PROVE RankingIsComplete'
    BY DEF ReadLexical, RankingIsComplete
  <2>1. all' = lex'
    BY DEF ReadLexical
  <2>2. ToSet(First(lex', TopK)) \subseteq ToSet(lex')
    BY <1>1, SearchNumbers, Firsts
  <2> QED
    BY <1>1, <1>2, <2>1, <2>2 DEF RankingIsComplete
<1>6. (RoutesAgree /\ PagesAgree)'
  BY <1>2 DEF ReadLexical, RoutesAgree, PagesAgree
<1> QED
  BY <1>3, <1>4, <1>5, <1>6 DEF SearchHolds

LEMMA VectorKeeps == SearchInv /\ (ReadVector \/ LexicalOnly) => SearchInv'
<1> SUFFICES ASSUME SearchInv, ReadVector \/ LexicalOnly PROVE SearchInv'
  OBVIOUS
<1> USE DEF SearchInv
<1>1. CASE ReadVector
  <2>1. vec' \in Seq(Ids) /\ IsInjective(vec') /\ Len(vec') <= TopK /\ ToSet(vec') \subseteq Near
    BY <1>1, VectorRanked DEF ReadVector
  <2>2. SearchTypeOK'
    BY <1>1, <2>1 DEF ReadVector, SearchTypeOK
  <2>3. NewIdsAreUnseen'
    BY <1>1, <2>1 DEF ReadVector, NewIdsAreUnseen, Near, Visible
  <2>4. (RoutesAreRead /\ RoutesAreRankings)'
    BY <1>1, <2>1 DEF ReadVector, RoutesAreRead, RoutesAreRankings
  <2>5. SearchHolds'
    BY <1>1 DEF ReadVector, SearchHolds, RoutesAgree, RankingIsComplete, PagesAgree
  <2> QED
    BY <2>2, <2>3, <2>4, <2>5
<1>2. CASE LexicalOnly
  <2>1. SearchTypeOK'
    BY <1>2 DEF LexicalOnly, SearchTypeOK
  <2>2. (NewIdsAreUnseen /\ RoutesAreRead /\ RoutesAreRankings)'
    BY <1>2 DEF LexicalOnly, RoutesAreRead, RoutesAreRankings, NewIdsAreUnseen
  <2>3. SearchHolds'
    BY <1>2 DEF LexicalOnly, SearchHolds, RoutesAgree, RankingIsComplete, PagesAgree
  <2> QED
    BY <2>1, <2>2, <2>3
<1> QED
  BY <1>1, <1>2

LEMMA FuseKeeps == SearchInv /\ Fuse => SearchInv'
<1> SUFFICES ASSUME SearchInv, Fuse PROVE SearchInv'
  OBVIOUS
<1> USE DEF SearchInv
<1> DEFINE top == First(lex, TopK)
<1>0. /\ pc' = "page" /\ rows' = rows /\ fresh' = fresh /\ changes' = changes /\ level' = level
      /\ lex' = lex /\ vec' = vec /\ asked' = asked /\ answer' = answer
  BY DEF Fuse
<1>1. top \in Seq(Ids) /\ IsInjective(top) /\ Len(top) <= TopK /\ ToSet(top) \subseteq ToSet(lex)
  BY Fusion
<1>2. ASSUME vec = <<>> PROVE all' \in Seq(Ids) /\ RankingIsComplete' /\ RoutesAgree'
  <2>1. all' = lex
    BY <1>2 DEF Fuse
  <2>2. ToSet(vec) = {}
    BY <1>2 DEF ToSet
  <2>3. RankingIsComplete'
    BY <1>0, <1>1, <2>1, <2>2 DEF RankingIsComplete, RoutesAreRankings
  <2>4. all' \in Seq(Ids) /\ RoutesAgree'
    BY <1>0, <1>2, <2>1 DEF RoutesAgree, SearchTypeOK
  <2> QED
    BY <2>3, <2>4
<1>3. ASSUME vec # <<>> PROVE all' \in Seq(Ids) /\ RankingIsComplete' /\ RoutesAgree'
  <2>1. all' = Fused(top, vec, Loaded(ToSet(top) \cup ToSet(vec)))
    BY <1>3 DEF Fuse
  <2>2. /\ all' \in Seq(Ids) /\ IsInjective(all') /\ ToSet(all') = Fusing
        /\ \A i, j \in Fusing :
             FusedScore[i] > FusedScore[j] => Place(all', i) < Place(all', j)
        /\ \A i \in Fusing : FusedScore[i] = Part(top, i) + Part(vec, i)
    BY <2>1, Fusion
  <2>3. /\ ToSet(top) \subseteq Fusing /\ Fusing \subseteq ToSet(top) \cup ToSet(vec)
        /\ \A i \in ToSet(vec) : rows[i] # None => i \in Fusing
    BY <1>1 DEF Fusing, Loaded
  <2>4. RankingIsComplete'
    BY <1>0, <1>1, <1>3, <2>2, <2>3 DEF RankingIsComplete
  <2>5. RoutesAgree'
    <3> SUFFICES ASSUME NEW a \in Fusing, NEW b \in Fusing, Prefer(top, a, b)'
                 PROVE  Place(all', a) < Place(all', b)
      BY <1>0, <2>2 DEF RoutesAgree
    <3>1. Prefer(top, a, b)
      BY <1>0 DEF Prefer, Agreed, Leads, First, Place
    <3>2. a \in Ids /\ b \in Ids
      BY <1>1, <2>3 DEF SearchTypeOK, ToSet
    <3>3. FusedScore[a] > FusedScore[b]
      BY <2>2, <3>1, <3>2, Preferred
    <3> QED
      BY <2>2, <3>3
  <2> QED
    BY <2>2, <2>4, <2>5
<1>4. all' \in Seq(Ids) /\ RankingIsComplete' /\ RoutesAgree'
  BY <1>2, <1>3
<1>5. SearchTypeOK'
  BY <1>0, <1>4 DEF SearchTypeOK
<1>6. (NewIdsAreUnseen /\ RoutesAreRead /\ RoutesAreRankings)'
  BY <1>0 DEF RoutesAreRead, RoutesAreRankings, NewIdsAreUnseen
<1>7. PagesAgree'
  BY <1>0 DEF PagesAgree
<1> QED
  BY <1>4, <1>5, <1>6, <1>7 DEF SearchHolds

\* An int that is one is itself.
LEMMA Fits ==
  ASSUME NEW n \in Int, -Word <= n, n < Word
  PROVE  Wrapped(n) = n
<1>1. Word \in Nat /\ Word > 0
  BY SearchNumbers
<1>2. \A x, y \in Nat : x < y => x % y = x
  OBVIOUS
<1>3. n + Word \in Nat /\ 2 * Word \in Nat /\ n + Word < 2 * Word
  BY <1>1
<1> QED
  BY <1>1, <1>2, <1>3 DEF Wrapped

\* A page number and a size that are asked for, after clamping; the offset is
\* right as long as it is an int.
LEMMA Clamped ==
  ASSUME NEW p \in Asked, NEW s \in Asked
  PROVE  /\ Page(p) \in Nat /\ Page(p) >= 1 /\ Page(p) - 1 < Word
         /\ Size(s) \in Nat /\ Size(s) >= 1
         /\ (Page(p) - 1) * Size(s) \in Nat
         /\ Page(p) * Size(s) = (Page(p) - 1) * Size(s) + Size(s)
         /\ (Page(p) - 1) * Size(s) < Word => Start(p, s) = (Page(p) - 1) * Size(s)
<1>1. Word \in Nat /\ Word > 0 /\ DefaultSize \in Nat /\ DefaultSize > 0 /\ MaxSize \in Nat /\ MaxSize > 0
  BY SearchNumbers
<1>2. p \in Int /\ p < Word /\ s \in Int
  BY <1>1, SearchAssumption
<1>3. Page(p) \in Nat /\ Page(p) >= 1 /\ Page(p) - 1 < Word
  BY <1>1, <1>2 DEF Page
<1>4. Size(s) \in Nat /\ Size(s) >= 1
  BY <1>1, <1>2 DEF Size
<1>5. ASSUME NEW x \in Nat, NEW y \in Nat, x >= 1
      PROVE  (x - 1) * y \in Nat /\ x * y = (x - 1) * y + y
  BY <1>5
<1>6. Wrapped(Page(p) - 1) = Page(p) - 1
  BY <1>1, <1>3, Fits
<1>7. (Page(p) - 1) * Size(s) \in Nat /\ Page(p) * Size(s) = (Page(p) - 1) * Size(s) + Size(s)
  BY <1>3, <1>4, <1>5
<1>8. (Page(p) - 1) * Size(s) < Word => Start(p, s) = (Page(p) - 1) * Size(s)
  BY <1>1, <1>6, <1>7, Fits DEF Start
<1> QED
  BY <1>3, <1>4, <1>7, <1>8

LEMMA PageKeeps ==
  ASSUME SearchInv, NEW p \in Asked, NEW s \in Asked, AnswerPage(p, s)
  PROVE  SearchInv'
<1> USE DEF SearchInv
<1> DEFINE lo == (Page(p) - 1) * Size(s)
           hi == Page(p) * Size(s)
           from == Start(p, s)
<1>0. /\ pc = "page" /\ pc' = "done" /\ rows' = rows /\ fresh' = fresh /\ changes' = changes
      /\ level' = level /\ lex' = lex /\ vec' = vec /\ all' = all
      /\ asked' = [page |-> p, size |-> s]
      /\ from >= 0
      /\ answer' = [total |-> Len(all),
                    items |-> IF from >= Len(all) THEN <<>>
                              ELSE Slice(all, from, from + Size(s))]
  BY DEF AnswerPage
<1>1. all \in Seq(Ids) /\ IsInjective(all)
  BY <1>0 DEF SearchTypeOK, SearchHolds, RankingIsComplete
<1>2. from \in Nat
  <2>1. Word \in Nat /\ Word > 0 /\ Wrapped(Page(p) - 1) * Size(s) \in Int
    <3>1. Word \in Nat /\ Word > 0
      BY SearchNumbers
    <3>2. Wrapped(Page(p) - 1) \in Int
      BY <3>1, Clamped DEF Wrapped
    <3> QED
      BY <3>1, <3>2, Clamped
  <2>2. from \in Int
    BY <2>1 DEF Start, Wrapped
  <2> QED
    BY <1>0, <2>2
<1> HIDE DEF from
<1>3. ASSUME from < Len(all)
      PROVE  LET t == SubSeq(all, from + 1, Min({Len(all), from + Size(s)}))
             IN /\ t \in Seq(Ids) /\ IsInjective(t)
                /\ ToSet(t) = {i \in ToSet(all) : from < Place(all, i)
                                               /\ Place(all, i) <= from + Size(s)}
                /\ \A i \in ToSet(t) : Place(t, i) = Place(all, i) - from
  <2> DEFINE end == from + Size(s)
             t == SubSeq(all, from + 1, Min({Len(all), end}))
  <2>1. end \in Nat /\ from <= end /\ from <= Len(all)
    <3>1. Size(s) \in Nat
      BY Clamped
    <3> QED
      BY <1>1, <1>2, <1>3, <3>1
  <2> HIDE DEF end
  <2>2. /\ t \in Seq(Ids) /\ IsInjective(t)
        /\ ToSet(t) = {i \in ToSet(all) : from < Place(all, i) /\ Place(all, i) <= end}
        /\ \A i \in ToSet(t) : Place(t, i) = Place(all, i) - from
    BY <1>1, <1>2, <2>1, Parts
  <2> QED
    BY <2>2 DEF end
<1>4. \A i \in ToSet(all) : Place(all, i) \in 1..Len(all)
  BY <1>1, Places
<1>5. IsInjective(<<>>) /\ ToSet(<<>>) = {} /\ <<>> \in Seq(Ids)
  BY DEF IsInjective, ToSet
<1> DEFINE items == IF from >= Len(all) THEN <<>> ELSE Slice(all, from, from + Size(s))
<1>6. /\ items \in Seq(Ids) /\ IsInjective(items)
      /\ ToSet(items) = {i \in ToSet(all) : from < Place(all, i)
                                         /\ Place(all, i) <= from + Size(s)}
      /\ \A i \in ToSet(items) : Place(items, i) = Place(all, i) - from
  <2>1. CASE from >= Len(all)
    <3>1. items = <<>>
      BY <2>1
    <3>2. \A i \in ToSet(all) : ~(from < Place(all, i))
      BY <1>1, <1>2, <1>4, <2>1
    <3> HIDE DEF items
    <3> QED
      BY <1>5, <3>1, <3>2
  <2>2. CASE ~(from >= Len(all))
    <3>1. from < Len(all)
      BY <1>1, <1>2, <2>2
    <3>2. items = SubSeq(all, from + 1, Min({Len(all), from + Size(s)}))
      BY <2>2, Zenon DEF Slice
    <3> HIDE DEF items
    <3> QED
      BY <1>3, <3>1, <3>2
  <2> QED
    BY <2>1, <2>2
<1>7. answer' = [total |-> Len(all), items |-> items] /\ answer'.items = items
      /\ answer'.total = Len(all)
  BY <1>0
<1> HIDE DEF items, lo, hi
<1>8. SearchTypeOK'
  <2>1. answer' \in [total : Nat \cup {-1}, items : Seq(Ids)]
    BY <1>1, <1>6, <1>7
  <2>2. asked' \in [page : Asked \cup {0}, size : Asked \cup {0}]
    BY <1>0
  <2> QED
    BY <1>0, <2>1, <2>2 DEF SearchTypeOK
<1>9. (NewIdsAreUnseen /\ RoutesAreRead /\ RoutesAreRankings /\ RankingIsComplete)'
  BY <1>0 DEF RoutesAreRead, RoutesAreRankings, NewIdsAreUnseen, RankingIsComplete, SearchHolds
<1>10. RoutesAgree'
  BY <1>0 DEF RoutesAgree
<1>11. PagesAgree'
  <2> SUFFICES ASSUME lo < Word
               PROVE  /\ answer'.total = Len(all)
                      /\ ToSet(answer'.items) = {i \in ToSet(all) : lo < Place(all, i)
                                                                 /\ Place(all, i) <= hi}
                      /\ IsInjective(answer'.items)
                      /\ \A i, j \in ToSet(answer'.items) : Place(all, i) < Place(all, j) =>
                           Place(answer'.items, i) < Place(answer'.items, j)
    <3>1. asked'.page = p /\ asked'.size = s
      BY <1>0
    <3> QED
      BY <1>0, <3>1 DEF PagesAgree, lo, hi
  <2>1. from = lo /\ hi = from + Size(s)
    BY Clamped DEF lo, hi, from
  <2>2. \A i, j \in ToSet(items) : Place(all, i) < Place(all, j) => Place(items, i) < Place(items, j)
    <3> SUFFICES ASSUME NEW i \in ToSet(items), NEW j \in ToSet(items),
                        Place(all, i) < Place(all, j)
                 PROVE  Place(items, i) < Place(items, j)
      OBVIOUS
    <3>1. i \in ToSet(all) /\ j \in ToSet(all)
      BY <1>6
    <3> QED
      BY <1>2, <1>4, <1>6, <3>1
  <2> QED
    BY <1>6, <1>7, <2>1, <2>2
<1> QED
  BY <1>8, <1>9, <1>10, <1>11 DEF SearchHolds

LEMMA PanicKeeps ==
  ASSUME SearchInv, NEW p \in Asked, NEW s \in Asked, Panic(p, s)
  PROVE  SearchInv'
<1> USE DEF SearchInv
<1>0. /\ pc' = "panicked" /\ rows' = rows /\ fresh' = fresh /\ changes' = changes
      /\ level' = level /\ lex' = lex /\ vec' = vec /\ all' = all /\ answer' = answer
      /\ asked' = [page |-> p, size |-> s] /\ asked'.page = p /\ asked'.size = s
      /\ Start(p, s) < 0
  BY DEF Panic
<1>1. SearchTypeOK'
  BY <1>0 DEF SearchTypeOK
<1>2. (NewIdsAreUnseen /\ RoutesAreRead /\ RoutesAreRankings /\ RankingIsComplete /\ RoutesAgree)'
  BY <1>0 DEF RoutesAreRead, RoutesAreRankings, NewIdsAreUnseen, RankingIsComplete, RoutesAgree
<1>3. ~((Page(p) - 1) * Size(s) < Word)
  BY <1>0, Clamped
<1>4. PagesAgree'
  BY <1>0, <1>3 DEF PagesAgree
<1> QED
  BY <1>1, <1>2, <1>4 DEF SearchHolds

LEMMA ChangeKeeps ==
  ASSUME SearchInv, NEW i \in Ids, Change(i)
  PROVE  SearchInv'
<1> USE DEF SearchInv
<1>0. /\ pc' = pc /\ level' = level /\ lex' = lex /\ vec' = vec /\ all' = all
      /\ asked' = asked /\ answer' = answer
      /\ rows[i] # None /\ changes < MaxChanges /\ changes' = changes + 1
  BY DEF Change
<1>1. changes' \in 0..MaxChanges
  BY <1>0, SearchNumbers DEF SearchTypeOK
<1> DEFINE m == Min(fresh)
<1>2. /\ rows' \in [Ids -> Rows \cup {None}] /\ fresh' \subseteq fresh
      /\ \A j \in fresh' : rows'[j] = None
      /\ \A j \in ToSet(vec) : rows'[j] # None => rows[j] # None
  <2>0. rows \in [Ids -> Rows \cup {None}] /\ rows[i] \in Rows /\ fresh \subseteq Ids
    BY <1>0 DEF SearchTypeOK
  <2>1. CASE rows' = [rows EXCEPT ![i] = None] /\ fresh' = fresh
    BY <2>0, <2>1 DEF NewIdsAreUnseen
  <2>2. CASE /\ fresh # {} /\ fresh' = fresh \ {m}
             /\ rows' = [rows EXCEPT ![i] = None, ![m] = rows[i]]
    <3>1. m \in fresh
      BY <2>0, <2>2, SearchNumbers, NextId
    <3> HIDE DEF m
    <3>2. m \in Ids /\ m # i /\ m \notin ToSet(vec)
      BY <1>0, <2>0, <3>1 DEF NewIdsAreUnseen
    <3>3. /\ rows' \in [Ids -> Rows \cup {None}] /\ rows'[i] = None
          /\ \A j \in Ids \ {i, m} : rows'[j] = rows[j]
      BY <2>0, <2>2, <3>2
    <3>4. \A j \in ToSet(vec) : j \in Ids
      BY DEF SearchTypeOK, ToSet
    <3> QED
      BY <2>0, <2>2, <3>1, <3>2, <3>3, <3>4 DEF NewIdsAreUnseen
  <2> QED
    BY <1>0, <2>1, <2>2 DEF Change
<1>3. SearchTypeOK'
  BY <1>0, <1>1, <1>2 DEF SearchTypeOK
<1>4. (NewIdsAreUnseen /\ RoutesAreRead /\ RoutesAreRankings)'
  BY <1>0, <1>2 DEF RoutesAreRead, RoutesAreRankings, NewIdsAreUnseen
<1>5. (RoutesAgree /\ PagesAgree)'
  BY <1>0 DEF RoutesAgree, Prefer, Agreed, PagesAgree, SearchHolds
<1>6. RankingIsComplete'
  BY <1>0, <1>2 DEF RankingIsComplete, SearchHolds
<1> QED
  BY <1>3, <1>4, <1>5, <1>6 DEF SearchHolds

LEMMA SearchStutters == SearchInv /\ UNCHANGED searchVars => SearchInv'
<1> SUFFICES ASSUME SearchInv, UNCHANGED searchVars PROVE SearchInv'
  OBVIOUS
<1> USE DEF searchVars, SearchInv, SearchHolds
<1>1. (SearchTypeOK /\ RoutesAreRead /\ RoutesAreRankings /\ NewIdsAreUnseen)'
  BY DEF SearchTypeOK, RoutesAreRead, RoutesAreRankings, NewIdsAreUnseen
<1>2. (RankingIsComplete /\ PagesAgree)'
  BY DEF RankingIsComplete, PagesAgree
<1>3. RoutesAgree'
  BY DEF RoutesAgree, Prefer, Agreed
<1> QED
  BY <1>1, <1>2, <1>3

(* The routes are rankings of what they found, and a row that is given an  *)
(* id while a search runs is one the search has not seen: searchInFolders  *)
(* and searchChunksInFolders beside ReplaceChunks and DeleteKBDocument.    *)
THEOREM SearchInvariance == SearchSpec => []SearchInv
<1>1. ASSUME SearchInv, SearchNext PROVE SearchInv'
  BY <1>1, LexicalKeeps, VectorKeeps, FuseKeeps, PageKeeps, PanicKeeps, ChangeKeeps DEF SearchNext
<1>2. SearchInv /\ [SearchNext]_searchVars => SearchInv'
  BY <1>1, SearchStutters
<1> QED
  BY SearchStarts, <1>2, PTL DEF SearchSpec

(* SearchHolds: what both routes agree on ranks first and their common     *)
(* order is kept (reciprocal rank fusion), the ranking holds every row that*)
(* was found and is still there, once, and page p of size s is exactly its *)
(* rows (p - 1) s + 1 to p s, unless the first of these is no int.         *)
THEOREM SearchesHold == SearchSpec => []SearchHolds
BY SearchInvariance, PTL DEF SearchInv
=============================================================================
