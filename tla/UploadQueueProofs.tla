------------------------- MODULE UploadQueueProofs -------------------------
(***************************************************************************)
(* Proofs about UploadQueue, for any set of workers and upload requests,   *)
(* any number of documents, retries and crashes, and any set of faults,    *)
(* and about Chunking, which a worker runs on the text it has extracted.   *)
(* The inductive invariants, IInv and ChunkingInv, are defined and         *)
(* explained there.                                                        *)
(***************************************************************************)
EXTENDS UploadQueue, Chunking, TLAPS, FiniteSetTheorems, FunctionTheorems,
        WellFoundedInduction

-----------------------------------------------------------------------------
(* A step keeps the types.  Of the rest of the invariant this needs only   *)
(* that a request which has inserted its row knows the id.                 *)
LEMMA TypesArePreserved == IInv /\ [Next]_vars => TypeOK'
<1> SUFFICES ASSUME TypeOK, IdsInUse, [Next]_vars PROVE TypeOK'
  BY DEF IInv
<1> USE ConstantsAssumption
    DEF TypeOK, Doc, Statuses, Origins, WorkerPCs, UploadPCs, Serving, Exists,
        rowVars, fileVars, wVars, uVars, cntVars
<1>1. ASSUME NEW u \in Upload, UploadSave(u) \/ UploadStep(u) PROVE TypeOK'
  <2>1. CASE UploadSave(u)
    BY <2>1 DEF UploadSave
  <2>2. CASE UploadInsert(u)
    <3>1. nextId' \in 1..(MaxDocs + 1) /\ status' \in [Doc -> Statuses]
      BY <2>2 DEF UploadInsert
    <3>2. upc' \in [Upload -> UploadPCs] /\ udoc' \in [Upload -> 0..MaxDocs]
      BY <2>2 DEF UploadInsert
    <3> QED
      BY <2>2, <3>1, <3>2 DEF UploadInsert
  <2>3. CASE UploadInsertFails(u)
    BY <2>3 DEF UploadInsertFails
  <2>4. CASE UploadRename(u)
    <3>1. udoc[u] \in Doc
      BY <2>4 DEF UploadRename, IdsInUse
    <3> QED
      BY <2>4, <3>1 DEF UploadRename
  <2>5. CASE UploadRenameFails(u)
    BY <2>5 DEF UploadRenameFails
  <2>6. CASE UploadUndo(u)
    BY <2>6 DEF UploadUndo
  <2> QED
    BY <1>1, <2>1, <2>2, <2>3, <2>4, <2>5, <2>6 DEF UploadStep
<1>2. ASSUME NEW w \in Worker, WorkerStep(w) \/ PollEmpty(w) PROVE TypeOK'
  <2>1. CASE ClaimSelect(w)
    BY <2>1 DEF ClaimSelect, Pending
  <2>2. CASE ClaimUpdate(w)
    BY <2>2 DEF ClaimUpdate
  <2>3. CASE Stat(w) \/ Extract(w)
    BY <2>3 DEF Stat, Extract
  <2>4. CASE MarkError(w)
    BY <2>4 DEF MarkError
  <2>5. CASE Complete(w)
    BY <2>5 DEF Complete
  <2>6. CASE ReleaseClaim(w)
    BY <2>6 DEF ReleaseClaim
  <2>7. CASE RemoveRaw(w) \/ PollEmpty(w)
    BY <2>7 DEF RemoveRaw, PollEmpty, vars
  <2> QED
    BY <1>2, <2>1, <2>2, <2>3, <2>4, <2>5, <2>6, <2>7 DEF WorkerStep
<1>3. ASSUME NEW d \in Doc, AdminStep(d) PROVE TypeOK'
  <2>1. CASE Retry(d)
    BY <2>1 DEF Retry
  <2>2. CASE Edit(d)
    BY <2>2 DEF Edit
  <2>3. CASE DeleteRow(d) \/ DeleteRaw(d)
    BY <2>3 DEF DeleteRow, DeleteRaw
  <2> QED
    BY <1>3, <2>1, <2>2, <2>3 DEF AdminStep
<1>4. CASE CreateText \/ Crash \/ Boot \/ Serve
  <2>1. CASE CreateText
    BY <2>1 DEF CreateText
  <2>2. CASE Crash
    BY <2>2 DEF Crash
  <2>3. CASE Boot
    BY <2>3 DEF Boot
  <2>4. CASE Serve
    BY <2>4 DEF Serve
  <2> QED
    BY <1>4, <2>1, <2>2, <2>3, <2>4
<1>5. CASE UNCHANGED vars
  BY <1>5 DEF vars
<1> QED
  BY <1>1, <1>2, <1>3, <1>4, <1>5 DEF Next

(* The invariant.  Steps that disturb several of its parts are split into  *)
(* one step per part.                                                      *)

(* Every reachable state satisfies IInv: what the position of a worker or  *)
(* of a handler implies about its row and its file, in any interleaving of *)
(* workers, requests, failures, crashes and restarts.                      *)
THEOREM Invariance == Spec => []IInv
<1>1. Init => IInv
  BY ConstantsAssumption
  DEF Init, IInv, TypeOK, Doc, Statuses, Origins, WorkerPCs, UploadPCs,
      IdsInUse, MutexHeld, WorkerKnows, ExclusiveClaim, ErrorKeepsRaw,
      GoneIsGone, DownIsIdle, Owns
<1>2. IInv /\ [Next]_vars => IInv'
  <2> SUFFICES ASSUME IInv, [Next]_vars PROVE IInv'
    OBVIOUS
  <2>t. TypeOK'
    BY TypesArePreserved
  <2> USE ConstantsAssumption
      DEF IInv, TypeOK, IdsInUse, MutexHeld, WorkerKnows, ExclusiveClaim,
          ErrorKeepsRaw, GoneIsGone, DownIsIdle, Owns, Pending, Exists,
          Running, Serving, Doc, Statuses, Origins, WorkerPCs, UploadPCs,
          rowVars, fileVars, wVars, uVars, cntVars
  <2>1. ASSUME NEW u \in Upload, UploadSave(u) PROVE IInv'
    BY <2>t, <2>1 DEF UploadSave
  <2>2. ASSUME NEW u \in Upload, UploadInsert(u) PROVE IInv'
    <3> USE <2>2 DEF UploadInsert
    <3>a. \A v \in Worker : wpc[v] # "idle" => wdoc[v] # nextId
      OBVIOUS
    <3>1. TypeOK'
      BY <2>t
    <3>2. IdsInUse'
      OBVIOUS
    <3>3. MutexHeld'
      OBVIOUS
    <3>4. WorkerKnows'
      BY <3>a
    <3>5. ExclusiveClaim'
      OBVIOUS
    <3>6. ErrorKeepsRaw'
      OBVIOUS
    <3>7. GoneIsGone'
      OBVIOUS
    <3>8. DownIsIdle'
      OBVIOUS
    <3>9. QED
      BY <3>1, <3>2, <3>3, <3>4, <3>5, <3>6, <3>7, <3>8
  <2>3. ASSUME NEW u \in Upload, UploadInsertFails(u) PROVE IInv'
    BY <2>t, <2>3 DEF UploadInsertFails
  <2>4. ASSUME NEW u \in Upload, UploadRename(u) PROVE IInv'
    <3> USE <2>4 DEF UploadRename
    <3>a. udoc[u] \in Doc
      OBVIOUS
    <3>1. TypeOK'
      BY <2>t
    <3>2. IdsInUse'
      OBVIOUS
    <3>3. MutexHeld'
      OBVIOUS
    <3>4. WorkerKnows'
      OBVIOUS
    <3>5. ExclusiveClaim'
      OBVIOUS
    <3>6. ErrorKeepsRaw'
      OBVIOUS
    <3>7. GoneIsGone'
      OBVIOUS
    <3>8. DownIsIdle'
      OBVIOUS
    <3>9. QED
      BY <3>1, <3>2, <3>3, <3>4, <3>5, <3>6, <3>7, <3>8
  <2>5. ASSUME NEW u \in Upload, UploadRenameFails(u) PROVE IInv'
    BY <2>t, <2>5 DEF UploadRenameFails
  <2>6. ASSUME NEW u \in Upload, UploadUndo(u) PROVE IInv'
    <3> USE <2>6 DEF UploadUndo
    <3>a. udoc[u] \in Doc
      OBVIOUS
    <3>1. TypeOK'
      BY <2>t
    <3>2. IdsInUse'
      OBVIOUS
    <3>3. MutexHeld'
      OBVIOUS
    <3>4. WorkerKnows'
      OBVIOUS
    <3>5. ExclusiveClaim'
      OBVIOUS
    <3>6. ErrorKeepsRaw'
      OBVIOUS
    <3>7. GoneIsGone'
      OBVIOUS
    <3>8. DownIsIdle'
      OBVIOUS
    <3>9. QED
      BY <3>1, <3>2, <3>3, <3>4, <3>5, <3>6, <3>7, <3>8
  <2>7. ASSUME NEW w \in Worker, ClaimSelect(w) PROVE IInv'
    BY <2>t, <2>7 DEF ClaimSelect
  <2>8. ASSUME NEW w \in Worker, ClaimUpdate(w) PROVE IInv'
    <3> USE <2>8 DEF ClaimUpdate
    <3>a. wdoc[w] \in Doc
      OBVIOUS
    <3>1. TypeOK'
      BY <2>t
    <3>2. IdsInUse'
      OBVIOUS
    <3>3. MutexHeld'
      OBVIOUS
    <3>4. WorkerKnows'
      OBVIOUS
    <3>5. ExclusiveClaim'
      OBVIOUS
    <3>6. ErrorKeepsRaw'
      OBVIOUS
    <3>7. GoneIsGone'
      OBVIOUS
    <3>8. DownIsIdle'
      OBVIOUS
    <3>9. QED
      BY <3>1, <3>2, <3>3, <3>4, <3>5, <3>6, <3>7, <3>8
  <2>9. ASSUME NEW w \in Worker, Stat(w) PROVE IInv'
    BY <2>t, <2>9 DEF Stat
  <2>10. ASSUME NEW w \in Worker, Extract(w) PROVE IInv'
    <3> USE <2>10 DEF Extract
    <3>a. wdoc[w] \in Doc
      OBVIOUS
    <3>1. TypeOK'
      BY <2>t
    <3>2. IdsInUse'
      OBVIOUS
    <3>3. MutexHeld'
      OBVIOUS
    <3>4. WorkerKnows'
      OBVIOUS
    <3>5. ExclusiveClaim'
      OBVIOUS
    <3>6. ErrorKeepsRaw'
      OBVIOUS
    <3>7. GoneIsGone'
      OBVIOUS
    <3>8. DownIsIdle'
      OBVIOUS
    <3>9. QED
      BY <3>1, <3>2, <3>3, <3>4, <3>5, <3>6, <3>7, <3>8
  <2>11. ASSUME NEW w \in Worker, MarkError(w) PROVE IInv'
    <3> USE <2>11 DEF MarkError
    <3>a. wdoc[w] \in Doc
      OBVIOUS
    <3>1. TypeOK'
      BY <2>t
    <3>2. IdsInUse'
      OBVIOUS
    <3>3. MutexHeld'
      OBVIOUS
    <3>4. WorkerKnows'
      OBVIOUS
    <3>5. ExclusiveClaim'
      OBVIOUS
    <3>6. ErrorKeepsRaw'
      OBVIOUS
    <3>7. GoneIsGone'
      OBVIOUS
    <3>8. DownIsIdle'
      OBVIOUS
    <3>9. QED
      BY <3>1, <3>2, <3>3, <3>4, <3>5, <3>6, <3>7, <3>8
  <2>12. ASSUME NEW w \in Worker, Complete(w) PROVE IInv'
    <3> USE <2>12 DEF Complete
    <3>a. wdoc[w] \in Doc
      OBVIOUS
    <3>1. TypeOK'
      BY <2>t
    <3>2. IdsInUse'
      OBVIOUS
    <3>3. MutexHeld'
      OBVIOUS
    <3>4. WorkerKnows'
      OBVIOUS
    <3>5. ExclusiveClaim'
      OBVIOUS
    <3>6. ErrorKeepsRaw'
      OBVIOUS
    <3>7. GoneIsGone'
      BY <2>t, <3>a
    <3>8. DownIsIdle'
      OBVIOUS
    <3>9. QED
      BY <3>1, <3>2, <3>3, <3>4, <3>5, <3>6, <3>7, <3>8
  <2>13. ASSUME NEW w \in Worker, ReleaseClaim(w) PROVE IInv'
    <3> USE <2>13 DEF ReleaseClaim
    <3>a. wdoc[w] \in Doc
      OBVIOUS
    <3>1. TypeOK'
      BY <2>t
    <3>2. IdsInUse'
      OBVIOUS
    <3>3. MutexHeld'
      OBVIOUS
    <3>4. WorkerKnows'
      OBVIOUS
    <3>5. ExclusiveClaim'
      OBVIOUS
    <3>6. ErrorKeepsRaw'
      OBVIOUS
    <3>7. GoneIsGone'
      OBVIOUS
    <3>8. DownIsIdle'
      OBVIOUS
    <3>9. QED
      BY <3>1, <3>2, <3>3, <3>4, <3>5, <3>6, <3>7, <3>8
  <2>14. ASSUME NEW w \in Worker, RemoveRaw(w) PROVE IInv'
    <3> USE <2>14 DEF RemoveRaw
    <3>a. wdoc[w] \in Doc
      OBVIOUS
    <3>1. TypeOK'
      BY <2>t
    <3>2. IdsInUse'
      OBVIOUS
    <3>3. MutexHeld'
      OBVIOUS
    <3>4. WorkerKnows'
      OBVIOUS
    <3>5. ExclusiveClaim'
      OBVIOUS
    <3>6. ErrorKeepsRaw'
      OBVIOUS
    <3>7. GoneIsGone'
      OBVIOUS
    <3>8. DownIsIdle'
      OBVIOUS
    <3>9. QED
      BY <3>1, <3>2, <3>3, <3>4, <3>5, <3>6, <3>7, <3>8
  <2>15. ASSUME NEW d \in Doc, Retry(d) PROVE IInv'
    BY <2>t, <2>15 DEF Retry
  <2>16. ASSUME NEW d \in Doc, Edit(d) PROVE IInv'
    BY <2>t, <2>16 DEF Edit
  <2>17. ASSUME NEW d \in Doc, DeleteRow(d) PROVE IInv'
    BY <2>t, <2>17 DEF DeleteRow
  <2>18. ASSUME NEW d \in Doc, DeleteRaw(d) PROVE IInv'
    BY <2>t, <2>18 DEF DeleteRaw
  <2>19. CASE CreateText
    BY <2>t, <2>19 DEF CreateText
  <2>20. CASE Crash
    BY <2>t, <2>20 DEF Crash
  <2>21. CASE Boot
    BY <2>t, <2>21 DEF Boot
  <2>22. CASE Serve
    BY <2>t, <2>22 DEF Serve
  <2>23. CASE UNCHANGED vars
    BY <2>t, <2>23 DEF vars
  <2>24. QED
    BY <2>1, <2>2, <2>3, <2>4, <2>5, <2>6, <2>7, <2>8, <2>9, <2>10, <2>11,
    <2>12, <2>13, <2>14, <2>15, <2>16, <2>17, <2>18, <2>19, <2>20, <2>21,
    <2>22, <2>23
    DEF Next, UploadStep, WorkerStep, AdminStep, PollEmpty
<1>3. QED
  BY <1>1, <1>2, PTL DEF Spec

(* Every variable keeps its type; in particular no statement writes a      *)
(* status that the other statements do not test for.                       *)
THEOREM TypeCorrect == Spec => []TypeOK
  BY Invariance, PTL DEF IInv

(* No two workers ever hold the same document: what claimMu, and the       *)
(* status guards of RetryKBDocument and ReleaseClaim, are there for.       *)
THEOREM ClaimsAreExclusive == Spec => []ExclusiveClaim
  BY Invariance, PTL DEF IInv

(* A document in error always has its raw file for a later attempt.        *)
THEOREM ErrorsKeepTheirFile == Spec => []ErrorKeepsRaw
  BY Invariance, PTL DEF IInv

-----------------------------------------------------------------------------
(* Raw files. *)

(* No step of the system removes a raw file unless its text is in the      *)
(* database or its row is gone.                                            *)
THEOREM RawFilesAreSafe == Spec => RawRemovedOnlyWhenSafe
<1>1. ASSUME IInv, [Next]_vars
      PROVE  [\A d \in raw \ raw' : status[d] \in {"ready", "absent"}]_vars
  <2> SUFFICES ASSUME NEW d \in raw, d \notin raw', Next
               PROVE  status[d] \in {"ready", "absent"}
    BY <1>1 DEF vars
  <2>1. \/ \E w \in Worker : RemoveRaw(w)
        \/ \E e \in Doc : DeleteRaw(e)
    BY DEF Next, UploadStep, WorkerStep, AdminStep, UploadSave, UploadInsert,
           UploadInsertFails, UploadRename, UploadRenameFails, UploadUndo,
           ClaimSelect, ClaimUpdate, Stat, Extract, MarkError, Complete,
           ReleaseClaim, PollEmpty, Retry, Edit, DeleteRow, CreateText, Crash,
           Boot, Serve, vars, fileVars
  <2>2. ASSUME NEW w \in Worker, RemoveRaw(w)
        PROVE  status[d] \in {"ready", "absent"}
    BY <1>1, <2>2 DEF RemoveRaw, IInv, WorkerKnows
  <2>3. ASSUME NEW e \in Doc, DeleteRaw(e)
        PROVE  status[d] \in {"ready", "absent"}
    BY <1>1, <2>3 DEF DeleteRaw, IInv, GoneIsGone
  <2>4. QED
    BY <2>1, <2>2, <2>3
<1>2. QED
  BY <1>1, Invariance, PTL DEF Spec, RawRemovedOnlyWhenSafe

-----------------------------------------------------------------------------
(* Owners. *)

(* As long as the writes of the claim protocol succeed, a row that says    *)
(* processing has a worker that holds it: none is left behind by a failed  *)
(* extraction, a refused transaction, a missing file or a restart.         *)
THEOREM ProcessingRowsAreOwned == Spec => []ProcessingIsOwned
<1>1. Init => ProcessingIsOwned
  BY DEF Init, ProcessingIsOwned, Running
<1>2. IInv /\ ProcessingIsOwned /\ [Next]_vars => ProcessingIsOwned'
  <2> SUFFICES ASSUME IInv, ProcessingIsOwned, [Next]_vars, Running',
                      Faults \cap {"release", "mark", "reset"} = {},
                      NEW e \in Doc, status'[e] = "processing"
               PROVE  \E v \in Worker : Owns(v)' /\ wdoc'[v] = e
    BY DEF ProcessingIsOwned, Doc
  <2> USE DEF IInv, TypeOK, WorkerKnows, IdsInUse, Owns, Running, Exists,
              Doc, rowVars, fileVars, wVars, uVars, cntVars
  <2> DEFINE Held == \E v \in Worker : Owns(v)' /\ wdoc'[v] = e
  <2>1. CASE Boot
    BY <2>1 DEF Boot
  <2>2. CASE Crash
    BY <2>2 DEF Crash
  <2>3. ASSUME phase' = phase \/ Serve, status[e] = "processing"
        PROVE  \E v \in Worker : Owns(v) /\ wdoc[v] = e
    BY <2>3 DEF ProcessingIsOwned, Serve
  <2>4. ASSUME NEW u \in Upload, UploadSave(u) \/ UploadStep(u) PROVE Held
    <3>1. status[e] = "processing" /\ UNCHANGED <<wVars, phase>>
      BY <2>4 DEF UploadSave, UploadStep, UploadInsert, UploadInsertFails,
                  UploadRename, UploadRenameFails, UploadUndo
    <3>2. QED
      BY <2>3, <3>1
  <2>5. ASSUME NEW d \in Doc, AdminStep(d) PROVE Held
    <3>1. status[e] = "processing" /\ UNCHANGED <<wVars, phase>>
      BY <2>5 DEF AdminStep, Retry, Edit, DeleteRow, DeleteRaw
    <3>2. QED
      BY <2>3, <3>1
  <2>6. CASE CreateText \/ Serve \/ UNCHANGED vars
    <3>1. status[e] = "processing" /\ UNCHANGED wVars
          /\ (phase' = phase \/ Serve)
      BY <2>6 DEF CreateText, Serve, vars
    <3>2. QED
      BY <2>3, <3>1
  <2>7. ASSUME NEW w \in Worker, ClaimUpdate(w) PROVE Held
    <3>1. CASE e = wdoc[w] /\ wpc'[w] = "claimed"
      BY <2>7, <3>1 DEF ClaimUpdate
    <3>2. CASE ~(e = wdoc[w] /\ wpc'[w] = "claimed")
      <4>1. status[e] = "processing" /\ phase' = phase
        BY <2>7, <3>2 DEF ClaimUpdate
      <4>2. PICK v \in Worker : Owns(v) /\ wdoc[v] = e
        BY <2>3, <4>1
      <4>3. QED
        BY <2>7, <4>2 DEF ClaimUpdate
    <3>3. QED
      BY <3>1, <3>2
  <2>8. ASSUME NEW w \in Worker, ClaimSelect(w) \/ Stat(w) \/ Extract(w)
                                 \/ RemoveRaw(w) \/ PollEmpty(w)
        PROVE  Held
    <3>1. status[e] = "processing" /\ phase' = phase
      BY <2>8 DEF ClaimSelect, Stat, Extract, RemoveRaw, PollEmpty, vars
    <3>2. PICK v \in Worker : Owns(v) /\ wdoc[v] = e
      BY <2>3, <3>1
    <3>3. QED
      BY <2>8, <3>2 DEF ClaimSelect, Stat, Extract, RemoveRaw, PollEmpty, vars
  <2>9. ASSUME NEW w \in Worker, MarkError(w) \/ Complete(w) \/ ReleaseClaim(w)
        PROVE  Held
    <3>1. status[e] = "processing" /\ phase' = phase
      BY <2>9 DEF MarkError, Complete, ReleaseClaim
    <3>2. PICK v \in Worker : Owns(v) /\ wdoc[v] = e
      BY <2>3, <3>1
    <3>3. v = w => wpc'[w] = "releasing"
      BY <2>9, <3>1, <3>2 DEF MarkError, Complete, ReleaseClaim
    <3>4. QED
      BY <2>9, <3>2, <3>3 DEF MarkError, Complete, ReleaseClaim
  <2>10. QED
    BY <2>1, <2>2, <2>4, <2>5, <2>6, <2>7, <2>8, <2>9 DEF Next, WorkerStep
<1>3. QED
  BY <1>1, <1>2, Invariance, PTL DEF Spec

-----------------------------------------------------------------------------
(* Refinement. *)

\* Writing one row changes the fate of that document alone.
LEMMA FateOfOne ==
  ASSUME TypeOK, NEW d \in Doc, NEW s \in Statuses, UNCHANGED nextId,
         status' = [status EXCEPT ![d] = s]
  PROVE  fateBar' = [fateBar EXCEPT ![d] = fateBar'[d]]
<1>1. \A e \in Doc : e # d => fateBar'[e] = fateBar[e]
  BY DEF fateBar, TypeOK
<1>2. QED
  BY <1>1 DEF fateBar

\* A step that keeps every row queued, or as it is, and all texts is a stutter.
LEMMA Stutter ==
  ASSUME UNCHANGED <<content, nextId>>,
         \A d \in Doc : \/ status'[d] = status[d]
                        \/ /\ status[d] \in {"pending", "processing"}
                           /\ status'[d] \in {"pending", "processing"}
  PROVE  UNCHANGED DL!vars
<1>1. \A d \in Doc : fateBar'[d] = fateBar[d]
  BY DEF fateBar
<1>2. fateBar' = fateBar
  BY <1>1 DEF fateBar
<1>3. QED
  BY <1>2 DEF DL!vars

(* Every behaviour of the queue, its workers, the handlers and the         *)
(* restarts is, document by document, a life DocLifecycle allows.          *)
THEOREM QueueImplementsLifecycle == Spec => Lifecycle
<1>1. Init => DL!Init
  BY ConstantsAssumption DEF Init, DL!Init, fateBar, Doc
<1>2. IInv /\ [Next]_vars => [DL!Next]_(DL!vars)
  <2> SUFFICES ASSUME IInv, [Next]_vars
               PROVE  DL!Next \/ UNCHANGED DL!vars
    OBVIOUS
  <2>0. TypeOK /\ IdsInUse /\ WorkerKnows /\ GoneIsGone
    BY DEF IInv
  <2> USE DEF rowVars, fileVars, wVars, uVars, cntVars
  <2>1. CASE UNCHANGED <<status, content, nextId>>
    BY <2>1, Stutter
  <2>2. ASSUME NEW u \in Upload, UploadInsert(u) PROVE DL!Next
    <3>1. nextId \in Doc /\ status[nextId] = "absent"
      BY <2>0, <2>2 DEF UploadInsert, IdsInUse, Doc
    <3>2. fateBar[nextId] = "absent" /\ fateBar'[nextId] = "queued"
      BY <2>0, <2>2, <3>1 DEF UploadInsert, fateBar, Doc, TypeOK
    <3>3. \A e \in Doc : e # nextId => fateBar'[e] = fateBar[e]
      BY <2>0, <2>2, <3>1 DEF UploadInsert, fateBar, Doc, TypeOK
    <3>4. fateBar' = [fateBar EXCEPT ![nextId] = "queued"]
      BY <3>2, <3>3 DEF fateBar
    <3>5. DL!Submit(nextId)
      BY <2>2, <3>2, <3>4 DEF DL!Submit, UploadInsert
    <3>6. QED
      BY <3>1, <3>5 DEF DL!Next
  <2>3. CASE CreateText
    <3>1. nextId \in Doc /\ status[nextId] = "absent"
      BY <2>0, <2>3 DEF CreateText, IdsInUse, Doc
    <3>2. fateBar[nextId] = "absent" /\ fateBar'[nextId] = "ready"
      BY <2>0, <2>3, <3>1 DEF CreateText, fateBar, Doc, TypeOK
    <3>3. \A e \in Doc : e # nextId => fateBar'[e] = fateBar[e]
      BY <2>0, <2>3, <3>1 DEF CreateText, fateBar, Doc, TypeOK
    <3>4. fateBar' = [fateBar EXCEPT ![nextId] = "ready"]
      BY <3>2, <3>3 DEF fateBar
    <3>5. DL!Publish(nextId)
      BY <2>3, <3>2, <3>4 DEF DL!Publish, CreateText
    <3>6. QED
      BY <3>1, <3>5 DEF DL!Next
  <2>4. ASSUME NEW d \in Doc, d < nextId, UNCHANGED nextId,
               status' = [status EXCEPT ![d] = "absent"],
               content' = [content EXCEPT ![d] = "none"]
        PROVE  DL!Next \/ UNCHANGED DL!vars
    <3>1. CASE status[d] = "absent"
      <4>1. status' = status /\ content' = content
        BY <2>0, <2>4, <3>1 DEF TypeOK, GoneIsGone
      <4>2. QED
        BY <2>4, <4>1, Stutter
    <3>2. CASE status[d] # "absent"
      <4>1. fateBar[d] \notin {"absent", "deleted"}
        BY <2>0, <3>2 DEF fateBar, TypeOK, Statuses
      <4>2. fateBar'[d] = "deleted"
        BY <2>0, <2>4 DEF fateBar, TypeOK
      <4>3. fateBar' = [fateBar EXCEPT ![d] = "deleted"]
        BY <2>0, <2>4, <4>2, FateOfOne DEF Statuses
      <4>4. DL!Delete(d)
        BY <2>4, <4>1, <4>3 DEF DL!Delete
      <4>5. QED
        BY <4>4 DEF DL!Next
    <3>3. QED
      BY <3>1, <3>2
  <2>5. ASSUME NEW u \in Upload, UploadUndo(u)
        PROVE  DL!Next \/ UNCHANGED DL!vars
    <3>1. udoc[u] \in Doc /\ udoc[u] < nextId
      BY <2>0, <2>5 DEF UploadUndo, IdsInUse, TypeOK, Doc
    <3>2. QED
      BY <2>1, <2>4, <2>5, <3>1 DEF UploadUndo
  <2>6. ASSUME NEW d \in Doc, DeleteRow(d)
        PROVE  DL!Next \/ UNCHANGED DL!vars
    <3>1. d < nextId
      BY <2>0, <2>6 DEF DeleteRow, Exists, IdsInUse, TypeOK, Doc
    <3>2. QED
      BY <2>4, <2>6, <3>1 DEF DeleteRow
  <2>7. ASSUME NEW d \in Doc, Retry(d) PROVE DL!Next
    <3>1. fateBar[d] = "failed" /\ fateBar'[d] = "queued"
      BY <2>0, <2>7 DEF Retry, fateBar, TypeOK
    <3>2. fateBar' = [fateBar EXCEPT ![d] = "queued"]
      BY <2>0, <2>7, <3>1, FateOfOne DEF Retry, Statuses
    <3>3. DL!Requeue(d)
      BY <2>7, <3>1, <3>2 DEF DL!Requeue, Retry
    <3>4. QED
      BY <3>3 DEF DL!Next
  <2>8. ASSUME NEW d \in Doc, Edit(d) PROVE DL!Next
    <3>1. fateBar' = fateBar
      BY <2>8 DEF Edit, fateBar
    <3>2. fateBar[d] \notin {"absent", "deleted"}
      BY <2>0, <2>8 DEF Edit, Exists, fateBar, TypeOK, Statuses
    <3>3. DL!Edit(d)
      BY <2>8, <3>1, <3>2 DEF DL!Edit, Edit
    <3>4. QED
      BY <3>3 DEF DL!Next
  <2>9. ASSUME NEW w \in Worker, ClaimUpdate(w)
        PROVE  DL!Next \/ UNCHANGED DL!vars
    <3>1. \A d \in Doc : \/ status'[d] = status[d]
                         \/ status[d] = "pending" /\ status'[d] = "processing"
      BY <2>0, <2>9 DEF ClaimUpdate, Exists, WorkerKnows, TypeOK
    <3>2. QED
      BY <2>9, <3>1, Stutter DEF ClaimUpdate
  <2>10. ASSUME NEW w \in Worker, ReleaseClaim(w)
         PROVE  DL!Next \/ UNCHANGED DL!vars
    <3>1. \A d \in Doc : \/ status'[d] = status[d]
                         \/ status[d] = "processing" /\ status'[d] = "pending"
      BY <2>0, <2>10 DEF ReleaseClaim, TypeOK
    <3>2. QED
      BY <2>10, <3>1, Stutter DEF ReleaseClaim
  <2>11. CASE Boot
    <3>1. \A d \in Doc : \/ status'[d] = status[d]
                         \/ status[d] = "processing" /\ status'[d] = "pending"
      BY <2>0, <2>11 DEF Boot, TypeOK
    <3>2. QED
      BY <2>11, <3>1, Stutter DEF Boot
  <2>12. ASSUME NEW w \in Worker, MarkError(w), status' # status PROVE DL!Next
    <3>1. wdoc[w] \in Doc
      BY <2>0, <2>12 DEF MarkError, IdsInUse, TypeOK, Doc
    <3>2. /\ status[wdoc[w]] \in {"processing", "pending"}
          /\ status' = [status EXCEPT ![wdoc[w]] = "error"]
      BY <2>12 DEF MarkError
    <3>3. fateBar[wdoc[w]] = "queued" /\ fateBar'[wdoc[w]] = "failed"
      BY <2>0, <3>1, <3>2 DEF fateBar, TypeOK
    <3>4. fateBar' = [fateBar EXCEPT ![wdoc[w]] = "failed"]
      BY <2>0, <2>12, <3>1, <3>2, <3>3, FateOfOne DEF MarkError, Statuses
    <3>5. DL!Fail(wdoc[w])
      BY <2>12, <3>3, <3>4 DEF DL!Fail, MarkError
    <3>6. QED
      BY <3>1, <3>5 DEF DL!Next
  <2>13. ASSUME NEW w \in Worker, Complete(w), status' # status PROVE DL!Next
    <3>1. wdoc[w] \in Doc
      BY <2>0, <2>13 DEF Complete, IdsInUse, TypeOK, Doc
    <3>2. /\ status[wdoc[w]] = "processing"
          /\ status' = [status EXCEPT ![wdoc[w]] = "ready"]
          /\ content' = [content EXCEPT ![wdoc[w]] = "extracted"]
      BY <2>13 DEF Complete
    <3>3. fateBar[wdoc[w]] = "queued" /\ fateBar'[wdoc[w]] = "ready"
      BY <2>0, <3>1, <3>2 DEF fateBar, TypeOK
    <3>4. fateBar' = [fateBar EXCEPT ![wdoc[w]] = "ready"]
      BY <2>0, <2>13, <3>1, <3>2, <3>3, FateOfOne DEF Complete, Statuses
    <3>5. DL!Succeed(wdoc[w])
      BY <3>2, <3>3, <3>4 DEF DL!Succeed
    <3>6. QED
      BY <3>1, <3>5 DEF DL!Next
  <2>14. ASSUME NEW w \in Worker, MarkError(w) \/ Complete(w), status' = status
         PROVE  UNCHANGED <<status, content, nextId>>
    BY <2>0, <2>14 DEF MarkError, Complete, TypeOK
  <2>15. QED
    BY <2>1, <2>2, <2>3, <2>5, <2>6, <2>7, <2>8, <2>9, <2>10, <2>11, <2>12,
       <2>13, <2>14
    DEF Next, UploadStep, WorkerStep, AdminStep, UploadSave,
        UploadInsertFails, UploadRename, UploadRenameFails, ClaimSelect,
        PollEmpty, Stat, Extract, RemoveRaw, DeleteRaw, Crash, Serve, vars
<1>3. QED
  BY <1>1, <1>2, Invariance, PTL DEF Spec, Lifecycle, DL!Spec

-----------------------------------------------------------------------------
(* Chunking, for any text and any limits of which the overlap is not above *)
(* the length at which a line is cut into sentences.                       *)

\* Every set of numbers has a least element.
LEMMA LeastNumber ==
  ASSUME NEW T \in SUBSET Nat, T # {}
  PROVE  \E n \in T : \A m \in T : n <= m
<1> DEFINE R == {ss \in Nat \X Nat : ss[1] < ss[2]}
<1>1. IsWellFoundedOn(R, Nat)
  BY NatLessThanWellFounded, Zenon DEF OpToRel
<1> HIDE DEF R
<1>2. PICK n \in T : \A m \in T : <<m, n>> \notin R
  BY <1>1, WFMin, Zenon
<1>3. \A m \in T : ~(m < n)
  BY <1>2 DEF R
<1> QED
  BY <1>3

\* Induction: a set that holds 0 and the successor of what it holds is complete.
LEMMA BoundedInduction ==
  ASSUME NEW N \in Nat, NEW T, 0 \in T, \A n \in 0..N : n \in T /\ n < N => n + 1 \in T
  PROVE  0..N \subseteq T
<1> SUFFICES ASSUME (0..N) \ T # {} PROVE FALSE
  OBVIOUS
<1> DEFINE U == (0..N) \ T
<1>0. U \in SUBSET Nat /\ U # {}
  OBVIOUS
<1>1. PICK n \in U : \A m \in U : n <= m
  BY <1>0, LeastNumber
<1>2. n - 1 \in 0..N /\ n - 1 < N /\ (n - 1) + 1 = n
  BY <1>1
<1>3. n - 1 \in T
  BY <1>1, <1>2
<1> QED
  BY <1>1, <1>2, <1>3

\* The largest of finitely many numbers.
LEMMA GreatestNumber ==
  ASSUME NEW T \in SUBSET Nat, T # {}, NEW N \in Nat, \A m \in T : m <= N
  PROVE  Max(T) \in T /\ \A m \in T : m <= Max(T)
<1> DEFINE U == {N - m : m \in T}
<1>0. \A m \in T : N - m \in Nat
  OBVIOUS
<1>1. U \in SUBSET Nat /\ U # {}
  BY <1>0
<1>2. PICK u \in U : \A v \in U : u <= v
  BY <1>1, LeastNumber
<1>3. PICK m \in T : u = N - m
  BY <1>2
<1>4. ASSUME NEW n \in T PROVE m >= n
  <2>1. N - m <= N - n
    BY <1>2, <1>3
  <2> QED
    BY <2>1
<1>5. \E x \in T : \A y \in T : x >= y
  BY <1>4
<1>6. Max(T) \in T /\ \A y \in T : Max(T) >= y
  BY <1>5, Zenon DEF Max
<1> QED
  BY <1>6

-----------------------------------------------------------------------------
(* Sums.                                                                   *)

\* The sums of the first numbers of s, as far as n.
IsTotal(f, s, n) ==
  /\ f \in [0..n -> Int] /\ f[0] = 0
  /\ \A i \in 0..n : i < n => f[i + 1] = f[i] + s[i + 1]

\* There are such sums.
LEMMA TotalsExist ==
  ASSUME NEW s \in Seq(Int)
  PROVE  \E f : IsTotal(f, s, Len(s))
<1>0. PICK L \in Nat : L = Len(s) /\ \A i \in 1..L : s[i] \in Int
  OBVIOUS
<1> DEFINE T == {n \in 0..L : \E f : IsTotal(f, s, n)}
<1>1. 0 \in T
  <2>1. IsTotal([i \in 0..0 |-> 0], s, 0)
    BY DEF IsTotal
  <2> QED
    BY <1>0, <2>1
<1>2. ASSUME NEW n \in 0..L, n \in T, n < L PROVE n + 1 \in T
  <2>1. PICK f : IsTotal(f, s, n)
    BY <1>2
  <2> DEFINE g == [i \in 0..(n + 1) |-> IF i = n + 1 THEN f[n] + s[n + 1] ELSE f[i]]
  <2>2. n \in Nat /\ n + 1 \in 1..L /\ f[n] \in Int /\ s[n + 1] \in Int
    BY <1>0, <1>2, <2>1 DEF IsTotal
  <2>3. g \in [0..(n + 1) -> Int]
    BY <2>1, <2>2 DEF IsTotal
  <2>4. g[0] = 0 /\ \A i \in 0..n : g[i] = f[i] /\ g[n + 1] = f[n] + s[n + 1]
    BY <2>1, <2>2 DEF IsTotal
  <2>5. ASSUME NEW i \in 0..(n + 1), i < n + 1 PROVE g[i + 1] = g[i] + s[i + 1]
    <3>1. CASE i = n
      BY <2>2, <2>4, <3>1
    <3>2. CASE i # n
      <4>1. i \in 0..n /\ i < n /\ i + 1 \in 0..n
        BY <2>2, <2>5, <3>2
      <4> HIDE DEF g
      <4> QED
        BY <2>1, <2>4, <4>1 DEF IsTotal
    <3> QED
      BY <3>1, <3>2
  <2> HIDE DEF g
  <2>6. IsTotal(g, s, n + 1)
    BY <2>3, <2>4, <2>5 DEF IsTotal
  <2> QED
    BY <2>2, <2>6
<1>3. L \in T
  <2> HIDE DEF T
  <2>1. L \in Nat /\ L \in 0..L
    BY <1>0
  <2>2. 0..L \subseteq T
    BY <1>1, <1>2, <2>1, BoundedInduction, Zenon
  <2> QED
    BY <2>1, <2>2
<1> QED
  BY <1>0, <1>3

\* The recursive definition gives them.
LEMMA TotalIs ==
  ASSUME NEW s \in Seq(Int)
  PROVE  \E f : IsTotal(f, s, Len(s)) /\ Total(s) = f[Len(s)]
<1>0. PICK L \in Nat : L = Len(s)
  OBVIOUS
<1> DEFINE Is(f) == f = [n \in 0..L |-> IF n = 0 THEN 0 ELSE f[n - 1] + s[n]]
           up == CHOOSE f : Is(f)
<1>1. PICK f : IsTotal(f, s, L)
  BY <1>0, TotalsExist
<1>2. Total(s) = up[L]
  BY <1>0, Zenon DEF Total
<1>3. Is(f)
  <2>1. ASSUME NEW n \in 0..L PROVE f[n] = IF n = 0 THEN 0 ELSE f[n - 1] + s[n]
    <3>1. CASE n = 0
      BY <1>1, <3>1 DEF IsTotal
    <3>2. CASE n # 0
      <4>1. n - 1 \in 0..L /\ n - 1 < L /\ (n - 1) + 1 = n
        BY <1>0, <3>2
      <4> QED
        BY <1>1, <3>2, <4>1 DEF IsTotal
    <3> QED
      BY <3>1, <3>2
  <2> QED
    BY <1>1, <2>1 DEF IsTotal
<1>4. Is(up)
  <2> HIDE DEF Is
  <2> QED
    BY <1>3, Zenon
<1> HIDE DEF up
<1> DEFINE T == {n \in 0..L : up[n] = f[n]}
<1>5. 0 \in T
  BY <1>0, <1>3, <1>4
<1>6. ASSUME NEW n \in 0..L, n \in T, n < L PROVE n + 1 \in T
  <2>1. n + 1 \in 0..L /\ n + 1 # 0 /\ (n + 1) - 1 = n
    BY <1>0, <1>6
  <2>2. up[n + 1] = up[n] + s[n + 1] /\ f[n + 1] = f[n] + s[n + 1]
    BY <1>3, <1>4, <2>1
  <2> QED
    BY <1>6, <2>1, <2>2
<1>7. L \in T
  <2> HIDE DEF T
  <2>1. L \in Nat /\ L \in 0..L
    BY <1>0
  <2>2. 0..L \subseteq T
    BY <1>5, <1>6, <2>1, BoundedInduction, Zenon
  <2> QED
    BY <2>1, <2>2
<1> QED
  BY <1>0, <1>1, <1>2, <1>7

\* What Total is, without the recursion.
LEMMA TotalEmpty == Total(<<>>) = 0
<1>1. <<>> \in Seq(Int) /\ Len(<<>>) = 0
  OBVIOUS
<1>2. PICK f : IsTotal(f, <<>>, 0) /\ Total(<<>>) = f[0]
  BY <1>1, TotalIs
<1> QED
  BY <1>2 DEF IsTotal

LEMMA TotalAppend ==
  ASSUME NEW s \in Seq(Int), NEW x \in Int
  PROVE  Total(Append(s, x)) = Total(s) + x
<1>0. PICK L \in Nat : L = Len(s)
  OBVIOUS
<1> DEFINE app == Append(s, x)
<1>01. app \in Seq(Int)
  OBVIOUS
<1>1. Len(app) = L + 1 /\ app[L + 1] = x /\ \A i \in 1..L : s[i] = app[i]
  BY <1>0
<1>2. PICK f : IsTotal(f, s, L) /\ Total(s) = f[L]
  BY <1>0, TotalIs
<1> HIDE DEF app
<1>3. PICK g : IsTotal(g, app, L + 1) /\ Total(app) = g[L + 1]
  BY <1>01, <1>1, TotalIs
<1>4. L \in 0..(L + 1) /\ L < L + 1
  OBVIOUS
<1>5. f[L] = g[L]
  <2> DEFINE T == {k \in 0..L : f[k] = g[k]}
  <2>1. 0 \in T
    BY <1>2, <1>3 DEF IsTotal
  <2>2. ASSUME NEW k \in 0..L, k \in T, k < L PROVE k + 1 \in T
    <3>1. k \in 0..(L + 1) /\ k < L + 1 /\ k + 1 \in 1..L
      BY <2>2
    <3>2. f[k + 1] = f[k] + s[k + 1] /\ g[k + 1] = g[k] + app[k + 1]
      BY <1>2, <1>3, <2>2, <3>1 DEF IsTotal
    <3> QED
      BY <1>1, <2>2, <3>1, <3>2
  <2> HIDE DEF T
  <2>3. 0..L \subseteq T
    BY <2>1, <2>2, BoundedInduction, Zenon
  <2>4. L \in T
    BY <2>3
  <2> QED
    BY <2>4 DEF T
<1>6. g[L + 1] = g[L] + app[L + 1]
  BY <1>3, <1>4 DEF IsTotal
<1> QED
  BY <1>0, <1>1, <1>2, <1>3, <1>5, <1>6 DEF app

\* The lengths of sentences add up to a length.
LEMMA TotalGrows ==
  ASSUME NEW s \in Seq(Nat \ {0})
  PROVE  Total(s) \in Nat /\ (s # <<>> => Total(s) > 0)
<1>0. PICK L \in Nat : /\ L = Len(s) /\ (s # <<>> => L > 0)
                       /\ \A i \in 1..L : s[i] \in Nat \ {0}
  OBVIOUS
<1>1. PICK f : IsTotal(f, s, L) /\ Total(s) = f[L]
  <2>1. s \in Seq(Int)
    OBVIOUS
  <2> QED
    BY <1>0, <2>1, TotalIs
<1> DEFINE T == {n \in 0..L : f[n] \in Nat /\ f[n] >= n}
<1>2. 0 \in T
  BY <1>0, <1>1 DEF IsTotal
<1>3. ASSUME NEW n \in 0..L, n \in T, n < L PROVE n + 1 \in T
  <2>1. n + 1 \in 1..L /\ f[n + 1] = f[n] + s[n + 1]
    BY <1>0, <1>1, <1>3 DEF IsTotal
  <2>2. s[n + 1] \in Nat \ {0}
    BY <1>0, <2>1
  <2> QED
    BY <1>0, <1>3, <2>1, <2>2
<1>4. L \in T
  <2> HIDE DEF T
  <2>1. L \in Nat /\ L \in 0..L
    BY <1>0
  <2>2. 0..L \subseteq T
    BY <1>2, <1>3, <2>1, BoundedInduction, Zenon
  <2> QED
    BY <2>1, <2>2
<1> QED
  BY <1>0, <1>1, <1>4

\* A sequence with one more member, and without its first.
LEMMA AppendHas ==
  ASSUME NEW U, NEW s \in Seq(U), NEW u \in U
  PROVE  /\ ToSet(Append(s, u)) = ToSet(s) \cup {u}
         /\ Append(s, u) \in Seq(U) /\ Len(Append(s, u)) = Len(s) + 1
         /\ \A i \in 1..Len(s) : Append(s, u)[i] = s[i]
         /\ Append(s, u)[Len(s) + 1] = u /\ Append(s, u) # <<>>
<1> DEFINE t == Append(s, u)
<1>1. /\ t \in Seq(U) /\ Len(t) = Len(s) + 1 /\ DOMAIN t = 1..(Len(s) + 1) /\ t # <<>>
      /\ \A i \in 1..Len(s) : t[i] = s[i]
      /\ t[Len(s) + 1] = u /\ Len(s) \in Nat /\ DOMAIN s = 1..Len(s)
  OBVIOUS
<1> HIDE DEF t
<1>2. \A i \in 1..(Len(s) + 1) : i \in 1..Len(s) \/ i = Len(s) + 1
  BY <1>1
<1>3. \A i \in 1..Len(s) : i \in 1..(Len(s) + 1)
  BY <1>1
<1>4. Len(s) + 1 \in 1..(Len(s) + 1)
  BY <1>1
<1>5. ToSet(t) = ToSet(s) \cup {u}
  BY <1>1, <1>2, <1>3, <1>4 DEF ToSet
<1> QED
  BY <1>1, <1>5 DEF t

LEMMA TailHas ==
  ASSUME NEW U, NEW s \in Seq(U), s # <<>>
  PROVE  /\ Head(s) \in U /\ Tail(s) \in Seq(U) /\ Len(Tail(s)) = Len(s) - 1
         /\ Len(s) \in Nat /\ Len(s) >= 1 /\ Head(s) = s[1]
         /\ \A i \in 1..(Len(s) - 1) : Tail(s)[i] = s[i + 1]
         /\ ToSet(s) = {Head(s)} \cup ToSet(Tail(s))
         /\ DOMAIN s = 1..Len(s) /\ DOMAIN Tail(s) = 1..(Len(s) - 1)
<1> DEFINE t == Tail(s)
<1>1. /\ Head(s) \in U /\ t \in Seq(U) /\ Len(t) = Len(s) - 1 /\ Len(s) \in Nat /\ Len(s) >= 1
      /\ DOMAIN t = 1..(Len(s) - 1) /\ DOMAIN s = 1..Len(s) /\ Head(s) = s[1]
      /\ \A i \in 1..(Len(s) - 1) : t[i] = s[i + 1]
  OBVIOUS
<1> HIDE DEF t
<1>2. \A i \in 1..(Len(s) - 1) : i + 1 \in 1..Len(s)
  BY <1>1
<1>3. \A i \in 1..Len(s) : i = 1 \/ (i - 1 \in 1..(Len(s) - 1) /\ (i - 1) + 1 = i)
  BY <1>1
<1>4. 1 \in 1..Len(s)
  BY <1>1
<1>5. ToSet(s) = {Head(s)} \cup ToSet(t)
  <2>1. ASSUME NEW i \in 1..Len(s) PROVE s[i] \in {Head(s)} \cup ToSet(t)
    <3>1. CASE i = 1
      BY <1>1, <3>1
    <3>2. CASE i # 1
      <4>1. i - 1 \in DOMAIN t /\ s[i] = t[i - 1]
        BY <1>1, <1>3, <3>2
      <4> QED
        BY <4>1 DEF ToSet
    <3> QED
      BY <3>1, <3>2
  <2>2. Head(s) \in ToSet(s)
    BY <1>1, <1>4 DEF ToSet
  <2>3. \A i \in DOMAIN t : t[i] \in ToSet(s)
    BY <1>1, <1>2 DEF ToSet
  <2> QED
    BY <1>1, <2>1, <2>2, <2>3 DEF ToSet
<1> QED
  BY <1>1, <1>5 DEF t

-----------------------------------------------------------------------------
(* Units laid out in places 1 to n, and behind them those that are still   *)
(* to be added.                                                            *)
Gathered(P, n) == UNION {ToSet(P[k]) : k \in 1..n}
Laid(P, n, rest, C) ==
  /\ n \in Nat /\ n > 0 /\ P \in [1..n -> Seq(Unit)] /\ rest \in Seq(Unit)
  /\ Gathered(P, n) \cup ToSet(rest) = C
  /\ Ascending(rest)
  /\ \A k \in 1..n :
       /\ Ascending(P[k])
       /\ \A m \in 1..n : k < m => InOrder(ToSet(P[k]), ToSet(P[m]))
       /\ InOrder(ToSet(P[k]), ToSet(rest))

\* What is gathered.
LEMMA GatheredHas ==
  ASSUME NEW P, NEW n
  PROVE  \A x : x \in Gathered(P, n) <=> \E k \in 1..n : x \in ToSet(P[k])
BY DEF Gathered

\* A place is opened.
LEMMA PlaceOpened ==
  ASSUME NEW P, NEW n, NEW rest, NEW C, Laid(P, n, rest, C)
  PROVE  Laid([k \in 1..(n + 1) |-> IF k = n + 1 THEN <<>> ELSE P[k]], n + 1, rest, C)
<1> DEFINE Q == [k \in 1..(n + 1) |-> IF k = n + 1 THEN <<>> ELSE P[k]]
<1>0. n \in Nat /\ n > 0 /\ P \in [1..n -> Seq(Unit)] /\ n + 1 \in Nat /\ n + 1 > 0
  BY DEF Laid
<1>1. /\ Q \in [1..(n + 1) -> Seq(Unit)] /\ Q[n + 1] = <<>> /\ \A k \in 1..n : Q[k] = P[k]
  BY <1>0
<1>2. \A k \in 1..(n + 1) : k \in 1..n \/ k = n + 1
  BY <1>0
<1>3. ToSet(<<>>) = {} /\ Ascending(<<>>)
  BY DEF ToSet, Ascending
<1> HIDE DEF Q
<1>4. Gathered(Q, n + 1) = Gathered(P, n)
  <2>1. \A x : (\E k \in 1..(n + 1) : x \in ToSet(Q[k])) <=> (\E k \in 1..n : x \in ToSet(P[k]))
    <3>1. \A k \in 1..n : k \in 1..(n + 1)
      BY <1>0
    <3> QED
      BY <1>1, <1>2, <1>3, <3>1
  <2> QED
    <3>1. \A x : x \in Gathered(Q, n + 1) <=> x \in Gathered(P, n)
      BY <2>1, GatheredHas
    <3> QED
      BY <3>1
<1>5. ASSUME NEW k \in 1..(n + 1)
      PROVE  /\ Ascending(Q[k])
             /\ \A m \in 1..(n + 1) : k < m => InOrder(ToSet(Q[k]), ToSet(Q[m]))
             /\ InOrder(ToSet(Q[k]), ToSet(rest))
  <2>1. CASE k = n + 1
    <3>1. Q[k] = <<>>
      BY <1>1, <2>1
    <3> QED
      BY <1>3, <3>1 DEF InOrder
  <2>2. CASE k \in 1..n
    <3>1. \A m \in 1..n : k < m => InOrder(ToSet(P[k]), ToSet(P[m]))
      BY <2>2 DEF Laid
    <3>2. InOrder(ToSet(P[k]), ToSet(<<>>))
      BY <1>3 DEF InOrder
    <3> QED
      BY <1>1, <1>2, <2>2, <3>1, <3>2 DEF Laid
  <2> QED
    BY <1>2, <2>1, <2>2
<1> QED
  BY <1>0, <1>1, <1>4, <1>5 DEF Laid, Q

\* The next unit is put into the last place.
LEMMA UnitPlaced ==
  ASSUME NEW P, NEW n, NEW rest, NEW C, Laid(P, n, rest, C), rest # <<>>
  PROVE  Laid([P EXCEPT ![n] = Append(P[n], Head(rest))], n, Tail(rest), C)
<1> DEFINE u == Head(rest)
           Q == [P EXCEPT ![n] = Append(P[n], u)]
<1>0. /\ n \in Nat /\ n > 0 /\ n \in 1..n /\ P \in [1..n -> Seq(Unit)] /\ rest \in Seq(Unit)
      /\ P[n] \in Seq(Unit)
  BY DEF Laid
<1>1. /\ u \in Unit /\ Tail(rest) \in Seq(Unit) /\ ToSet(rest) = {u} \cup ToSet(Tail(rest))
      /\ Len(rest) \in Nat /\ Len(rest) >= 1 /\ u = rest[1]
      /\ DOMAIN rest = 1..Len(rest) /\ DOMAIN Tail(rest) = 1..(Len(rest) - 1)
      /\ \A i \in 1..(Len(rest) - 1) : Tail(rest)[i] = rest[i + 1]
  BY <1>0, TailHas
<1> HIDE DEF u
<1>2. /\ Append(P[n], u) \in Seq(Unit) /\ ToSet(Append(P[n], u)) = ToSet(P[n]) \cup {u}
      /\ Len(Append(P[n], u)) = Len(P[n]) + 1 /\ Append(P[n], u)[Len(P[n]) + 1] = u
      /\ \A i \in 1..Len(P[n]) : Append(P[n], u)[i] = P[n][i]
  BY <1>0, <1>1, AppendHas
<1>3. /\ Q \in [1..n -> Seq(Unit)] /\ Q[n] = Append(P[n], u)
      /\ \A k \in 1..n : k # n => Q[k] = P[k]
  BY <1>0, <1>2
<1> HIDE DEF Q
<1>4. Gathered(Q, n) \cup ToSet(Tail(rest)) = C
  <2>1. \A k \in 1..n : IF k = n THEN ToSet(Q[k]) = ToSet(P[k]) \cup {u}
                                 ELSE ToSet(Q[k]) = ToSet(P[k])
    BY <1>2, <1>3
  <2>2. \A x : x \in Gathered(Q, n) <=> x = u \/ x \in Gathered(P, n)
    BY <1>0, <2>1, GatheredHas
  <2>3. C = Gathered(P, n) \cup ToSet(rest)
    BY DEF Laid
  <2> QED
    BY <1>1, <2>2, <2>3
<1>5. \A v \in ToSet(Tail(rest)) : Before(u, v)
  <2> SUFFICES ASSUME NEW i \in 1..(Len(rest) - 1) PROVE Before(u, Tail(rest)[i])
    BY <1>1 DEF ToSet
  <2>1. i + 1 \in DOMAIN rest /\ 1 \in DOMAIN rest /\ 1 < i + 1
    BY <1>1
  <2> QED
    BY <1>1, <2>1 DEF Laid, Ascending
<1>6. Ascending(Tail(rest))
  <2> SUFFICES ASSUME NEW i \in 1..(Len(rest) - 1), NEW j \in 1..(Len(rest) - 1), i < j
               PROVE  Before(Tail(rest)[i], Tail(rest)[j])
    BY <1>1 DEF Ascending
  <2>1. i + 1 \in DOMAIN rest /\ j + 1 \in DOMAIN rest /\ i + 1 < j + 1
    BY <1>1
  <2> QED
    BY <1>1, <2>1 DEF Laid, Ascending
<1>7. Ascending(Append(P[n], u))
  <2> DEFINE t == Append(P[n], u)
  <2>1. DOMAIN t = 1..(Len(P[n]) + 1) /\ Len(P[n]) \in Nat /\ DOMAIN P[n] = 1..Len(P[n])
    BY <1>0, <1>2
  <2> HIDE DEF t
  <2> SUFFICES ASSUME NEW i \in 1..(Len(P[n]) + 1), NEW j \in 1..(Len(P[n]) + 1), i < j
               PROVE  Before(t[i], t[j])
    BY <2>1 DEF Ascending, t
  <2>2. i \in 1..Len(P[n]) /\ t[i] = P[n][i]
    BY <1>2, <2>1 DEF t
  <2>3. CASE j = Len(P[n]) + 1
    <3>1. t[j] = u /\ t[i] \in ToSet(P[n]) /\ u \in ToSet(rest)
      BY <1>1, <1>2, <2>1, <2>2, <2>3 DEF t, ToSet
    <3> QED
      BY <1>0, <3>1 DEF Laid, InOrder
  <2>4. CASE j # Len(P[n]) + 1
    <3>1. j \in 1..Len(P[n]) /\ t[j] = P[n][j]
      BY <1>2, <2>1, <2>4 DEF t
    <3> QED
      BY <1>0, <2>1, <2>2, <3>1 DEF Laid, Ascending
  <2> QED
    BY <2>3, <2>4
<1>8. ASSUME NEW k \in 1..n
      PROVE  /\ Ascending(Q[k])
             /\ \A m \in 1..n : k < m => InOrder(ToSet(Q[k]), ToSet(Q[m]))
             /\ InOrder(ToSet(Q[k]), ToSet(Tail(rest)))
  <2>1. CASE k = n
    <3>1. Ascending(Q[k]) /\ ToSet(Q[k]) = ToSet(P[n]) \cup {u}
      BY <1>2, <1>3, <1>7, <2>1
    <3>2. InOrder(ToSet(Q[k]), ToSet(Tail(rest)))
      BY <1>0, <1>1, <1>5, <3>1 DEF Laid, InOrder
    <3>3. \A m \in 1..n : ~(k < m)
      BY <1>0, <2>1
    <3> QED
      BY <3>1, <3>2, <3>3
  <2>2. CASE k # n
    <3>1. Q[k] = P[k] /\ Ascending(P[k]) /\ InOrder(ToSet(P[k]), ToSet(rest))
          /\ \A m \in 1..n : k < m => InOrder(ToSet(P[k]), ToSet(P[m]))
      BY <1>3, <2>2 DEF Laid
    <3>2. k < n
      BY <1>0, <2>2
    <3>3. InOrder(ToSet(P[k]), ToSet(P[n]) \cup {u})
      BY <1>0, <1>1, <3>1, <3>2 DEF InOrder
    <3>4. InOrder(ToSet(P[k]), ToSet(Tail(rest)))
      BY <1>1, <3>1 DEF InOrder
    <3>5. ASSUME NEW m \in 1..n, k < m PROVE InOrder(ToSet(P[k]), ToSet(Q[m]))
      BY <1>2, <1>3, <3>1, <3>3, <3>5
    <3> QED
      BY <3>1, <3>4, <3>5
  <2> QED
    BY <2>1, <2>2
<1> QED
  BY <1>0, <1>1, <1>3, <1>4, <1>6, <1>8 DEF Laid, Q, u

\* The units of a line behind all there were.
LEMMA LineLaid ==
  ASSUME NEW P, NEW n, NEW C, Laid(P, n, <<>>, C),
         NEW rest \in Seq(Unit), Ascending(rest),
         \A u \in C, v \in ToSet(rest) : u.line < v.line
  PROVE  Laid(P, n, rest, C \cup ToSet(rest))
<1>1. ToSet(<<>>) = {}
  BY DEF ToSet
<1>2. C = Gathered(P, n)
  BY <1>1 DEF Laid
<1>3. \A k \in 1..n : InOrder(ToSet(P[k]), ToSet(rest))
  BY <1>2, GatheredHas DEF InOrder, Before
<1> QED
  BY <1>2, <1>3 DEF Laid

\* What the constants are.
LEMMA ChunkingNumbers ==
  /\ MaxChunk \in Nat /\ Overlap \in Nat /\ Overlap > 0 /\ HardSplit \in Nat
  /\ Overlap <= HardSplit /\ MaxLines \in Nat
  /\ \A l \in Line : /\ l.level \in 0..3 /\ l.fence \in BOOLEAN /\ l.segs \in Seq(Nat \ {0})
                     /\ l.len \in Nat /\ Total(l.segs) <= l.len
                     /\ Blank(l) => l.level = 0 /\ ~l.fence
BY ChunkingAssumption DEF LineRecords, Blank

\* A line of the text.
LEMMA LineIs ==
  ASSUME text \in Seq(Line), NEW i \in 1..Len(text)
  PROVE  /\ text[i] \in Line /\ text[i].level \in 0..3 /\ text[i].fence \in BOOLEAN
         /\ text[i].len \in Nat
         /\ Blank(text[i]) => text[i].level = 0 /\ ~text[i].fence
         /\ ~Blank(text[i]) => text[i].len > 0
<1>1. text[i] \in Line
  OBVIOUS
<1>2. /\ text[i].segs \in Seq(Nat \ {0}) /\ text[i].len \in Nat
      /\ Total(text[i].segs) <= text[i].len
  BY <1>1, ChunkingNumbers
<1> DEFINE total == Total(text[i].segs)
<1>4. total \in Nat /\ (~Blank(text[i]) => total > 0)
  BY <1>2, TotalGrows DEF Blank
<1> HIDE DEF total
<1>5. total <= text[i].len /\ text[i].len \in Nat
  BY <1>2 DEF total
<1>3. text[i].len \in Nat /\ (~Blank(text[i]) => text[i].len > 0)
  BY <1>4, <1>5
<1> QED
  BY <1>1, <1>3, ChunkingNumbers

\* Its units.
UnitsOf(i) == IF text[i].fence THEN <<Whole(text, i)>> ELSE Units(text, i)

\* They are in order, all of that line, and one unless the line is oversized.
LEMMA UnitsAre ==
  ASSUME text \in Seq(Line), NEW i \in 1..Len(text), ~Blank(text[i])
  PROVE  /\ UnitsOf(i) \in Seq(Unit) /\ UnitsOf(i) # <<>> /\ Ascending(UnitsOf(i))
         /\ \A u \in ToSet(UnitsOf(i)) : u.line = i
         /\ text[i].len <= HardSplit \/ text[i].fence =>
              Len(UnitsOf(i)) = 1 /\ Head(UnitsOf(i)).len = text[i].len
<1> DEFINE w == Whole(text, i)
<1>1. /\ text[i].len \in Nat /\ text[i].len > 0 /\ text[i] \in Line
      /\ i \in Nat \ {0}
  BY LineIs
<1>2. w \in Unit /\ w.line = i /\ w.len = text[i].len
  BY <1>1 DEF Whole, Unit
<1> HIDE DEF w
<1>3. /\ <<w>> \in Seq(Unit) /\ <<w>> # <<>> /\ Len(<<w>>) = 1 /\ Head(<<w>>) = w
      /\ ToSet(<<w>>) = {w} /\ Ascending(<<w>>)
  <2>1. /\ <<w>> \in Seq(Unit) /\ <<w>> # <<>> /\ Len(<<w>>) = 1 /\ Head(<<w>>) = w
        /\ DOMAIN <<w>> = 1..1 /\ <<w>>[1] = w
    BY <1>2
  <2>2. \A j \in 1..1 : j = 1
    OBVIOUS
  <2> QED
    BY <2>1, <2>2 DEF ToSet, Ascending
<1>4. CASE text[i].fence \/ ~(text[i].len > HardSplit)
  <2>1. UnitsOf(i) = <<w>>
    BY <1>4 DEF UnitsOf, Units, w
  <2> QED
    BY <1>2, <1>3, <2>1
<1>5. CASE ~text[i].fence /\ text[i].len > HardSplit
  <2> DEFINE segs == text[i].segs
             s == [j \in DOMAIN segs |-> [line |-> i, seg |-> j, len |-> segs[j]]]
  <2>1. UnitsOf(i) = s
    BY <1>5 DEF UnitsOf, Units
  <2>2. segs \in Seq(Nat \ {0}) /\ segs # <<>>
    BY <1>1, ChunkingNumbers DEF Blank
  <2> HIDE DEF segs
  <2>3. PICK n \in Nat : n = Len(segs) /\ n > 0 /\ DOMAIN segs = 1..n
                         /\ \A j \in 1..n : segs[j] \in Nat \ {0}
    BY <2>2
  <2>4. \A j \in 1..n : s[j] \in Unit /\ s[j].line = i /\ s[j].seg = j
    BY <1>1, <2>3 DEF Unit
  <2>5. s \in [1..n -> Unit]
    BY <2>3, <2>4
  <2> HIDE DEF s
  <2>6. s \in Seq(Unit) /\ DOMAIN s = 1..n /\ s # <<>>
    <3>1. s \in Seq(Unit) /\ Len(s) = n
      BY <2>5
    <3> QED
      BY <2>3, <2>5, <3>1
  <2>7. \A u \in ToSet(s) : u.line = i
    BY <2>4, <2>6 DEF ToSet
  <2>8. Ascending(s)
    BY <2>4, <2>6 DEF Ascending, Before
  <2>9. ~(text[i].len <= HardSplit \/ text[i].fence)
    BY <1>1, <1>5, ChunkingNumbers
  <2> QED
    BY <2>1, <2>6, <2>7, <2>8, <2>9
<1> QED
  BY <1>4, <1>5

-----------------------------------------------------------------------------
(* Headings.                                                               *)

\* They are lines of the text.
LEMMA HeadsAre ==
  ASSUME text \in Seq(Line)
  PROVE  Heads \in SUBSET (1..Len(text)) /\ Heads \in SUBSET Nat /\ 0 \notin Heads
         /\ \A h \in Heads : text[h].level \in 1..3
<1>1. Heads \in SUBSET (1..Len(text)) /\ \A h \in Heads : text[h].level > 0
  BY DEF Heads
<1>2. \A h \in Heads : text[h].level \in 1..3
  BY <1>1, LineIs
<1> QED
  BY <1>1, <1>2

\* The last heading at or above a line, and how it moves to the next line.
LEMMA LastHeadIs ==
  ASSUME text \in Seq(Line), NEW n \in Nat
  PROVE  /\ LastHead(n) \in Nat /\ LastHead(n) <= n
         /\ LastHead(n) = 0 \/ LastHead(n) \in Heads
         /\ \A h \in Heads : h <= n => h <= LastHead(n)
<1> DEFINE T == {0} \cup {h \in Heads : h <= n}
<1>1. T \in SUBSET Nat /\ T # {} /\ \A m \in T : m <= n
  BY HeadsAre
<1>2. Max(T) \in T /\ \A m \in T : m <= Max(T)
  BY <1>1, GreatestNumber
<1>3. LastHead(n) = Max(T)
  BY DEF LastHead
<1> QED
  BY <1>1, <1>2, <1>3

LEMMA NextHead ==
  ASSUME text \in Seq(Line), NEW n \in Nat
  PROVE  LastHead(n + 1) = IF n + 1 \in Heads THEN n + 1 ELSE LastHead(n)
<1> DEFINE a == LastHead(n)
           b == LastHead(n + 1)
<1>1. /\ a \in Nat /\ a <= n /\ (a = 0 \/ a \in Heads) /\ \A h \in Heads : h <= n => h <= a
      /\ b \in Nat /\ b <= n + 1 /\ (b = 0 \/ b \in Heads) /\ \A h \in Heads : h <= n + 1 => h <= b
  <2>1. n + 1 \in Nat
    OBVIOUS
  <2> QED
    BY <2>1, LastHeadIs
<1>2. Heads \in SUBSET Nat
  BY HeadsAre
<1> HIDE DEF a, b
<1>3. b = IF n + 1 \in Heads THEN n + 1 ELSE a
  BY <1>1, <1>2
<1> QED
  BY <1>3 DEF a, b

\* A fence opens or closes.
LEMMA NextFence ==
  ASSUME text \in Seq(Line), NEW n \in 0..(Len(text) - 1)
  PROVE  Fenced(n + 2) = IF text[n + 1].fence THEN ~Fenced(n + 1) ELSE Fenced(n + 1)
<1>0. n \in Nat /\ n + 1 \in Nat /\ (n + 1) - 1 = n /\ (n + 2) - 1 = n + 1
  BY ChunkingNumbers
<1>1. Fences(n) \in SUBSET (1..n) /\ n + 1 \notin Fences(n)
  BY <1>0 DEF Fences
<1>2. IsFiniteSet(Fences(n)) /\ Cardinality(Fences(n)) \in Nat
  <2>1. IsFiniteSet(1..n)
    BY <1>0, FS_Interval
  <2>2. IsFiniteSet(Fences(n))
    BY <1>1, <2>1, FS_Subset
  <2> QED
    BY <2>2, FS_CardinalityType
<1>3. Fences(n + 1) = IF text[n + 1].fence THEN Fences(n) \cup {n + 1} ELSE Fences(n)
  <2>1. \A j : j \in 1..(n + 1) <=> j \in 1..n \/ j = n + 1
    BY <1>0
  <2> QED
    BY <2>1 DEF Fences
<1>4. Cardinality(Fences(n) \cup {n + 1}) = Cardinality(Fences(n)) + 1
  BY <1>1, <1>2, FS_AddElement
<1>5. \A m \in Nat : ((m + 1) % 2 = 1) = ~(m % 2 = 1)
  OBVIOUS
<1>6. Fenced(n + 1) = (Cardinality(Fences(n)) % 2 = 1)
  BY <1>0 DEF Fenced
<1>7. Fenced(n + 2) = (Cardinality(Fences(n + 1)) % 2 = 1)
  BY <1>0 DEF Fenced
<1> QED
  BY <1>2, <1>3, <1>4, <1>5, <1>6, <1>7

\* What is said of the text does not change with the loop.
LEMMA TextStays ==
  ASSUME text' = text
  PROVE  /\ Heads' = Heads
         /\ \A n : LastHead(n)' = LastHead(n)
         /\ \A i : Section(i)' = Section(i)
         /\ \A h : Open(h)' = Open(h)
         /\ Nested' = Nested
         /\ \A i : Fenced(i)' = Fenced(i)
<1>1. \A i : Fenced(i)' = Fenced(i)
  BY DEF Fenced, Fences
<1>2. \A i : InList(i)' = InList(i)
  BY DEF InList
<1>3. Heads' = Heads
  BY DEF Heads, Fenced, Fences, InList
<1>4. \A n : LastHead(n)' = LastHead(n)
  BY <1>3 DEF LastHead
<1>5. \A i : Section(i)' = Section(i)
  BY <1>3 DEF Section, LastHead
<1>6. \A h : Open(h)' = Open(h)
  BY <1>3 DEF Open
<1>7. Nested' = Nested
  BY <1>3 DEF Nested, Open
<1> QED
  BY <1>1, <1>3, <1>4, <1>5, <1>6, <1>7

-----------------------------------------------------------------------------
(* What is said of a chunk, of the one before it and of the text.          *)
Chunk == [carry : Nat, parts : Seq(Unit), runes : Nat, path : Seq(Nat),
          start : Int, end : Int]
PathFits(p, s) ==
  /\ Nested => /\ ToSet(p) = Open(s)
               /\ \A i, j \in DOMAIN p : i < j => p[i] < p[j]
  /\ Len(p) <= 3
  /\ s # 0 => Last(p) = s
Follows(c, b) == Section(Last(b.parts).line) = Section(Head(c.parts).line)
ChunkFits(c) ==
  /\ c.parts # <<>>
  /\ c.runes > MaxChunk => Len(c.parts) = 1
  /\ \A u \in ToSet(c.parts) : Section(u.line) = Section(Head(c.parts).line)
  /\ c.runes = Joined(c)
  /\ PathFits(c.path, Section(Head(c.parts).line))
  /\ 0 <= c.start /\ c.start <= c.end
ChunksFit(cs) ==
  /\ \A k \in DOMAIN cs : ChunkFits(cs[k])
  /\ \A k \in DOMAIN cs :
       /\ cs[k].carry = IF k > 1 /\ Follows(cs[k], cs[k - 1])
                          THEN Carry(cs[k - 1]) ELSE 0
       /\ k > 1 => cs[k - 1].end <= cs[k].end

\* Together they are Chunked.
LEMMA ChunkedIs ==
  Chunked <=> ChunksFit(chunks) /\ \A k \in DOMAIN chunks : chunks[k].end < offset
<1>1. Chunked => ChunksFit(chunks) /\ \A k \in DOMAIN chunks : chunks[k].end < offset
  <2> SUFFICES ASSUME Chunked
               PROVE  ChunksFit(chunks) /\ \A k \in DOMAIN chunks : chunks[k].end < offset
    OBVIOUS
  <2>1. \A k \in DOMAIN chunks : ChunkFits(chunks[k])
    BY DEF Chunked, SizesAreBounded, SectionsAreKept, RangesAreInText, ChunkFits, PathFits
  <2>2. \A k \in DOMAIN chunks :
          /\ chunks[k].carry = IF k > 1 /\ Follows(chunks[k], chunks[k - 1])
                                 THEN Carry(chunks[k - 1]) ELSE 0
          /\ k > 1 => chunks[k - 1].end <= chunks[k].end
          /\ chunks[k].end < offset
    BY DEF Chunked, SectionsAreKept, RangesAreInText, Follows
  <2> QED
    BY <2>1, <2>2 DEF ChunksFit
<1>2. ASSUME ChunksFit(chunks), \A k \in DOMAIN chunks : chunks[k].end < offset
      PROVE  Chunked
  <2>1. SizesAreBounded
    BY <1>2 DEF ChunksFit, ChunkFits, SizesAreBounded
  <2>2. SectionsAreKept
    BY <1>2 DEF ChunksFit, ChunkFits, SectionsAreKept, PathFits, Follows
  <2>3. RangesAreInText
    BY <1>2 DEF ChunksFit, ChunkFits, RangesAreInText
  <2> QED
    BY <2>1, <2>2, <2>3 DEF Chunked
<1> QED
  BY <1>1, <1>2

LEMMA ChunkedNext ==
  ASSUME text' = text, ChunksFit(chunks'), \A k \in DOMAIN chunks' : chunks'[k].end < offset'
  PROVE  Chunked'
<1>1. SizesAreBounded'
  BY DEF ChunksFit, ChunkFits, SizesAreBounded
<1>2. SectionsAreKept'
  BY TextStays DEF ChunksFit, ChunkFits, SectionsAreKept, PathFits, Follows
<1>3. RangesAreInText'
  BY DEF ChunksFit, ChunkFits, RangesAreInText
<1> QED
  BY <1>1, <1>2, <1>3 DEF Chunked

\* A chunk is emitted.
LEMMA ChunkEmitted ==
  ASSUME NEW cs \in Seq(Chunk), ChunksFit(cs), NEW c \in Chunk, ChunkFits(c),
         c.carry = IF cs # <<>> /\ Follows(c, Last(cs)) THEN Carry(Last(cs)) ELSE 0,
         cs # <<>> => Last(cs).end <= c.end
  PROVE  ChunksFit(Append(cs, c))
<1> DEFINE ds == Append(cs, c)
<1>0. PICK n \in Nat : n = Len(cs)
  OBVIOUS
<1>1. /\ DOMAIN cs = 1..n /\ DOMAIN ds = 1..(n + 1) /\ ds[n + 1] = c
      /\ \A k \in 1..n : ds[k] = cs[k]
      /\ cs # <<>> <=> n > 0
      /\ n > 0 => Last(cs) = cs[n]
  BY <1>0 DEF Last
<1> HIDE DEF ds
<1>2. \A k \in DOMAIN ds : ChunkFits(ds[k])
  BY <1>1 DEF ChunksFit
<1>3. ASSUME NEW k \in DOMAIN ds
      PROVE  /\ ds[k].carry = IF k > 1 /\ Follows(ds[k], ds[k - 1])
                                THEN Carry(ds[k - 1]) ELSE 0
             /\ k > 1 => ds[k - 1].end <= ds[k].end
  <2>1. CASE k \in 1..n
    <3>1. ds[k] = cs[k] /\ (k > 1 => ds[k - 1] = cs[k - 1])
      <4>1. k > 1 => k - 1 \in 1..n
        BY <2>1
      <4> QED
        BY <1>1, <2>1, <4>1
    <3>2. /\ cs[k].carry = IF k > 1 /\ Follows(cs[k], cs[k - 1])
                             THEN Carry(cs[k - 1]) ELSE 0
          /\ k > 1 => cs[k - 1].end <= cs[k].end
      BY <1>1, <2>1 DEF ChunksFit
    <3> QED
      BY <3>1, <3>2
  <2>2. CASE k = n + 1
    <3>1. ds[k] = c /\ (n > 0 => ds[k - 1] = Last(cs))
      <4>1. n > 0 => k - 1 = n /\ n \in 1..n
        BY <2>2
      <4> QED
        BY <1>1, <2>2, <4>1
    <3>2. k > 1 <=> n > 0
      BY <2>2
    <3> QED
      BY <1>1, <3>1, <3>2
  <2> QED
    BY <1>1, <2>1, <2>2
<1> QED
  BY <1>2, <1>3 DEF ChunksFit, ds

\* What the types say.
LEMMA TypesAre ==
  ASSUME ChunkingTypeOK
  PROVE  /\ text \in Seq(Line) /\ Len(text) \in Nat /\ pos \in Nat /\ pos <= Len(text) + 1
         /\ offset \in Nat /\ todo \in Seq(Unit)
         /\ buf.carry \in Nat /\ buf.parts \in Seq(Unit) /\ buf.runes \in Nat /\ buf.start \in Int
         /\ buf = [carry |-> buf.carry, parts |-> buf.parts, runes |-> buf.runes, start |-> buf.start]
         /\ path \in Seq(Nat)
         /\ chunks \in Seq(Chunk) /\ Len(chunks) \in Nat /\ DOMAIN chunks = 1..Len(chunks)
         /\ \A k \in 1..Len(chunks) : chunks[k] \in Chunk
         /\ chunks # <<>> => Last(chunks) = chunks[Len(chunks)] /\ Last(chunks) \in Chunk
                             /\ Len(chunks) \in 1..Len(chunks)
<1>1. /\ text \in Seq(Line) /\ Len(text) \in Nat /\ pos \in Nat /\ pos <= Len(text) + 1
      /\ offset \in Nat /\ todo \in Seq(Unit) /\ path \in Seq(Nat)
  BY DEF ChunkingTypeOK
<1>2. chunks \in Seq(Chunk)
  BY DEF ChunkingTypeOK, Chunk
<1>3. /\ Len(chunks) \in Nat /\ DOMAIN chunks = 1..Len(chunks)
      /\ \A k \in 1..Len(chunks) : chunks[k] \in Chunk
  BY <1>2
<1>4. chunks # <<>> => Last(chunks) = chunks[Len(chunks)] /\ Len(chunks) \in 1..Len(chunks)
  BY <1>2 DEF Last
<1>5. buf \in [carry : Nat, parts : Seq(Unit), runes : Nat, start : Int]
  BY DEF ChunkingTypeOK
<1> QED
  BY <1>1, <1>2, <1>3, <1>4, <1>5

\* What is carried is a part of the buffer, and some of it is.
LEMMA CarryIs ==
  ASSUME NEW b, b.runes \in Nat
  PROVE  /\ Carry(b) \in Nat /\ Carry(b) <= b.runes /\ Carry(b) <= Overlap
         /\ b.runes > 0 => Carry(b) > 0
         /\ Carry(b) < Overlap => Carry(b) = b.runes
BY ChunkingNumbers DEF Carry, MinOf

\* The units of a sequence are a sum of lengths.
Lengths(s) == [i \in DOMAIN s |-> s[i].len]
LEMMA LengthsAre ==
  ASSUME NEW s \in Seq(Unit)
  PROVE  /\ Lengths(s) \in Seq(Nat \ {0}) /\ Total(Lengths(s)) \in Nat
         /\ s # <<>> => Total(Lengths(s)) > 0
         /\ s = <<>> => Total(Lengths(s)) = 0
         /\ \A u \in Unit : /\ Lengths(Append(s, u)) = Append(Lengths(s), u.len)
                            /\ Total(Lengths(Append(s, u))) = Total(Lengths(s)) + u.len
<1>0. PICK n \in Nat : n = Len(s) /\ DOMAIN s = 1..n /\ (s = <<>> <=> n = 0)
  OBVIOUS
<1>1. \A i \in 1..n : s[i].len \in Nat \ {0}
  <2>1. \A i \in 1..n : s[i] \in Unit
    BY <1>0
  <2> QED
    BY <2>1 DEF Unit
<1>2. Lengths(s) \in [1..n -> Nat \ {0}]
  BY <1>0, <1>1 DEF Lengths
<1>3. Lengths(s) \in Seq(Nat \ {0}) /\ Len(Lengths(s)) = n /\ (Lengths(s) = <<>> <=> n = 0)
  BY <1>2
<1>4. ASSUME NEW u \in Unit
      PROVE  /\ Lengths(Append(s, u)) = Append(Lengths(s), u.len)
             /\ Total(Lengths(Append(s, u))) = Total(Lengths(s)) + u.len
  <2>1. /\ DOMAIN Append(s, u) = 1..(n + 1) /\ Append(s, u)[n + 1] = u
        /\ \A i \in 1..n : Append(s, u)[i] = s[i]
    BY <1>0
  <2>2. u.len \in Nat \ {0}
    BY DEF Unit
  <2>3. /\ Append(Lengths(s), u.len) \in [1..(n + 1) -> Nat \ {0}]
        /\ Append(Lengths(s), u.len)[n + 1] = u.len
        /\ \A i \in 1..n : Append(Lengths(s), u.len)[i] = Lengths(s)[i]
    <3>1. /\ Append(Lengths(s), u.len) \in Seq(Nat \ {0})
          /\ Len(Append(Lengths(s), u.len)) = n + 1
          /\ Append(Lengths(s), u.len)[n + 1] = u.len
          /\ \A i \in 1..n : Append(Lengths(s), u.len)[i] = Lengths(s)[i]
      BY <1>3, <2>2, AppendHas
    <3> DEFINE t == Append(Lengths(s), u.len)
    <3> HIDE DEF t
    <3>2. t \in Seq(Nat \ {0}) /\ Len(t) = n + 1 => t \in [1..(n + 1) -> Nat \ {0}]
      OBVIOUS
    <3> QED
      BY <3>1, <3>2 DEF t
  <2>4. Lengths(Append(s, u)) \in [1..(n + 1) -> Nat \ {0}]
    BY <1>0, <1>1, <2>1, <2>2 DEF Lengths
  <2>5. ASSUME NEW i \in 1..(n + 1)
        PROVE  Lengths(Append(s, u))[i] = Append(Lengths(s), u.len)[i]
    <3>1. Lengths(Append(s, u))[i] = Append(s, u)[i].len
      BY <2>1 DEF Lengths
    <3>2. i \in 1..n => Lengths(s)[i] = s[i].len
      BY <1>0 DEF Lengths
    <3>3. i \in 1..n \/ i = n + 1
      OBVIOUS
    <3> QED
      BY <2>1, <2>3, <3>1, <3>2, <3>3
  <2>6. Lengths(Append(s, u)) = Append(Lengths(s), u.len)
    BY <2>3, <2>4, <2>5
  <2>7. Lengths(s) \in Seq(Int) /\ u.len \in Int
    BY <1>3, <2>2
  <2> QED
    BY <2>6, <2>7, TotalAppend
<1>5. Total(Lengths(s)) \in Nat /\ (n > 0 => Total(Lengths(s)) > 0)
  BY <1>3, TotalGrows
<1>6. n = 0 => Total(Lengths(s)) = 0
  BY <1>3, TotalEmpty
<1> QED
  BY <1>0, <1>3, <1>4, <1>5, <1>6

\* A chunk is longer than what it carries.
LEMMA JoinedIs ==
  ASSUME NEW b, b.carry \in Nat, b.parts \in Seq(Unit), b.parts # <<>>
  PROVE  /\ Joined(b) \in Nat /\ Joined(b) > b.carry
         /\ Joined(b) = b.carry + Total(Lengths(b.parts))
                          + (IF b.carry > 0 THEN Len(b.parts) ELSE Len(b.parts) - 1)
<1>1. Total(Lengths(b.parts)) \in Nat /\ Total(Lengths(b.parts)) > 0
  BY LengthsAre
<1>2. Len(b.parts) \in Nat /\ Len(b.parts) > 0
  OBVIOUS
<1>3. Joined(b) = b.carry + Total(Lengths(b.parts))
                          + (IF b.carry > 0 THEN Len(b.parts) ELSE Len(b.parts) - 1)
  BY DEF Joined, Lengths
<1> QED
  BY <1>1, <1>2, <1>3

-----------------------------------------------------------------------------
\* The chunk a flush emits.
Flush(end) == [carry |-> buf.carry, parts |-> buf.parts, runes |-> buf.runes,
               path |-> path, start |-> buf.start, end |-> end]

\* A flush: what is emitted fits, and is of the section that is open.
LEMMA Emission ==
  ASSUME ChunkingInv, text' = text, offset' \in Nat, pos <= Len(text),
         NEW end \in Int, offset <= end + 1, end < offset', chunks' = Emit(buf, end)
  PROVE  /\ chunks' \in Seq(Chunk) /\ Chunked'
         /\ Empty(buf) => chunks' = chunks
         /\ ~Empty(buf) =>
              /\ chunks' # <<>> /\ Last(chunks') = Flush(end) /\ Len(chunks') = Len(chunks) + 1
              /\ \A k \in 1..Len(chunks) : chunks'[k] = chunks[k]
              /\ chunks'[Len(chunks) + 1] = Flush(end)
              /\ buf.parts # <<>>
              /\ Section(Last(buf.parts).line) = LastHead(pos)
<1> DEFINE c == Flush(end)
           s == LastHead(pos)
<1>0. /\ chunks \in Seq(Chunk) /\ Len(chunks) \in Nat /\ offset \in Nat /\ pos \in Nat
      /\ DOMAIN chunks = 1..Len(chunks) /\ text \in Seq(Line)
      /\ chunks # <<>> => Last(chunks) = chunks[Len(chunks)] /\ Last(chunks) \in Chunk
                             /\ Len(chunks) \in 1..Len(chunks)
  BY TypesAre DEF ChunkingInv
<1>1. ChunksFit(chunks) /\ \A k \in DOMAIN chunks : chunks[k].end < offset
  BY ChunkedIs DEF ChunkingInv
<1>2. \A k \in 1..Len(chunks) : chunks[k].end \in Int
  BY <1>0, TypesAre DEF Chunk, ChunkingInv
<1>3. CASE Empty(buf)
  <2>1. chunks' = chunks
    BY <1>3 DEF Emit
  <2>2. \A k \in DOMAIN chunks' : chunks'[k].end < offset'
    BY <1>0, <1>1, <1>2, <2>1
  <2> QED
    BY <1>0, <1>1, <1>3, <2>1, <2>2, ChunkedNext
<1>4. CASE ~Empty(buf)
  <2>1. buf.parts # <<>>
    BY <1>0, <1>4 DEF ChunkingInv, BufferIsOpen, Empty
  <2>2. /\ c \in Chunk /\ c.carry = buf.carry /\ c.parts = buf.parts /\ c.runes = buf.runes
        /\ c.path = path /\ c.start = buf.start /\ c.end = end
    BY TypesAre DEF ChunkingInv, Chunk, Flush
  <2> HIDE DEF c
  <2>3. chunks' = Append(chunks, c)
    BY <1>4 DEF Emit, c, Flush
  <2>4. Head(buf.parts) \in ToSet(buf.parts) /\ Last(buf.parts) \in ToSet(buf.parts)
    <3>1. buf.parts \in Seq(Unit)
      BY TypesAre DEF ChunkingInv
    <3>2. /\ 1 \in DOMAIN buf.parts /\ Head(buf.parts) = buf.parts[1]
          /\ Len(buf.parts) \in DOMAIN buf.parts /\ Last(buf.parts) = buf.parts[Len(buf.parts)]
      BY <2>1, <3>1 DEF Last
    <3> QED
      BY <3>2 DEF ToSet
  <2>5. Section(Head(buf.parts).line) = s /\ Section(Last(buf.parts).line) = s
    BY <2>4 DEF ChunkingInv, BufferIsOpen
  <2>6. ChunkFits(c)
    <3>1. Len(buf.parts) \in Nat /\ Len(buf.parts) > 0
      BY <2>1, TypesAre DEF ChunkingInv
    <3>2. buf.runes > MaxChunk => Len(buf.parts) = 1
      <4>1. buf.runes > MaxChunk => Len(buf.parts) <= 1
        BY DEF ChunkingInv, BufferIsOpen
      <4>2. \A m \in Nat : m > 0 /\ m <= 1 => m = 1
        OBVIOUS
      <4> QED
        BY <3>1, <4>1, <4>2
    <3>3. buf.runes = Joined(c)
      BY <1>4, <2>2 DEF ChunkingInv, BufferIsOpen, Joined
    <3>4. PathFits(path, s)
      BY <1>0, LastHeadIs DEF ChunkingInv, PathIsOpen, PathFits
    <3>5. 0 <= buf.start /\ buf.start <= end
      <4>1. 0 <= buf.start /\ buf.start < offset /\ buf.start \in Int
        BY <1>4, TypesAre DEF ChunkingInv, BufferIsInText
      <4> QED
        BY <1>0, <4>1
    <3>6. \A u \in ToSet(buf.parts) : Section(u.line) = s
      BY DEF ChunkingInv, BufferIsOpen
    <3> QED
      BY <2>1, <2>2, <2>5, <3>2, <3>3, <3>4, <3>5, <3>6 DEF ChunkFits
  <2>7. c.carry = IF chunks # <<>> /\ Follows(c, Last(chunks)) THEN Carry(Last(chunks)) ELSE 0
    BY <2>2, <2>5 DEF ChunkingInv, BufferIsOpen, Follows
  <2>8. chunks # <<>> => Last(chunks).end <= c.end
    BY <1>0, <1>1, <1>2, <2>2
  <2>9. ChunksFit(Append(chunks, c))
    BY <1>0, <1>1, <2>2, <2>6, <2>7, <2>8, ChunkEmitted
  <2>10. /\ chunks' \in Seq(Chunk) /\ chunks' # <<>> /\ Len(chunks') = Len(chunks) + 1
         /\ DOMAIN chunks' = 1..(Len(chunks) + 1)
         /\ \A k \in 1..Len(chunks) : chunks'[k] = chunks[k]
         /\ chunks'[Len(chunks) + 1] = c /\ Last(chunks') = c
    BY <1>0, <2>2, <2>3 DEF Last
  <2>11. \A k \in DOMAIN chunks' : chunks'[k].end < offset'
    <3>1. \A k \in 1..(Len(chunks) + 1) : k \in 1..Len(chunks) \/ k = Len(chunks) + 1
      BY <1>0
    <3>2. \A k \in 1..Len(chunks) : chunks[k].end < offset'
      BY <1>0, <1>1, <1>2
    <3> QED
      BY <2>2, <2>10, <3>1, <3>2
  <2>12. Chunked'
    BY <2>3, <2>9, <2>11, ChunkedNext
  <2> QED
    BY <1>4, <2>1, <2>5, <2>10, <2>12 DEF c
<1> QED
  BY <1>3, <1>4

\* Nothing is emitted.
LEMMA NoEmission ==
  ASSUME ChunkingInv, text' = text, offset' \in Nat, offset <= offset', chunks' = chunks
  PROVE  chunks' \in Seq(Chunk) /\ Chunked'
<1>1. ChunksFit(chunks) /\ \A k \in DOMAIN chunks : chunks[k].end < offset
  BY ChunkedIs DEF ChunkingInv
<1>2. /\ chunks \in Seq(Chunk) /\ DOMAIN chunks = 1..Len(chunks) /\ offset \in Nat
      /\ \A k \in 1..Len(chunks) : chunks[k].end \in Int
  BY TypesAre DEF Chunk, ChunkingInv
<1>3. \A k \in DOMAIN chunks' : chunks'[k].end < offset'
  BY <1>1, <1>2
<1> QED
  BY <1>1, <1>2, <1>3, ChunkedNext

-----------------------------------------------------------------------------
(* The places are the chunks and the buffer.                               *)
Cells(cs, p) == [k \in 1..(Len(cs) + 1) |-> IF k \in DOMAIN cs THEN cs[k].parts ELSE p]

\* What the places hold.
LEMMA CellsAre ==
  ASSUME NEW cs \in Seq(Chunk), NEW p \in Seq(Unit)
  PROVE  /\ Len(cs) \in Nat /\ DOMAIN cs = 1..Len(cs)
         /\ Cells(cs, p) \in [1..(Len(cs) + 1) -> Seq(Unit)]
         /\ Cells(cs, p)[Len(cs) + 1] = p
         /\ \A k \in 1..Len(cs) : Cells(cs, p)[k] = cs[k].parts
<1>1. Len(cs) \in Nat /\ DOMAIN cs = 1..Len(cs) /\ \A k \in 1..Len(cs) : cs[k] \in Chunk
  OBVIOUS
<1>2. \A c \in Chunk : c.parts \in Seq(Unit)
  BY DEF Chunk
<1>3. \A k \in 1..Len(cs) : cs[k].parts \in Seq(Unit) /\ k \in 1..(Len(cs) + 1)
  BY <1>1, <1>2
<1>4. Len(cs) + 1 \in 1..(Len(cs) + 1) /\ Len(cs) + 1 \notin 1..Len(cs)
  BY <1>1
<1> QED
  BY <1>1, <1>3, <1>4 DEF Cells

\* A unit goes into the buffer; the buffer becomes a chunk.
LEMMA UnitInCell ==
  ASSUME NEW cs \in Seq(Chunk), NEW p \in Seq(Unit), NEW rest \in Seq(Unit), rest # <<>>,
         NEW C, Laid(Cells(cs, p), Len(cs) + 1, rest, C)
  PROVE  Laid(Cells(cs, Append(p, Head(rest))), Len(cs) + 1, Tail(rest), C)
<1> DEFINE n == Len(cs) + 1
           u == Head(rest)
           P == Cells(cs, p)
           Q == Cells(cs, Append(p, u))
<1>1. u \in Unit
  BY TailHas
<1>2. Append(p, u) \in Seq(Unit)
  BY <1>1, AppendHas
<1>3. /\ P \in [1..n -> Seq(Unit)] /\ P[n] = p /\ \A k \in 1..Len(cs) : P[k] = cs[k].parts
      /\ Q \in [1..n -> Seq(Unit)] /\ Q[n] = Append(p, u)
      /\ \A k \in 1..Len(cs) : Q[k] = cs[k].parts
      /\ Len(cs) \in Nat
  BY <1>2, CellsAre
<1>4. \A k \in 1..n : k \in 1..Len(cs) \/ k = n
  BY <1>3
<1>5. n \notin 1..Len(cs)
  BY <1>3
<1> HIDE DEF P, Q, u
<1>6. Q = [P EXCEPT ![n] = Append(P[n], u)]
  BY <1>3, <1>4, <1>5
<1>7. Laid(P, n, rest, C)
  BY DEF P
<1>8. Laid([P EXCEPT ![n] = Append(P[n], u)], n, Tail(rest), C)
  BY <1>7, UnitPlaced DEF u
<1> QED
  BY <1>6, <1>8 DEF Q, u

LEMMA CellOpened ==
  ASSUME NEW cs \in Seq(Chunk), NEW c \in Chunk, NEW rest, NEW C,
         Laid(Cells(cs, c.parts), Len(cs) + 1, rest, C)
  PROVE  Laid(Cells(Append(cs, c), <<>>), Len(Append(cs, c)) + 1, rest, C)
<1> DEFINE n == Len(cs) + 1
           ds == Append(cs, c)
           P == Cells(cs, c.parts)
           Q == Cells(ds, <<>>)
<1>1. c.parts \in Seq(Unit) /\ <<>> \in Seq(Unit)
  BY DEF Chunk
<1>2. /\ ds \in Seq(Chunk) /\ Len(ds) = n /\ ds[n] = c
      /\ \A k \in 1..Len(cs) : ds[k] = cs[k]
  OBVIOUS
<1> HIDE DEF ds
<1>3. /\ P \in [1..n -> Seq(Unit)] /\ P[n] = c.parts /\ \A k \in 1..Len(cs) : P[k] = cs[k].parts
      /\ Len(cs) \in Nat
  BY <1>1, CellsAre
<1>4. /\ Q \in [1..(n + 1) -> Seq(Unit)] /\ Q[n + 1] = <<>>
      /\ \A k \in 1..n : Q[k] = ds[k].parts
  <2>1. /\ Q \in [1..(Len(ds) + 1) -> Seq(Unit)] /\ Q[Len(ds) + 1] = <<>>
        /\ \A k \in 1..Len(ds) : Q[k] = ds[k].parts
    BY <1>1, <1>2, CellsAre
  <2> HIDE DEF Q
  <2> QED
    BY <1>2, <2>1
<1>5. /\ \A k \in 1..n : k \in 1..Len(cs) \/ k = n
      /\ \A k \in 1..(n + 1) : k \in 1..n \/ k = n + 1
      /\ n + 1 \notin 1..n
  <2>1. \A m \in Nat :
          /\ \A k \in 1..(m + 1) : k \in 1..m \/ k = m + 1
          /\ m + 1 \notin 1..m
    OBVIOUS
  <2>2. Len(cs) \in Nat /\ n \in Nat
    BY <1>3
  <2> QED
    BY <2>1, <2>2
<1> HIDE DEF P, Q
<1>6. \A k \in 1..n : Q[k] = P[k]
  BY <1>2, <1>3, <1>4, <1>5
<1>7. Q = [k \in 1..(n + 1) |-> IF k = n + 1 THEN <<>> ELSE P[k]]
  BY <1>4, <1>5, <1>6
<1>8. Laid(P, n, rest, C)
  BY DEF P
<1>9. Laid(Q, n + 1, rest, C)
  BY <1>7, <1>8, PlaceOpened
<1> QED
  BY <1>2, <1>9 DEF Q, ds

\* NothingIsLost is about these places, before a step and after it.
LEMMA LostIs ==
  ASSUME chunks \in Seq(Chunk), buf.parts \in Seq(Unit), todo \in Seq(Unit)
  PROVE  NothingIsLost => Laid(Cells(chunks, buf.parts), Len(chunks) + 1, todo, Content)
<1> DEFINE n == Len(chunks) + 1
           P == Cells(chunks, buf.parts)
<1>1. /\ n \in Nat /\ n > 0 /\ P \in [1..n -> Seq(Unit)]
  BY CellsAre
<1>2. Slots = 1..n /\ \A k \in Slots : P[k] = Parts(k)
  BY DEF Slots, Parts, Cells
<1> HIDE DEF P, n
<1> SUFFICES ASSUME NothingIsLost PROVE Laid(P, n, todo, Content)
  BY DEF P, n
<1>3. Gathered(P, n) = UNION {ToSet(Parts(k)) : k \in Slots}
  <2>1. \A x : x \in UNION {ToSet(Parts(k)) : k \in Slots} <=> \E k \in 1..n : x \in ToSet(P[k])
    BY <1>2
  <2>2. \A x : x \in UNION {ToSet(Parts(k)) : k \in Slots} <=> x \in Gathered(P, n)
    BY <2>1, GatheredHas
  <2> QED
    BY <2>2
<1>4. Gathered(P, n) \cup ToSet(todo) = Content /\ Ascending(todo)
  BY <1>3 DEF NothingIsLost
<1>5. \A k \in 1..n :
        /\ Ascending(P[k])
        /\ \A m \in 1..n : k < m => InOrder(ToSet(P[k]), ToSet(P[m]))
        /\ InOrder(ToSet(P[k]), ToSet(todo))
  BY <1>2 DEF NothingIsLost
<1> QED
  BY <1>1, <1>4, <1>5 DEF Laid

LEMMA LostNext ==
  ASSUME chunks' \in Seq(Chunk), buf'.parts \in Seq(Unit),
         Laid(Cells(chunks', buf'.parts), Len(chunks') + 1, todo', Content')
  PROVE  NothingIsLost'
<1> DEFINE n == Len(chunks') + 1
           P == Cells(chunks', buf'.parts)
<1>1. Slots' = 1..n /\ \A k \in Slots' : P[k] = Parts(k)'
  BY DEF Slots, Parts, Cells
<1>2. Laid(P, n, todo', Content')
  OBVIOUS
<1> HIDE DEF P, n
<1>3. Gathered(P, n) = UNION {ToSet(Parts(k)') : k \in Slots'}
  <2>1. \A x : x \in UNION {ToSet(Parts(k)') : k \in Slots'} <=> \E k \in 1..n : x \in ToSet(P[k])
    BY <1>1
  <2>2. \A x : x \in UNION {ToSet(Parts(k)') : k \in Slots'} <=> x \in Gathered(P, n)
    BY <2>1, GatheredHas
  <2> QED
    BY <2>2
<1>4. (UNION {ToSet(Parts(k)') : k \in Slots'}) \cup ToSet(todo') = Content' /\ Ascending(todo')
  BY <1>2, <1>3 DEF Laid
<1>5. \A k \in Slots' :
        /\ Ascending(Parts(k)')
        /\ \A m \in Slots' : k < m => InOrder(ToSet(Parts(k)'), ToSet(Parts(m)'))
        /\ InOrder(ToSet(Parts(k)'), ToSet(todo'))
  BY <1>1, <1>2 DEF Laid
<1> QED
  BY <1>4, <1>5 DEF NothingIsLost

\* What a line adds to the content.
LEMMA ContentHas ==
  \A x : x \in Content <=> \E i \in Spoken : x \in ToSet(UnitsOf(i))
BY DEF Content, UnitsOf

\* The same after a step that leaves the text alone.
LEMMA ContentHasNext ==
  ASSUME text' = text
  PROVE  \A x : x \in Content' <=> \E i \in Spoken' : x \in ToSet(UnitsOf(i))
BY DEF Content, UnitsOf

\* What a step adds to the content, and when it adds nothing.
LEMMA SpokenNext ==
  ASSUME text' = text, text \in Seq(Line), pos \in Nat, pos < Len(text), pos' = pos + 1
  PROVE  \A i : i \in Spoken' <=>
           i \in Spoken \/ (i = pos + 1 /\ ~Blank(text[i]) /\ i \notin Heads)
<1>1. Heads' = Heads
  BY TextStays
<1>2. Len(text) \in Nat
  OBVIOUS
<1>3. \A i : i \in Read' <=> i \in Read \/ i = pos + 1
  BY <1>2 DEF Read, MinOf
<1> QED
  BY <1>1, <1>3 DEF Spoken

LEMMA ContentNext ==
  ASSUME text' = text, text \in Seq(Line), pos \in Nat, pos < Len(text), pos' = pos + 1
  PROVE  Content' = IF Blank(text[pos + 1]) \/ pos + 1 \in Heads THEN Content
                    ELSE Content \cup ToSet(UnitsOf(pos + 1))
<1>1. \A i : i \in Spoken' <=>
           i \in Spoken \/ (i = pos + 1 /\ ~Blank(text[i]) /\ i \notin Heads)
  BY SpokenNext
<1>2. CASE Blank(text[pos + 1]) \/ pos + 1 \in Heads
  <2>1. \A x : x \in Content' <=> x \in Content
    BY <1>1, <1>2, ContentHas, ContentHasNext
  <2> QED
    BY <1>2, <2>1
<1>3. CASE ~(Blank(text[pos + 1]) \/ pos + 1 \in Heads)
  <2>1. \A x : x \in Content' <=> x \in Content \cup ToSet(UnitsOf(pos + 1))
    BY <1>1, <1>3, ContentHas, ContentHasNext
  <2> QED
    BY <1>3, <2>1
<1> QED
  BY <1>2, <1>3

LEMMA ContentStays ==
  ASSUME text' = text, text \in Seq(Line), pos \in Nat,
         pos' = pos \/ (pos = Len(text) /\ pos' = pos + 1)
  PROVE  Content' = Content
<1>1. Heads' = Heads
  BY TextStays
<1>2. Len(text) \in Nat
  OBVIOUS
<1>3. Read' = Read
  <2>1. MinOf(pos', Len(text)) = MinOf(pos, Len(text))
    BY <1>2 DEF MinOf
  <2> QED
    BY <2>1 DEF Read, MinOf
<1>4. Spoken' = Spoken
  BY <1>1, <1>3 DEF Spoken
<1>5. \A x : x \in Content' <=> x \in Content
  BY <1>4, ContentHas, ContentHasNext
<1> QED
  BY <1>5

\* The lines of the content are read.
LEMMA ContentIsRead ==
  ASSUME text \in Seq(Line), pos \in Nat, NEW x \in Content
  PROVE  x.line \in 1..Len(text) /\ x.line <= pos
<1>1. PICK i \in Spoken : x \in ToSet(UnitsOf(i))
  BY ContentHas
<1>2. i \in 1..Len(text) /\ i <= pos /\ ~Blank(text[i])
  <2>1. Len(text) \in Nat
    OBVIOUS
  <2> QED
    BY <2>1 DEF Spoken, Read, MinOf
<1>3. x.line = i
  BY <1>1, <1>2, UnitsAre
<1> QED
  BY <1>2, <1>3

\* What the loop takes for a heading is one.
LEMMA HeadingIs ==
  ASSUME text \in Seq(Line), NEW i \in 1..Len(text), inFence = Fenced(i)
  PROVE  i \in Heads <=> ~Blank(text[i]) /\ ~text[i].fence /\ Heading(i)
<1>1. DOMAIN text = 1..Len(text)
  OBVIOUS
<1> QED
  BY <1>1 DEF Heads, Heading

\* The fences as the loop counts them.
LEMMA FencesRead ==
  ASSUME ChunkingInv, text' = text, pos < Len(text), pos' = pos + 1,
         inFence' = IF text[pos + 1].fence THEN ~inFence ELSE inFence
  PROVE  /\ inFence = Fenced(pos + 1) /\ inFence' \in BOOLEAN
         /\ pos' <= Len(text) => inFence' = Fenced(pos + 1)'
<1>1. text \in Seq(Line) /\ pos \in Nat /\ Len(text) \in Nat
  BY TypesAre DEF ChunkingInv
<1>2. inFence = Fenced(pos + 1)
  <2>1. pos <= Len(text)
    BY <1>1
  <2> QED
    BY <2>1 DEF ChunkingInv, LineIsRead
<1>3. Fenced(pos + 2) = IF text[pos + 1].fence THEN ~Fenced(pos + 1) ELSE Fenced(pos + 1)
  <2>1. pos \in 0..(Len(text) - 1)
    BY <1>1
  <2> QED
    BY <1>1, <2>1, NextFence
<1>4. pos' + 1 = pos + 2
  BY <1>1
<1>5. inFence' = Fenced(pos + 2)
  BY <1>2, <1>3
<1>6. Fenced(pos + 1)' = Fenced(pos + 2)
  BY <1>4, TextStays
<1>7. inFence' \in BOOLEAN
  BY <1>5 DEF Fenced
<1> QED
  BY <1>2, <1>5, <1>6, <1>7

\* A sequence has no more members than places.
LEMMA SetIsSmall ==
  ASSUME NEW U, NEW s \in Seq(U)
  PROVE  Cardinality(ToSet(s)) \in Nat /\ Cardinality(ToSet(s)) <= Len(s)
<1>1. PICK n \in Nat : n = Len(s) /\ DOMAIN s = 1..n /\ s \in [1..n -> U]
  OBVIOUS
<1>2. s \in [1..n -> ToSet(s)] /\ \A x \in ToSet(s) : \E i \in 1..n : s[i] = x
  BY <1>1 DEF ToSet
<1>3. s \in Surjection(1..n, ToSet(s))
  BY <1>2, Fun_IsSurj
<1>4. IsFiniteSet(1..n) /\ Cardinality(1..n) = n
  <2>1. 1 \in Int /\ n \in Int
    OBVIOUS
  <2>2. /\ IsFiniteSet(1..n)
        /\ Cardinality(1..n) = IF 1 > n THEN 0 ELSE n - 1 + 1
    BY <2>1, FS_Interval
  <2> QED
    BY <2>2
<1>5. IsFiniteSet(ToSet(s)) /\ Cardinality(ToSet(s)) <= Cardinality(1..n)
  BY <1>3, <1>4, FS_Surjection
<1> QED
  BY <1>1, <1>4, <1>5, FS_CardinalityType

\* The beginning of a sequence of numbers, and another one.
LEMMA Beginning ==
  ASSUME NEW s \in Seq(Nat), NEW k \in 0..Len(s), NEW u \in Nat
  PROVE  /\ Append(SubSeq(s, 1, k), u) \in Seq(Nat)
         /\ Len(Append(SubSeq(s, 1, k), u)) = k + 1
         /\ Append(SubSeq(s, 1, k), u)[k + 1] = u
         /\ \A i \in 1..k : Append(SubSeq(s, 1, k), u)[i] = s[i]
<1> DEFINE r == SubSeq(s, 1, k)
<1>1. r \in Seq(Nat) /\ Len(r) = k /\ \A i \in 1..k : r[i] = s[i]
  OBVIOUS
<1> HIDE DEF r
<1>2. /\ Append(r, u) \in Seq(Nat) /\ Len(Append(r, u)) = k + 1
      /\ Append(r, u)[k + 1] = u /\ \A i \in 1..k : Append(r, u)[i] = r[i]
  BY <1>1
<1> QED
  BY <1>1, <1>2 DEF r

-----------------------------------------------------------------------------
\* The breadcrumb of a section stays the same.
LEMMA PathStays ==
  ASSUME PathIsOpen, text' = text, path' = path, LastHead(pos') = LastHead(pos)
  PROVE  PathIsOpen'
<1>1. LastHead(pos)' = LastHead(pos) /\ Open(LastHead(pos))' = Open(LastHead(pos))
      /\ Nested' = Nested
  BY TextStays
<1> QED
  BY <1>1, TextStays DEF PathIsOpen

\* What the next heading leaves open.
LEMMA OpenNext ==
  ASSUME text \in Seq(Line), NEW n \in Nat, n + 1 \in Heads
  PROVE  Open(n + 1) = {n + 1} \cup {g \in Open(LastHead(n)) : text[g].level < text[n + 1].level}
<1> DEFINE i == n + 1
           s == LastHead(n)
<1>1. Heads \in SUBSET Nat /\ \A h \in Heads : text[h].level \in 1..3
  BY HeadsAre
<1>2. s \in Nat /\ s <= n /\ (s = 0 \/ s \in Heads) /\ \A h \in Heads : h <= n => h <= s
  BY LastHeadIs
<1>3. i \in Nat /\ \A h \in Nat : h <= i <=> h <= n \/ h = i
  OBVIOUS
<1> HIDE DEF i, s
<1>4. ASSUME NEW g \in Heads
      PROVE  g \in Open(i) <=> g = i \/ (g \in Open(s) /\ text[g].level < text[i].level)
  <2>1. g <= s <=> g <= n
    BY <1>1, <1>2
  <2>2. g <= i /\ g # i => g < i /\ g <= n
    BY <1>1, <1>3 DEF i
  <2>3. CASE g = i
    <3>1. \A m \in Heads : ~(g < m /\ m <= i)
      BY <1>1, <1>3, <2>3
    <3> QED
      BY <1>1, <1>3, <2>3, <3>1 DEF Open
  <2>4. CASE g # i
    <3>1. g \in Open(s) => g <= s
      BY DEF Open
    <3>2. CASE g > s
      <4>1. ~(g <= s) /\ ~(g <= n)
        BY <1>1, <1>2, <2>1, <3>2
      <4>2. ~(g <= i)
        BY <2>2, <2>4, <4>1
      <4> QED
        BY <2>4, <3>1, <4>1, <4>2 DEF Open
    <3>3. CASE g <= s
      <4>1. g < i /\ g <= i
        BY <1>1, <1>2, <3>3 DEF i
      <4>2. \A m \in Heads : g < m /\ m <= i <=> (g < m /\ m <= s) \/ m = i
        BY <1>1, <1>2, <1>3, <4>1 DEF i
      <4>3. i \in Heads
        BY DEF i
      <4> QED
        BY <2>4, <3>3, <4>1, <4>2, <4>3 DEF Open
    <3> QED
      BY <1>1, <1>2, <3>2, <3>3
  <2> QED
    BY <2>3, <2>4
<1>5. Open(i) \subseteq Heads /\ Open(s) \subseteq Heads /\ i \in Heads
  BY DEF Open, i
<1>6. Open(i) = {i} \cup {g \in Open(s) : text[g].level < text[i].level}
  BY <1>4, <1>5
<1> QED
  BY <1>6 DEF i, s

\* What the breadcrumb is at a heading.
LEMMA CrumbsOpen ==
  ASSUME ChunkingTypeOK, PathIsOpen, NEW i, i = pos + 1, i \in Heads
  PROVE  /\ Crumbs(path, i) \in Seq(Nat) /\ Len(Crumbs(path, i)) <= 3
         /\ Crumbs(path, i) # <<>> /\ Last(Crumbs(path, i)) = i
         /\ Nested => LET p == Crumbs(path, i)
                      IN /\ ToSet(p) = Open(i)
                         /\ \A j, k \in DOMAIN p : j < k => p[j] < p[k]
                         /\ \A j \in DOMAIN p : text[p[j]].level = j
<1> DEFINE p == Crumbs(path, i)
           l == text[i].level
           s == LastHead(pos)
<1>0. /\ text \in Seq(Line) /\ pos \in Nat /\ path \in Seq(Nat) /\ Len(path) \in Nat
      /\ i \in Nat /\ l \in 1..3
  BY TypesAre, HeadsAre
<1>1. PICK k \in 0..Len(path) : k = MinOf(Len(path), l - 1)
  BY <1>0 DEF MinOf
<1>2. k <= l - 1 /\ (k = l - 1 \/ (k = Len(path) /\ k < l - 1))
  BY <1>0, <1>1 DEF MinOf
<1>3. /\ p \in Seq(Nat) /\ Len(p) = k + 1 /\ p # <<>> /\ Last(p) = i /\ p[k + 1] = i
      /\ DOMAIN p = 1..(k + 1) /\ \A j \in 1..k : p[j] = path[j]
  <2>1. p = Append(SubSeq(path, 1, k), i)
    BY <1>1 DEF Crumbs
  <2>2. path \in Seq(Nat) /\ k \in 0..Len(path) /\ i \in Nat
    BY <1>0, <1>1
  <2> HIDE DEF p, l, s
  <2>3. /\ Append(SubSeq(path, 1, k), i) \in Seq(Nat)
        /\ Len(Append(SubSeq(path, 1, k), i)) = k + 1
        /\ Append(SubSeq(path, 1, k), i)[k + 1] = i
        /\ \A j \in 1..k : Append(SubSeq(path, 1, k), i)[j] = path[j]
    BY <2>2, Beginning, Zenon
  <2>4. p \in Seq(Nat) /\ Len(p) = k + 1 /\ p[k + 1] = i /\ \A j \in 1..k : p[j] = path[j]
    BY <2>1, <2>3
  <2>5. p # <<>> /\ DOMAIN p = 1..(k + 1) /\ Last(p) = i
    BY <2>4 DEF Last
  <2> QED
    BY <2>4, <2>5
<1> HIDE DEF p
<1>4. ASSUME Nested
      PROVE  /\ ToSet(p) = Open(i)
             /\ \A j, m \in DOMAIN p : j < m => p[j] < p[m]
             /\ \A j \in DOMAIN p : text[p[j]].level = j
  <2>1. /\ ToSet(path) = Open(s) /\ DOMAIN path = 1..Len(path)
        /\ \A j, m \in DOMAIN path : j < m => path[j] < path[m]
        /\ \A j \in DOMAIN path : text[path[j]].level = j
    BY <1>0, <1>4 DEF PathIsOpen
  <2>2. Open(i) = {i} \cup {g \in Open(s) : text[g].level < l}
    BY <1>0, OpenNext
  <2>3. s <= pos /\ s \in Nat
    BY <1>0, LastHeadIs
  <2> HIDE DEF s, l
  <2>4. \A j \in 1..k : path[j] \in Open(s) /\ path[j] < i
    <3>1. \A g \in Open(s) : g <= s
      BY DEF Open
    <3>2. \A j \in 1..k : j \in DOMAIN path
      BY <1>0, <1>1, <2>1
    <3>3. \A j \in 1..k : path[j] \in Open(s) /\ path[j] \in Nat
      BY <1>0, <2>1, <3>2 DEF ToSet
    <3> QED
      BY <1>0, <2>3, <3>1, <3>3
  <2>5. ToSet(p) = Open(i)
    <3>1. ASSUME NEW j \in 1..(k + 1) PROVE p[j] \in Open(i)
      <4>1. CASE j = k + 1
        BY <1>3, <2>2, <4>1
      <4>2. CASE j \in 1..k
        <5>1. j \in DOMAIN path /\ j < l
          BY <1>0, <1>1, <1>2, <2>1, <4>2
        <5> QED
          BY <1>3, <2>1, <2>2, <2>4, <4>2, <5>1
      <4> QED
        BY <4>1, <4>2
    <3>2. ASSUME NEW g \in Open(s), text[g].level < l PROVE g \in ToSet(p)
      <4>1. PICK j \in 1..Len(path) : path[j] = g
        BY <2>1 DEF ToSet
      <4>2. j < l
        BY <2>1, <3>2, <4>1
      <4>3. j \in 1..k
        BY <1>0, <1>1, <1>2, <4>1, <4>2
      <4>4. j \in DOMAIN p /\ p[j] = g
        BY <1>3, <4>1, <4>3
      <4> QED
        BY <4>4 DEF ToSet
    <3>3. i \in ToSet(p)
      <4>1. k + 1 \in DOMAIN p
        BY <1>3
      <4> QED
        BY <1>3, <4>1 DEF ToSet
    <3>4. ToSet(p) \subseteq Open(i)
      BY <1>3, <3>1 DEF ToSet
    <3> QED
      BY <2>2, <3>2, <3>3, <3>4
  <2>6. ASSUME NEW j \in DOMAIN p, NEW m \in DOMAIN p, j < m PROVE p[j] < p[m]
    <3>1. j \in 1..k
      BY <1>3, <2>6
    <3>2. CASE m = k + 1
      BY <1>3, <2>4, <3>1, <3>2
    <3>3. CASE m \in 1..k
      <4>1. j \in DOMAIN path /\ m \in DOMAIN path
        BY <1>0, <1>1, <2>1, <3>1, <3>3
      <4> QED
        BY <1>3, <2>1, <2>6, <3>1, <3>3, <4>1
    <3> QED
      BY <1>3, <3>2, <3>3
  <2>7. k + 1 = l
    <3>1. l <= Cardinality(Open(i))
      BY <1>4 DEF Nested, l
    <3>2. Cardinality(ToSet(p)) \in Nat /\ Cardinality(ToSet(p)) <= k + 1
      BY <1>3, SetIsSmall
    <3>3. \A c \in Nat : l <= c /\ c <= k + 1 => k + 1 = l
      BY <1>0, <1>2 DEF l
    <3> QED
      BY <2>5, <3>1, <3>2, <3>3
  <2>8. ASSUME NEW j \in DOMAIN p PROVE text[p[j]].level = j
    <3>1. CASE j = k + 1
      BY <1>3, <2>7, <3>1 DEF l
    <3>2. CASE j \in 1..k
      <4>1. j \in DOMAIN path
        BY <1>0, <1>1, <2>1, <3>2
      <4> QED
        BY <1>3, <2>1, <3>2, <4>1
    <3> QED
      BY <1>3, <3>1, <3>2
  <2> QED
    BY <2>5, <2>6, <2>8
<1>5. Len(p) <= 3
  BY <1>0, <1>2, <1>3
<1> QED
  BY <1>3, <1>4, <1>5 DEF p

\* The line the waiting units are of.
LEMMA TodoIs ==
  ASSUME ChunkingInv, todo # <<>>
  PROVE  /\ pos \in 1..Len(text) /\ Head(todo) \in Unit /\ Head(todo).len \in Nat \ {0}
         /\ Tail(todo) \in Seq(Unit) /\ ToSet(todo) = {Head(todo)} \cup ToSet(Tail(todo))
         /\ Len(Tail(todo)) = Len(todo) - 1 /\ Len(todo) \in Nat
         /\ Head(todo).line = pos /\ Section(pos) = LastHead(pos)
<1>1. text \in Seq(Line) /\ pos \in Nat /\ todo \in Seq(Unit)
  BY TypesAre DEF ChunkingInv
<1>2. pos \in 1..Len(text) /\ pos \notin Heads /\ \A u \in ToSet(todo) : u.line = pos
  BY DEF ChunkingInv, LineIsRead
<1>3. /\ Head(todo) \in Unit /\ Tail(todo) \in Seq(Unit) /\ Len(todo) \in Nat
      /\ ToSet(todo) = {Head(todo)} \cup ToSet(Tail(todo)) /\ Len(Tail(todo)) = Len(todo) - 1
  BY <1>1, TailHas
<1>4. Section(pos) = LastHead(pos)
  <2>1. pos - 1 \in Nat /\ (pos - 1) + 1 = pos
    BY <1>1, <1>2
  <2>2. LastHead((pos - 1) + 1) = IF (pos - 1) + 1 \in Heads THEN (pos - 1) + 1 ELSE LastHead(pos - 1)
    BY <1>1, <2>1, NextHead
  <2> QED
    BY <1>2, <2>1, <2>2 DEF Section
<1>5. Head(todo).len \in Nat \ {0}
  BY <1>3 DEF Unit
<1> QED
  BY <1>2, <1>3, <1>4, <1>5

\* A flush with the line not consumed yet.
LEMMA FlushedIs ==
  ASSUME ChunkingInv, pos <= Len(text), ~Empty(buf)
  PROVE  /\ buf.runes > 0 /\ buf.parts # <<>>
         /\ Flushed(buf, offset - 1) = [carry |-> Carry(buf), parts |-> <<>>, runes |-> Carry(buf),
                                        start |-> offset - 1 - Carry(buf)]
         /\ Carry(buf) \in Nat /\ Carry(buf) > 0 /\ Carry(buf) <= buf.runes
         /\ 0 <= offset - 1 - Carry(buf)
<1>1. /\ buf.carry \in Nat /\ buf.parts \in Seq(Unit) /\ buf.runes \in Nat /\ buf.start \in Int
      /\ offset \in Nat /\ pos \in Nat /\ Len(text) \in Nat
  BY TypesAre DEF ChunkingInv
<1>2. buf.parts # <<>>
  <2>1. buf.parts = <<>> => buf.carry = 0 \/ pos > Len(text)
    BY DEF ChunkingInv, BufferIsOpen
  <2> QED
    BY <1>1, <2>1 DEF Empty
<1>3. buf.runes > 0
  <2>1. buf.runes = Joined(buf)
    BY DEF ChunkingInv, BufferIsOpen
  <2>2. Joined(buf) \in Nat /\ Joined(buf) > buf.carry
    BY <1>1, <1>2, JoinedIs
  <2> QED
    BY <1>1, <2>1, <2>2
<1>4. /\ Carry(buf) \in Nat /\ Carry(buf) <= buf.runes /\ Carry(buf) <= Overlap
      /\ buf.runes > 0 => Carry(buf) > 0
  BY <1>1, CarryIs
<1>5. 0 <= offset - 1 - Carry(buf)
  <2>1. offset <= Overlap => buf.runes < offset
    BY DEF ChunkingInv, BufferIsInText
  <2> QED
    BY <1>1, <1>4, <2>1, ChunkingNumbers
<1> QED
  BY <1>2, <1>3, <1>4, <1>5 DEF Flushed

-----------------------------------------------------------------------------
\* A unit is put into a buffer that is in the text and has no other unit or room.
LEMMA UnitAdded ==
  ASSUME NEW b, NEW u \in Unit,
         b \in [carry : Nat, parts : Seq(Unit), runes : Nat, start : Int],
         b.runes = IF Empty(b) THEN 0 ELSE Joined(b),
         b.parts = <<>> \/ ~Overflows(b, u)
  PROVE  LET c == With(b, u)
         IN /\ c \in [carry : Nat, parts : Seq(Unit), runes : Nat, start : Int]
            /\ c.carry = b.carry /\ c.start = b.start /\ c.parts = Append(b.parts, u)
            /\ c.runes = b.runes + Sep(b) + u.len /\ ~Empty(c) /\ c.parts # <<>>
            /\ ToSet(c.parts) = ToSet(b.parts) \cup {u}
            /\ c.runes = Joined(c)
            /\ c.runes > MaxChunk => Len(c.parts) <= 1
<1> DEFINE c == With(b, u)
<1>0. /\ b.carry \in Nat /\ b.parts \in Seq(Unit) /\ b.runes \in Nat /\ b.start \in Int
      /\ u.len \in Nat /\ u.len > 0 /\ Sep(b) \in 0..1
  BY DEF Unit, Sep
<1>1. /\ Append(b.parts, u) \in Seq(Unit) /\ Append(b.parts, u) # <<>>
      /\ Len(Append(b.parts, u)) = Len(b.parts) + 1
      /\ ToSet(Append(b.parts, u)) = ToSet(b.parts) \cup {u}
  BY <1>0, AppendHas
<1>2. /\ c.carry = b.carry /\ c.start = b.start /\ c.parts = Append(b.parts, u)
      /\ c.runes = b.runes + Sep(b) + u.len
      /\ c = [carry |-> c.carry, parts |-> c.parts, runes |-> c.runes, start |-> c.start]
  <2>1. b = [carry |-> b.carry, parts |-> b.parts, runes |-> b.runes, start |-> b.start]
    OBVIOUS
  <2>2. c = [carry |-> b.carry, parts |-> Append(b.parts, u),
             runes |-> b.runes + Sep(b) + u.len, start |-> b.start]
    <3> DEFINE p == Append(b.parts, u)
               r == b.runes + Sep(b) + u.len
    <3>1. c = [b EXCEPT !.parts = p, !.runes = r]
      BY DEF With
    <3> HIDE DEF c, p, r
    <3>2. c = [carry |-> b.carry, parts |-> p, runes |-> r, start |-> b.start]
      BY <3>1
    <3> QED
      BY <3>2 DEF p, r
  <2> HIDE DEF c
  <2> QED
    BY <2>2
<1> HIDE DEF c
<1>3. c \in [carry : Nat, parts : Seq(Unit), runes : Nat, start : Int]
  <2>1. c.runes \in Nat /\ c.parts \in Seq(Unit) /\ c.carry \in Nat /\ c.start \in Int
    BY <1>0, <1>1, <1>2
  <2> QED
    BY <1>2, <2>1
<1>4. ~Empty(c)
  BY <1>1, <1>2 DEF Empty
<1>5. c.runes = Joined(c)
  <2>0. PICK t \in Nat, n \in Nat : t = Total(Lengths(b.parts)) /\ n = Len(b.parts)
    BY <1>0, LengthsAre
  <2>1. Total(Lengths(c.parts)) = t + u.len /\ Len(c.parts) = n + 1
    BY <1>0, <1>1, <1>2, <2>0, LengthsAre
  <2>2. Joined(c) = c.carry + Total(Lengths(c.parts))
                      + (IF c.carry > 0 THEN Len(c.parts) ELSE Len(c.parts) - 1)
    BY <1>0, <1>1, <1>2, JoinedIs
  <2>3. Joined(c) = b.carry + t + u.len + (IF b.carry > 0 THEN n + 1 ELSE n)
    BY <1>0, <1>2, <2>0, <2>1, <2>2
  <2>4. CASE Empty(b)
    <3>1. b.carry = 0 /\ b.parts = <<>> /\ b.runes = 0 /\ Sep(b) = 0
      BY <2>4 DEF Empty, Sep
    <3>2. t = 0 /\ n = 0
      BY <1>0, <2>0, <3>1, LengthsAre
    <3> QED
      BY <1>0, <1>2, <2>3, <3>1, <3>2
  <2>5. CASE ~Empty(b) /\ b.parts = <<>>
    <3>1. b.carry > 0 /\ Sep(b) = 1 /\ b.runes = Joined(b) /\ n = 0
      BY <1>0, <2>0, <2>5 DEF Empty, Sep
    <3>2. Joined(b) = b.carry + t + n
      BY <2>0, <3>1 DEF Joined, Lengths
    <3> QED
      BY <1>0, <1>2, <2>0, <2>3, <3>1, <3>2
  <2>6. CASE b.parts # <<>>
    <3>1. ~Empty(b) /\ Sep(b) = 1 /\ b.runes = Joined(b)
      BY <2>6 DEF Empty, Sep
    <3>2. Joined(b) = b.carry + Total(Lengths(b.parts))
                        + (IF b.carry > 0 THEN Len(b.parts) ELSE Len(b.parts) - 1)
      BY <1>0, <2>6, JoinedIs
    <3>3. b.runes = b.carry + t + (IF b.carry > 0 THEN n ELSE n - 1)
      BY <2>0, <3>1, <3>2
    <3> QED
      <4>1. c.runes = b.runes + 1 + u.len
        BY <1>2, <3>1
      <4>2. \A x, y, z \in Nat :
              /\ x + y + n + 1 + z = x + y + z + (n + 1)
              /\ x + y + (n - 1) + 1 + z = x + y + z + n
        OBVIOUS
      <4>3. CASE b.carry > 0
        <5>1. b.runes = b.carry + t + n /\ Joined(c) = b.carry + t + u.len + (n + 1)
          BY <2>3, <3>3, <4>3
        <5>2. c.runes = b.carry + t + n + 1 + u.len
          BY <4>1, <5>1
        <5> QED
          BY <1>0, <4>2, <5>1, <5>2
      <4>4. CASE ~(b.carry > 0)
        <5>1. b.runes = b.carry + t + (n - 1) /\ Joined(c) = b.carry + t + u.len + n
          BY <2>3, <3>3, <4>4
        <5>2. c.runes = b.carry + t + (n - 1) + 1 + u.len
          BY <4>1, <5>1
        <5> QED
          BY <1>0, <4>2, <5>1, <5>2
      <4> QED
        BY <4>3, <4>4
  <2> QED
    BY <2>4, <2>5, <2>6
<1>6. c.runes > MaxChunk => Len(c.parts) <= 1
  <2>1. CASE b.parts = <<>>
    <3>1. Len(b.parts) = 0
      BY <2>1
    <3> QED
      BY <1>1, <1>2, <3>1
  <2>2. CASE b.parts # <<>>
    <3>1. ~Empty(b) /\ ~Overflows(b, u)
      BY <2>2 DEF Empty
    <3>2. ~(b.runes + Sep(b) + u.len > MaxChunk)
      BY <3>1 DEF Overflows
    <3> QED
      BY <1>2, <3>2
  <2> QED
    BY <2>1, <2>2
<1> QED
  BY <1>1, <1>2, <1>3, <1>4, <1>5, <1>6 DEF c

\* A unit is added: the buffer it is put into, and what is emitted before.
LEMMA AddUnitKeeps ==
  ASSUME ChunkingInv, AddUnit
  PROVE  ChunkingInv'
<1> DEFINE u == Head(todo)
           s == LastHead(pos)
<1>0. /\ text' = text /\ pos' = pos /\ offset' = offset /\ inFence' = inFence /\ path' = path
      /\ todo' = Tail(todo) /\ todo # <<>>
  BY DEF AddUnit
<1>1. /\ text \in Seq(Line) /\ Len(text) \in Nat /\ pos \in Nat /\ offset \in Nat /\ todo \in Seq(Unit)
      /\ buf \in [carry : Nat, parts : Seq(Unit), runes : Nat, start : Int]
      /\ buf.carry \in Nat /\ buf.parts \in Seq(Unit) /\ buf.runes \in Nat /\ buf.start \in Int
      /\ chunks \in Seq(Chunk)
  BY TypesAre DEF ChunkingInv, ChunkingTypeOK
<1>2. /\ pos \in 1..Len(text) /\ u \in Unit /\ u.len \in Nat \ {0}
      /\ Tail(todo) \in Seq(Unit) /\ ToSet(todo) = {u} \cup ToSet(Tail(todo))
      /\ Len(Tail(todo)) = Len(todo) - 1 /\ Len(todo) \in Nat
      /\ u.line = pos /\ Section(pos) = s
  BY <1>0, TodoIs
<1>3. /\ 0 <= buf.start /\ buf.start < offset
      /\ offset <= Overlap => Len(todo) = 1 /\ buf.runes + Sep(buf) + u.len < offset
      /\ \A v \in ToSet(buf.parts) : Section(v.line) = s
      /\ buf.carry = IF chunks # <<>> /\ Section(Last(Last(chunks).parts).line) = s
                       THEN Carry(Last(chunks)) ELSE 0
      /\ buf.runes = IF Empty(buf) THEN 0 ELSE Joined(buf)
  BY <1>0 DEF ChunkingInv, BufferIsInText, BufferIsOpen
<1>4. Content' = Content
  BY <1>0, <1>1, ContentStays
<1>5. Laid(Cells(chunks, buf.parts), Len(chunks) + 1, todo, Content)
  BY <1>1, LostIs DEF ChunkingInv
<1> HIDE DEF u, s
<1>6. LineIsRead' /\ PathIsOpen'
  <2>1. LineIsRead'
    <3>1. Fenced(pos + 1)' = Fenced(pos + 1) /\ Heads' = Heads
      BY <1>0, TextStays
    <3>2. pos <= Len(text) => inFence = Fenced(pos + 1)
      BY DEF ChunkingInv, LineIsRead
    <3>3. pos \in 1..Len(text) /\ pos \notin Heads /\ \A v \in ToSet(todo) : v.line = pos
      BY <1>0 DEF ChunkingInv, LineIsRead
    <3> QED
      BY <1>0, <1>2, <3>1, <3>2, <3>3 DEF LineIsRead
  <2>2. PathIsOpen'
    BY <1>0, PathStays DEF ChunkingInv
  <2> QED
    BY <2>1, <2>2
\* What is left to show of the buffer b the unit is put into, behind the chunks ds.
<1>7. ASSUME NEW b, NEW ds, chunks' = ds, buf' = With(b, u), ds \in Seq(Chunk), Chunked',
             b \in [carry : Nat, parts : Seq(Unit), runes : Nat, start : Int],
             b.runes = IF Empty(b) THEN 0 ELSE Joined(b),
             b.parts = <<>> \/ ~Overflows(b, u),
             Laid(Cells(ds, b.parts), Len(ds) + 1, todo, Content),
             \A v \in ToSet(b.parts) : Section(v.line) = s,
             b.carry = IF ds # <<>> /\ Section(Last(Last(ds).parts).line) = s
                         THEN Carry(Last(ds)) ELSE 0,
             0 <= b.start, b.start < offset,
             offset <= Overlap => b.runes + Sep(b) + u.len < offset
      PROVE  ChunkingInv'
  <2> DEFINE c == With(b, u)
  <2>1. /\ c \in [carry : Nat, parts : Seq(Unit), runes : Nat, start : Int]
        /\ c.carry = b.carry /\ c.start = b.start /\ c.parts = Append(b.parts, u)
        /\ c.runes = b.runes + Sep(b) + u.len /\ ~Empty(c) /\ c.parts # <<>>
        /\ ToSet(c.parts) = ToSet(b.parts) \cup {u}
        /\ c.runes = Joined(c)
        /\ c.runes > MaxChunk => Len(c.parts) <= 1
    BY <1>2, <1>7, UnitAdded
  <2> HIDE DEF c
  <2>2. buf' = c
    BY <1>7 DEF c
  <2>3. ChunkingTypeOK'
    BY <1>0, <1>2, <1>7, <2>1, <2>2 DEF ChunkingInv, ChunkingTypeOK, Chunk
  <2>4. BufferIsOpen'
    <3>1. LastHead(pos)' = s /\ \A i : Section(i)' = Section(i)
      BY <1>0, TextStays DEF s
    <3>2. \A v \in ToSet(c.parts) : Section(v.line) = s
      BY <1>2, <1>7, <2>1
    <3>3. c.carry = IF ds # <<>> /\ Section(Last(Last(ds).parts).line) = s
                      THEN Carry(Last(ds)) ELSE 0
      BY <1>7, <2>1
    <3> QED
      BY <1>7, <2>1, <2>2, <3>1, <3>2, <3>3 DEF BufferIsOpen
  <2>5. BufferIsInText'
    <3>1. /\ 0 <= c.start /\ c.start < offset /\ c.start <= offset
          /\ offset <= Overlap => c.runes < offset
      BY <1>1, <1>7, <2>1
    <3>2. offset <= Overlap => Tail(todo) = <<>>
      <4>1. ASSUME offset <= Overlap PROVE Len(Tail(todo)) = 0
        <5>1. Len(todo) = 1
          BY <1>3, <4>1
        <5>2. Len(Tail(todo)) = 1 - 1
          BY <1>2, <5>1, Zenon
        <5> QED
          BY <5>2
      <4>2. \A t \in Seq(Unit) : Len(t) = 0 => t = <<>>
        OBVIOUS
      <4> QED
        BY <1>2, <4>1, <4>2, Zenon
    <3> QED
      BY <1>0, <2>2, <3>1, <3>2 DEF BufferIsInText
  <2>6. NothingIsLost'
    <3>1. b.parts \in Seq(Unit) /\ c.parts \in Seq(Unit)
      BY <1>7, <2>1
    <3>2. Laid(Cells(ds, Append(b.parts, u)), Len(ds) + 1, Tail(todo), Content)
      BY <1>0, <1>1, <1>7, <3>1, UnitInCell DEF u
    <3> QED
      BY <1>0, <1>4, <1>7, <2>1, <2>2, <3>1, <3>2, LostNext
  <2> QED
    BY <1>6, <1>7, <2>3, <2>4, <2>5, <2>6 DEF ChunkingInv
<1>8. CASE ~Overflows(buf, u) /\ buf' = With(buf, u) /\ chunks' = chunks
  <2>1. Chunked'
    BY <1>0, <1>1, <1>8, NoEmission
  <2> QED
    BY <1>1, <1>3, <1>5, <1>7, <1>8, <2>1
<1>9. CASE /\ Overflows(buf, u) /\ chunks' = Emit(buf, offset - 1)
           /\ buf' = With(Flushed(buf, offset - 1), u)
  <2> DEFINE b == Flushed(buf, offset - 1)
             f == Flush(offset - 1)
  <2>1. ~Empty(buf) /\ pos <= Len(text)
    BY <1>2, <1>9 DEF Overflows
  <2>2. /\ chunks' \in Seq(Chunk) /\ Chunked' /\ chunks' # <<>> /\ Last(chunks') = f
        /\ Section(Last(buf.parts).line) = s
    BY <1>0, <1>1, <1>9, <2>1, Emission DEF s
  <2>3. chunks' = Append(chunks, f)
    BY <1>9, <2>1 DEF Emit, Flush
  <2>4. f.runes = buf.runes /\ f.parts = buf.parts /\ Carry(f) = Carry(buf)
    BY DEF Flush, Carry
  <2>5. f \in Chunk
    BY <1>1, TypesAre DEF ChunkingInv, Flush, Chunk
  <2>6. /\ b = [carry |-> Carry(buf), parts |-> <<>>, runes |-> Carry(buf),
                start |-> offset - 1 - Carry(buf)]
        /\ Carry(buf) \in Nat /\ Carry(buf) > 0 /\ Carry(buf) <= buf.runes
        /\ 0 <= offset - 1 - Carry(buf)
    BY <2>1, FlushedIs
  <2> HIDE DEF b, f
  <2>7. /\ b \in [carry : Nat, parts : Seq(Unit), runes : Nat, start : Int]
        /\ b.carry = Carry(buf) /\ b.parts = <<>> /\ b.runes = Carry(buf)
        /\ b.start = offset - 1 - Carry(buf)
    BY <1>1, <2>6
  <2>8. ~Empty(b) /\ b.runes = Joined(b) /\ Sep(b) = 1 /\ Sep(buf) = 1
    <3>1. Lengths(<<>>) = <<>> /\ Len(<<>>) = 0
      BY DEF Lengths
    <3>2. Joined(b) = b.carry + Total(Lengths(<<>>)) + Len(<<>>)
      BY <2>6, <2>7 DEF Joined, Lengths
    <3>3. ~Empty(b)
      BY <2>6, <2>7 DEF Empty
    <3> QED
      BY <2>1, <2>6, <2>7, <3>1, <3>2, <3>3, TotalEmpty DEF Sep
  <2>9. Laid(Cells(chunks', b.parts), Len(chunks') + 1, todo, Content)
    <3>1. Laid(Cells(chunks, f.parts), Len(chunks) + 1, todo, Content)
      BY <1>5, <2>4
    <3> QED
      BY <1>1, <2>3, <2>5, <2>7, <3>1, CellOpened
  <2>10. b.carry = IF chunks' # <<>> /\ Section(Last(Last(chunks').parts).line) = s
                     THEN Carry(Last(chunks')) ELSE 0
    BY <2>2, <2>4, <2>7
  <2>11. /\ 0 <= b.start /\ b.start < offset
         /\ offset <= Overlap => b.runes + Sep(b) + u.len < offset
    BY <1>1, <1>2, <1>3, <2>6, <2>7, <2>8
  <2>12. \A v \in ToSet(b.parts) : Section(v.line) = s
    BY <2>7 DEF ToSet
  <2>13. buf' = With(b, u)
    BY <1>9 DEF b
  <2> QED
    BY <1>7, <2>2, <2>7, <2>8, <2>9, <2>10, <2>11, <2>12, <2>13
<1>10. \/ ~Overflows(buf, u) /\ buf' = With(buf, u) /\ chunks' = chunks
       \/ /\ Overflows(buf, u) /\ chunks' = Emit(buf, offset - 1)
          /\ buf' = With(Flushed(buf, offset - 1), u)
  BY DEF AddUnit, u
<1> QED
  BY <1>8, <1>9, <1>10

\* What it means to read a line.
LEMMA TakeIs ==
  ASSUME ChunkingInv, Take
  PROVE  /\ text' = text /\ text \in Seq(Line) /\ Len(text) \in Nat /\ pos \in Nat /\ offset \in Nat
         /\ todo = <<>> /\ pos < Len(text) /\ pos' = pos + 1 /\ pos + 1 \in 1..Len(text)
         /\ text[pos + 1].len \in Nat /\ offset' = offset + text[pos + 1].len + 1
         /\ offset' \in Nat /\ offset < offset'
         /\ inFence = Fenced(pos + 1)
<1>1. /\ text \in Seq(Line) /\ Len(text) \in Nat /\ pos \in Nat /\ offset \in Nat
  BY TypesAre DEF ChunkingInv
<1>2. /\ text' = text /\ todo = <<>> /\ pos < Len(text) /\ pos' = pos + 1
      /\ offset' = offset + text[pos + 1].len + 1
  BY DEF Take
<1>3. pos + 1 \in 1..Len(text)
  BY <1>1, <1>2
<1>4. text[pos + 1].len \in Nat
  BY <1>1, <1>3, LineIs
<1>5. inFence = Fenced(pos + 1)
  <2>1. pos <= Len(text)
    BY <1>1, <1>2
  <2> QED
    BY <2>1 DEF ChunkingInv, LineIsRead
<1> QED
  BY <1>1, <1>2, <1>3, <1>4, <1>5

\* A line that is not a heading.
LEMMA LineKeeps ==
  ASSUME ChunkingInv, Take, pos + 1 \notin Heads, path' = path, buf' = buf, chunks' = chunks,
         inFence' = IF text[pos + 1].fence THEN ~inFence ELSE inFence,
         todo' = IF Blank(text[pos + 1]) THEN <<>> ELSE UnitsOf(pos + 1)
  PROVE  ChunkingInv'
<1> DEFINE i == pos + 1
           s == LastHead(pos)
<1>0. /\ text' = text /\ text \in Seq(Line) /\ Len(text) \in Nat /\ pos \in Nat /\ offset \in Nat
      /\ todo = <<>> /\ pos < Len(text) /\ pos' = i /\ i \in 1..Len(text)
      /\ text[i].len \in Nat /\ offset' = offset + text[i].len + 1
      /\ offset' \in Nat /\ offset < offset'
  BY TakeIs
<1>1. LastHead(pos)' = s
  <2>1. LastHead(i) = s
    BY <1>0, NextHead
  <2> QED
    BY <1>0, <2>1, TextStays
<1>2. /\ todo' \in Seq(Unit) /\ Ascending(todo')
      /\ \A u \in ToSet(todo') : u.line = i
      /\ ~Blank(text[i]) => ToSet(todo') = ToSet(UnitsOf(i))
      /\ Blank(text[i]) => todo' = <<>> /\ ToSet(todo') = {}
      /\ ~Blank(text[i]) /\ (text[i].len <= HardSplit \/ text[i].fence) =>
           Len(todo') = 1 /\ Head(todo').len = text[i].len
  <2>1. CASE Blank(text[i])
    <3>1. todo' = <<>>
      BY <2>1
    <3>2. <<>> \in Seq(Unit) /\ Ascending(<<>>) /\ ToSet(<<>>) = {}
      BY DEF ToSet, Ascending
    <3> QED
      BY <2>1, <3>1, <3>2
  <2>2. CASE ~Blank(text[i])
    BY <1>0, <2>2, UnitsAre
  <2> QED
    BY <2>1, <2>2
<1>3. /\ buf \in [carry : Nat, parts : Seq(Unit), runes : Nat, start : Int]
      /\ buf.runes \in Nat /\ buf.start \in Int /\ buf.parts \in Seq(Unit)
      /\ chunks \in Seq(Chunk)
  BY TypesAre DEF ChunkingInv, ChunkingTypeOK
<1> HIDE DEF s
<1>4. LineIsRead' /\ inFence' \in BOOLEAN
  <2>1. /\ inFence' \in BOOLEAN
        /\ pos' <= Len(text) => inFence' = Fenced(pos + 1)'
    BY <1>0, FencesRead
  <2>2. Heads' = Heads
    BY <1>0, TextStays
  <2> QED
    BY <1>0, <1>2, <2>1, <2>2 DEF LineIsRead
<1>5. PathIsOpen'
  <2>1. LastHead(i) = LastHead(pos)
    BY <1>0, NextHead
  <2> QED
    BY <1>0, <2>1, PathStays DEF ChunkingInv
<1>6. ChunkingTypeOK'
  BY <1>0, <1>2, <1>4 DEF ChunkingInv, ChunkingTypeOK
<1>7. BufferIsOpen'
  <2>1. \A j : Section(j)' = Section(j)
    BY <1>0, TextStays
  <2>2. buf.parts = <<>> => buf.carry = 0
    <3>1. pos <= Len(text)
      BY <1>0
    <3> QED
      BY <1>0, <3>1 DEF ChunkingInv, BufferIsOpen
  <2>3. /\ \A u \in ToSet(buf.parts) : Section(u.line) = s
        /\ buf.carry = IF chunks # <<>> /\ Section(Last(Last(chunks).parts).line) = s
                         THEN Carry(Last(chunks)) ELSE 0
        /\ buf.runes = IF Empty(buf) THEN 0 ELSE Joined(buf)
        /\ buf.runes > MaxChunk => Len(buf.parts) <= 1
    BY DEF ChunkingInv, BufferIsOpen, s
  <2> QED
    BY <1>1, <2>1, <2>2, <2>3 DEF BufferIsOpen
<1>8. BufferIsInText'
  <2>1. 0 <= buf.start /\ buf.start <= offset /\ (offset <= Overlap /\ ~Empty(buf) => buf.runes < offset)
    BY DEF ChunkingInv, BufferIsInText
  <2>2. 0 <= buf.start /\ buf.start < offset' /\ buf.start <= offset'
    BY <1>0, <1>3, <2>1
  <2>3. offset' <= Overlap => offset <= Overlap /\ text[i].len <= HardSplit
    BY <1>0, ChunkingNumbers
  <2>4. offset' <= Overlap /\ ~Empty(buf) => buf.runes < offset'
    BY <1>0, <1>3, <2>1, <2>3
  <2>5. ASSUME offset' <= Overlap, todo' # <<>>
        PROVE  Len(todo') = 1 /\ buf.runes + Sep(buf) + Head(todo').len < offset'
    <3>1. Len(todo') = 1 /\ Head(todo').len = text[i].len
      BY <1>2, <2>3, <2>5
    <3>2. buf.runes + Sep(buf) <= offset
      <4>1. CASE Empty(buf)
        <5>1. buf.runes = 0 /\ Sep(buf) = 0
          BY <4>1 DEF ChunkingInv, BufferIsOpen, Sep
        <5> QED
          BY <1>0, <5>1
      <4>2. CASE ~Empty(buf)
        <5>1. buf.runes < offset /\ Sep(buf) = 1
          BY <2>1, <2>3, <2>5, <4>2 DEF Sep
        <5> QED
          BY <1>0, <1>3, <5>1
      <4> QED
        BY <4>1, <4>2
    <3>3. Sep(buf) \in Nat
      BY DEF Sep
    <3> QED
      BY <1>0, <1>3, <3>1, <3>2, <3>3
  <2> QED
    BY <2>2, <2>4, <2>5 DEF BufferIsInText
<1>9. NothingIsLost'
  <2>1. Laid(Cells(chunks, buf.parts), Len(chunks) + 1, <<>>, Content)
    BY <1>0, <1>3, LostIs DEF ChunkingInv
  <2>2. Content' = Content \cup ToSet(todo')
    <3>1. CASE Blank(text[i])
      BY <1>0, <1>2, <3>1, ContentNext
    <3>2. CASE ~Blank(text[i])
      BY <1>0, <1>2, <3>2, ContentNext
    <3> QED
      BY <3>1, <3>2
  <2>3. \A u \in Content, v \in ToSet(todo') : u.line < v.line
    <3>1. \A u \in Content : u.line \in 1..Len(text) /\ u.line <= pos
      BY <1>0, ContentIsRead
    <3>2. \A n \in 1..Len(text) : n <= pos => n < pos + 1
      BY <1>0
    <3> QED
      BY <1>2, <3>1, <3>2
  <2>4. Laid(Cells(chunks, buf.parts), Len(chunks) + 1, todo', Content \cup ToSet(todo'))
    BY <1>2, <2>1, <2>3, LineLaid
  <2> QED
    BY <1>3, <2>2, <2>4, LostNext
<1>10. Chunked'
  BY <1>0, NoEmission
<1> QED
  BY <1>4, <1>5, <1>6, <1>7, <1>8, <1>9, <1>10 DEF ChunkingInv

\* The three kinds of line that are not headings.
LEMMA BlankLineKeeps ==
  ASSUME ChunkingInv, BlankLine
  PROVE  ChunkingInv'
<1>1. /\ Take /\ Blank(text[pos + 1]) /\ path' = path /\ buf' = buf /\ chunks' = chunks
      /\ inFence' = inFence /\ todo' = todo
  BY TakeIs DEF BlankLine
<1>2. ~text[pos + 1].fence /\ pos + 1 \notin Heads /\ todo = <<>>
  BY <1>1, TakeIs, LineIs DEF Heads
<1> QED
  BY <1>1, <1>2, LineKeeps

LEMMA FenceLineKeeps ==
  ASSUME ChunkingInv, FenceLine
  PROVE  ChunkingInv'
<1>1. /\ Take /\ ~Blank(text[pos + 1]) /\ text[pos + 1].fence /\ path' = path /\ buf' = buf
      /\ chunks' = chunks /\ inFence' = ~inFence /\ todo' = <<Whole(text, pos + 1)>>
  BY TakeIs DEF FenceLine
<1>2. pos + 1 \notin Heads /\ todo' = UnitsOf(pos + 1)
  BY <1>1 DEF Heads, UnitsOf
<1> QED
  BY <1>1, <1>2, LineKeeps

LEMMA TextLineKeeps ==
  ASSUME ChunkingInv, TextLine
  PROVE  ChunkingInv'
<1>1. /\ Take /\ ~Blank(text[pos + 1]) /\ ~text[pos + 1].fence /\ ~Heading(pos + 1) /\ path' = path
      /\ buf' = buf /\ chunks' = chunks /\ inFence' = inFence /\ todo' = Units(text, pos + 1)
  BY TakeIs DEF TextLine
<1>2. pos + 1 \notin Heads
  BY <1>1, TakeIs, HeadingIs
<1>3. todo' = UnitsOf(pos + 1)
  BY <1>1 DEF UnitsOf
<1> QED
  BY <1>1, <1>2, <1>3, LineKeeps

\* The chunk that was emitted last is of lines that are read.
LEMMA ChunksAreRead ==
  ASSUME ChunkingInv, chunks # <<>>
  PROVE  LET u == Last(Last(chunks).parts)
         IN u.line \in 1..Len(text) /\ u.line <= pos
<1> DEFINE c == Last(chunks)
           u == Last(c.parts)
           n == Len(chunks)
<1>1. /\ text \in Seq(Line) /\ pos \in Nat /\ chunks \in Seq(Chunk) /\ buf.parts \in Seq(Unit)
      /\ todo \in Seq(Unit) /\ n \in Nat /\ DOMAIN chunks = 1..n /\ c = chunks[n] /\ c \in Chunk
      /\ n \in 1..n
  BY TypesAre DEF ChunkingInv
<1>2. c.parts \in Seq(Unit) /\ c.parts # <<>>
  BY <1>1 DEF Chunk, ChunkingInv, Chunked, SizesAreBounded
<1>3. u \in ToSet(c.parts)
  <2>1. Len(c.parts) \in DOMAIN c.parts /\ u = c.parts[Len(c.parts)]
    BY <1>2 DEF Last
  <2> QED
    BY <2>1 DEF ToSet
<1>4. Laid(Cells(chunks, buf.parts), n + 1, todo, Content)
  BY <1>1, LostIs DEF ChunkingInv
<1>5. Cells(chunks, buf.parts)[n] = c.parts /\ n \in 1..(n + 1)
  <2>1. \A k \in 1..n : Cells(chunks, buf.parts)[k] = chunks[k].parts
    BY <1>1, CellsAre
  <2> QED
    BY <1>1, <2>1
<1> HIDE DEF c, u, n
<1>6. u \in Content
  <2>1. u \in Gathered(Cells(chunks, buf.parts), n + 1)
    BY <1>3, <1>5, GatheredHas
  <2> QED
    BY <1>4, <2>1 DEF Laid
<1>7. u.line \in 1..Len(text) /\ u.line <= pos
  BY <1>1, <1>6, ContentIsRead
<1> QED
  BY <1>7 DEF u, c

\* A heading flushes the buffer and replaces a part of the breadcrumb.
LEMMA HeadingLineKeeps ==
  ASSUME ChunkingInv, HeadingLine
  PROVE  ChunkingInv'
<1> DEFINE i == pos + 1
           s == LastHead(pos)
           end == offset' - 1
<1>0. /\ text' = text /\ text \in Seq(Line) /\ Len(text) \in Nat /\ pos \in Nat /\ offset \in Nat
      /\ todo = <<>> /\ pos < Len(text) /\ pos' = i /\ i \in 1..Len(text)
      /\ offset' \in Nat /\ offset < offset' /\ inFence = Fenced(i)
      /\ ~Blank(text[i]) /\ ~text[i].fence /\ Heading(i)
      /\ chunks' = Emit(buf, end) /\ buf' = Unfilled(offset') /\ path' = Crumbs(path, i)
      /\ inFence' = inFence /\ todo' = todo
  BY TakeIs DEF HeadingLine
<1>1. i \in Heads
  BY <1>0, HeadingIs
<1>2. LastHead(pos)' = i /\ s \in Nat /\ s <= pos
  <2>1. LastHead(i) = i
    BY <1>0, <1>1, NextHead
  <2> QED
    BY <1>0, <2>1, LastHeadIs, TextStays
<1>3. /\ buf.parts \in Seq(Unit) /\ chunks \in Seq(Chunk) /\ todo' \in Seq(Unit)
  BY <1>0, TypesAre DEF ChunkingInv
<1>4. pos <= Len(text) /\ end \in Int /\ offset <= end + 1 /\ end < offset'
  <2>1. offset' \in Nat /\ offset \in Nat /\ offset < offset'
    BY <1>0
  <2>2. pos \in Nat /\ Len(text) \in Nat /\ pos < Len(text)
    BY <1>0
  <2>3. pos <= Len(text)
    BY <2>2
  <2>4. \A m, n \in Nat : m < n => n - 1 \in Int /\ m <= (n - 1) + 1 /\ n - 1 < n
    OBVIOUS
  <2>5. end \in Int /\ offset <= end + 1 /\ end < offset'
    BY <2>1, <2>4, Zenon
  <2> QED
    BY <2>3, <2>5
<1> HIDE DEF end
<1>5. /\ chunks' \in Seq(Chunk) /\ Chunked'
      /\ Empty(buf) => chunks' = chunks
      /\ ~Empty(buf) => /\ chunks' # <<>> /\ Last(chunks') = Flush(end)
                        /\ Section(Last(buf.parts).line) = s
  BY <1>0, <1>4, Emission
<1> HIDE DEF s
<1>6. /\ buf' = [carry |-> 0, parts |-> <<>>, runes |-> 0, start |-> offset'] /\ Empty(buf')
  BY <1>0 DEF Unfilled, Empty
<1>7. LineIsRead' /\ inFence' \in BOOLEAN
  <2>1. /\ inFence' \in BOOLEAN
        /\ pos' <= Len(text) => inFence' = Fenced(pos + 1)'
    BY <1>0, FencesRead
  <2> QED
    BY <1>0, <2>1 DEF LineIsRead
<1>8. PathIsOpen' /\ path' \in Seq(Nat)
  <2>1. Nested' = Nested
    BY <1>0, TextStays
  <2>2. /\ path' \in Seq(Nat) /\ Len(path') <= 3 /\ path' # <<>> /\ Last(path') = i
        /\ Nested => /\ ToSet(path') = Open(i)
                     /\ \A j, k \in DOMAIN path' : j < k => path'[j] < path'[k]
                     /\ \A j \in DOMAIN path' : text[path'[j]].level = j
    BY <1>0, <1>1, CrumbsOpen DEF ChunkingInv
  <2>3. i # 0
    BY <1>0
  <2>4. Open(LastHead(pos))' = Open(i)
    BY <1>0, <1>2, TextStays
  <2> QED
    BY <1>0, <1>2, <2>1, <2>2, <2>3, <2>4 DEF PathIsOpen
<1>9. ChunkingTypeOK'
  BY <1>0, <1>3, <1>5, <1>6, <1>7, <1>8 DEF ChunkingTypeOK, Chunk
<1>10. BufferIsOpen'
  <2>1. \A j : Section(j)' = Section(j)
    BY <1>0, TextStays
  <2>2. ~(chunks' # <<>> /\ Section(Last(Last(chunks').parts).line) = i)
    <3>1. CASE Empty(buf)
      <4> SUFFICES ASSUME chunks # <<>> PROVE Section(Last(Last(chunks).parts).line) # i
        BY <1>5, <3>1
      <4> DEFINE n == Last(Last(chunks).parts).line
      <4>1. n \in 1..Len(text) /\ n <= pos
        BY ChunksAreRead
      <4> HIDE DEF n
      <4>2. n - 1 \in Nat
        BY <1>0, <4>1
      <4>3. LastHead(n - 1) \in Nat /\ LastHead(n - 1) <= n - 1
        BY <1>0, <4>2, LastHeadIs
      <4>4. LastHead(n - 1) # i
        BY <1>0, <4>1, <4>2, <4>3
      <4> QED
        BY <4>4 DEF Section, n
    <3>2. CASE ~Empty(buf)
      <4>1. Last(chunks').parts = buf.parts /\ Section(Last(buf.parts).line) = s
        BY <1>5, <3>2 DEF Flush
      <4>2. s # i
        BY <1>0, <1>2
      <4> QED
        BY <4>1, <4>2
    <3> QED
      BY <3>1, <3>2
  <2>3. ToSet(buf'.parts) = {} /\ buf'.parts = <<>> /\ buf'.carry = 0 /\ buf'.runes = 0
    BY <1>6 DEF ToSet
  <2>4. ~(buf'.runes > MaxChunk)
    BY <2>3, ChunkingNumbers
  <2> QED
    BY <1>2, <1>6, <2>1, <2>2, <2>3, <2>4 DEF BufferIsOpen
<1>11. BufferIsInText'
  <2>1. buf'.start = offset' /\ 0 <= offset' /\ offset' <= offset'
    BY <1>0, <1>6
  <2> QED
    BY <1>0, <1>6, <2>1 DEF BufferIsInText
<1>12. NothingIsLost'
  <2>1. Laid(Cells(chunks, buf.parts), Len(chunks) + 1, todo, Content)
    BY <1>0, <1>3, LostIs DEF ChunkingInv
  <2>2. Content' = Content
    BY <1>0, <1>1, ContentNext
  <2>3. Laid(Cells(chunks', <<>>), Len(chunks') + 1, todo, Content)
    <3>1. CASE Empty(buf)
      <4>1. buf.parts = <<>> /\ chunks' = chunks
        BY <1>5, <3>1 DEF Empty
      <4> QED
        BY <2>1, <4>1
    <3>2. CASE ~Empty(buf)
      <4> DEFINE f == Flush(end)
      <4>1. chunks' = Append(chunks, f)
        BY <1>0, <3>2 DEF Emit, Flush
      <4>2. f \in Chunk /\ f.parts = buf.parts
        BY <1>4, TypesAre DEF ChunkingInv, Flush, Chunk
      <4> HIDE DEF f
      <4> QED
        BY <1>3, <2>1, <4>1, <4>2, CellOpened
    <3> QED
      BY <3>1, <3>2
  <2>4. buf'.parts = <<>> /\ buf'.parts \in Seq(Unit)
    BY <1>6
  <2> QED
    BY <1>0, <1>5, <2>2, <2>3, <2>4, LostNext
<1> QED
  BY <1>5, <1>7, <1>8, <1>9, <1>10, <1>11, <1>12 DEF ChunkingInv

\* The end of the text.
LEMMA FinishKeeps ==
  ASSUME ChunkingInv, Finish
  PROVE  ChunkingInv'
<1> DEFINE s == LastHead(pos)
           end == offset - 1
           b == Flushed(buf, end)
<1>0. /\ text' = text /\ todo = <<>> /\ pos = Len(text) /\ pos' = pos + 1 /\ offset' = offset
      /\ inFence' = inFence /\ path' = path /\ todo' = todo
      /\ chunks' = Emit(buf, end) /\ buf' = b
  BY DEF Finish
<1>1. /\ text \in Seq(Line) /\ Len(text) \in Nat /\ pos \in Nat /\ offset \in Nat
      /\ buf \in [carry : Nat, parts : Seq(Unit), runes : Nat, start : Int]
      /\ buf.parts \in Seq(Unit) /\ buf.runes \in Nat /\ chunks \in Seq(Chunk)
  BY TypesAre DEF ChunkingInv, ChunkingTypeOK
<1>2. LastHead(pos') = s /\ LastHead(pos)' = s
  <2>1. pos + 1 \notin Heads
    BY <1>0, <1>1, HeadsAre
  <2>2. LastHead(pos + 1) = s
    BY <1>1, <2>1, NextHead
  <2> QED
    BY <1>0, <2>2, TextStays
<1>3. pos <= Len(text) /\ end \in Int /\ offset <= end + 1 /\ end < offset' /\ offset' \in Nat
  BY <1>0, <1>1
<1>4. /\ chunks' \in Seq(Chunk) /\ Chunked'
      /\ Empty(buf) => chunks' = chunks
      /\ ~Empty(buf) => /\ chunks' # <<>> /\ Last(chunks') = Flush(end)
                        /\ Section(Last(buf.parts).line) = s
  BY <1>0, <1>3, Emission
<1>5. Empty(buf) => b = buf
  BY DEF Flushed
<1>6. ~Empty(buf) =>
        /\ b = [carry |-> Carry(buf), parts |-> <<>>, runes |-> Carry(buf), start |-> end - Carry(buf)]
        /\ Carry(buf) \in Nat /\ Carry(buf) > 0 /\ Carry(buf) <= buf.runes /\ 0 <= end - Carry(buf)
  BY <1>3, FlushedIs
<1>7. Empty(buf) => buf.parts = <<>>
  BY DEF Empty
<1> HIDE DEF s, b, end
<1>8. /\ b \in [carry : Nat, parts : Seq(Unit), runes : Nat, start : Int] /\ b.parts = <<>>
  <2>1. CASE Empty(buf)
    BY <1>1, <1>5, <1>7, <2>1
  <2>2. CASE ~Empty(buf)
    <3>1. Carry(buf) \in Nat /\ end - Carry(buf) \in Int /\ <<>> \in Seq(Unit)
      BY <1>3, <1>6, <2>2
    <3>2. b = [carry |-> Carry(buf), parts |-> <<>>, runes |-> Carry(buf),
               start |-> end - Carry(buf)]
      BY <1>6, <2>2
    <3> QED
      BY <3>1, <3>2
  <2> QED
    BY <2>1, <2>2
<1>9. ChunkingTypeOK'
  <2>1. pos' \in 0..(Len(text) + 1)
    BY <1>0, <1>1
  <2> QED
    BY <1>0, <1>4, <1>8, <2>1 DEF ChunkingInv, ChunkingTypeOK, Chunk
<1>10. LineIsRead'
  <2>1. ~(pos' <= Len(text))
    BY <1>0, <1>1
  <2> QED
    BY <1>0, <2>1 DEF LineIsRead
<1>11. PathIsOpen'
  BY <1>0, <1>2, PathStays DEF ChunkingInv, s
<1>12. BufferIsOpen'
  <2>1. \A j : Section(j)' = Section(j)
    BY <1>0, TextStays
  <2>2. /\ buf.carry = IF chunks # <<>> /\ Section(Last(Last(chunks).parts).line) = s
                         THEN Carry(Last(chunks)) ELSE 0
        /\ Empty(buf) => buf.runes = 0
    BY DEF ChunkingInv, BufferIsOpen, s
  <2>3. b.carry = IF chunks' # <<>> /\ Section(Last(Last(chunks').parts).line) = s
                    THEN Carry(Last(chunks')) ELSE 0
    <3>1. CASE Empty(buf)
      BY <1>4, <1>5, <2>2, <3>1
    <3>2. CASE ~Empty(buf)
      <4>1. Last(chunks').parts = buf.parts /\ Carry(Last(chunks')) = Carry(buf)
        BY <1>4, <3>2 DEF Flush, Carry
      <4>2. b.carry = Carry(buf)
        BY <1>6, <3>2
      <4> QED
        BY <1>4, <3>2, <4>1, <4>2
    <3> QED
      BY <3>1, <3>2
  <2>4. b.runes = IF Empty(b) THEN 0 ELSE Joined(b)
    <3>1. CASE Empty(buf)
      BY <1>5, <2>2, <3>1
    <3>2. CASE ~Empty(buf)
      <4>1. b.runes = Carry(buf) /\ b.carry = Carry(buf) /\ Carry(buf) > 0 /\ Carry(buf) \in Nat
        BY <1>6, <3>2
      <4>2. Lengths(<<>>) = <<>> /\ Len(<<>>) = 0
        BY DEF Lengths
      <4>3. Joined(b) = b.carry + Total(Lengths(<<>>)) + Len(<<>>)
        BY <1>8, <4>1 DEF Joined, Lengths
      <4>4. ~Empty(b)
        BY <4>1 DEF Empty
      <4> QED
        BY <4>1, <4>2, <4>3, <4>4, TotalEmpty
    <3> QED
      BY <3>1, <3>2
  <2>5. ToSet(b.parts) = {} /\ Len(b.parts) <= 1
    BY <1>8 DEF ToSet
  <2>6. pos' > Len(text)
    BY <1>0, <1>1
  <2> QED
    BY <1>0, <1>2, <2>1, <2>3, <2>4, <2>5, <2>6 DEF BufferIsOpen
<1>13. BufferIsInText'
  <2>1. CASE Empty(buf)
    BY <1>0, <1>5, <2>1 DEF ChunkingInv, BufferIsInText
  <2>2. CASE ~Empty(buf)
    <3>1. offset <= Overlap => buf.runes < offset
      BY <2>2 DEF ChunkingInv, BufferIsInText
    <3>2. /\ 0 <= b.start /\ b.start < offset /\ b.start <= offset
          /\ offset <= Overlap => b.runes < offset
      BY <1>1, <1>6, <2>2, <3>1 DEF end
    <3> QED
      BY <1>0, <3>2 DEF BufferIsInText
  <2> QED
    BY <2>1, <2>2
<1>14. NothingIsLost'
  <2>1. Laid(Cells(chunks, buf.parts), Len(chunks) + 1, todo, Content)
    <3>1. todo \in Seq(Unit)
      BY <1>0
    <3> QED
      BY <1>1, <3>1, LostIs DEF ChunkingInv
  <2>2. Content' = Content
    BY <1>0, <1>1, ContentStays
  <2>3. Laid(Cells(chunks', <<>>), Len(chunks') + 1, todo, Content)
    <3>1. CASE Empty(buf)
      BY <1>4, <1>7, <2>1, <3>1
    <3>2. CASE ~Empty(buf)
      <4> DEFINE f == Flush(end)
      <4>1. chunks' = Append(chunks, f)
        BY <1>0, <3>2 DEF Emit, Flush
      <4>2. f \in Chunk /\ f.parts = buf.parts
        BY <1>3, TypesAre DEF ChunkingInv, Flush, Chunk
      <4> HIDE DEF f
      <4> QED
        BY <1>1, <2>1, <4>1, <4>2, CellOpened
    <3> QED
      BY <3>1, <3>2
  <2> QED
    BY <1>0, <1>4, <1>8, <2>2, <2>3, LostNext
<1> QED
  BY <1>4, <1>9, <1>10, <1>11, <1>12, <1>13, <1>14 DEF ChunkingInv

\* Nothing is read, and nothing is in the chunks.
LEMMA ChunkingStarts ==
  ASSUME ChunkingInit
  PROVE  ChunkingInv
<1>0. /\ pos = 0 /\ offset = 0 /\ inFence = FALSE /\ path = <<>> /\ todo = <<>>
      /\ buf = [carry |-> 0, parts |-> <<>>, runes |-> 0, start |-> 0] /\ chunks = <<>>
  BY DEF ChunkingInit, Unfilled
<1>1. text \in Seq(Line) /\ Len(text) \in Nat
  <2>1. PICK n \in 0..MaxLines : text \in [1..n -> Line]
    BY DEF ChunkingInit
  <2>2. n \in Nat
    BY ChunkingNumbers
  <2> QED
    BY <2>1, <2>2
<1>2. LastHead(0) = 0
  <2>1. LastHead(0) \in Nat /\ LastHead(0) <= 0
    BY <1>1, LastHeadIs
  <2> QED
    BY <2>1
<1>3. ToSet(<<>>) = {} /\ Ascending(<<>>) /\ Len(<<>>) = 0 /\ DOMAIN <<>> = {}
  BY DEF ToSet, Ascending
<1>4. ChunkingTypeOK
  <2>1. 0 \in 0..(Len(text) + 1)
    BY <1>1
  <2>2. buf \in [carry : Nat, parts : Seq(Unit), runes : Nat, start : Int]
    BY <1>0
  <2>3. /\ path \in Seq(Nat) /\ todo \in Seq(Unit)
        /\ chunks \in Seq([carry : Nat, parts : Seq(Unit), runes : Nat,
                           path : Seq(Nat), start : Int, end : Int])
    BY <1>0
  <2> QED
    BY <1>0, <1>1, <2>1, <2>2, <2>3 DEF ChunkingTypeOK
<1>5. LineIsRead
  <2>1. Fences(0) = {}
    BY DEF Fences
  <2>2. pos + 1 = 1 /\ 1 - 1 = 0 /\ ~(0 % 2 = 1)
    BY <1>0
  <2>3. ~Fenced(pos + 1)
    BY <2>1, <2>2, FS_EmptySet DEF Fenced
  <2>4. Fenced(pos + 1) = FALSE
    BY <2>3 DEF Fenced
  <2> QED
    BY <1>0, <2>4 DEF LineIsRead
<1>6. PathIsOpen
  <2>1. Open(0) = {}
    BY <1>1, HeadsAre DEF Open
  <2> QED
    BY <1>0, <1>2, <1>3, <2>1 DEF PathIsOpen
<1>7. BufferIsOpen
  <2>1. Empty(buf) /\ ~(buf.runes > MaxChunk)
    BY <1>0, ChunkingNumbers DEF Empty
  <2> QED
    BY <1>0, <1>3, <2>1 DEF BufferIsOpen
<1>8. BufferIsInText
  BY <1>0 DEF BufferIsInText, Empty
<1>9. NothingIsLost
  <2>1. Slots = {1}
    BY <1>0, <1>3 DEF Slots
  <2>2. Parts(1) = <<>>
    BY <1>0 DEF Parts
  <2>3. Content = {}
    <3>1. MinOf(0, Len(text)) = 0
      BY <1>1 DEF MinOf
    <3>2. Read = {}
      BY <1>0, <3>1 DEF Read
    <3> QED
      BY <3>2 DEF Content, Spoken
  <2>4. UNION {ToSet(Parts(k)) : k \in Slots} = {}
    BY <1>3, <2>1, <2>2
  <2> QED
    BY <1>0, <1>3, <2>1, <2>2, <2>3, <2>4 DEF NothingIsLost, InOrder
<1>10. Chunked
  BY <1>0 DEF Chunked, SizesAreBounded, SectionsAreKept, RangesAreInText
<1> QED
  BY <1>4, <1>5, <1>6, <1>7, <1>8, <1>9, <1>10 DEF ChunkingInv

LEMMA ChunkingStutters ==
  ASSUME ChunkingInv, UNCHANGED chunkingVars
  PROVE  ChunkingInv'
<1>0. /\ text' = text /\ pos' = pos /\ offset' = offset /\ inFence' = inFence /\ path' = path
      /\ todo' = todo /\ buf' = buf /\ chunks' = chunks
  BY DEF chunkingVars
<1>1. /\ text \in Seq(Line) /\ pos \in Nat /\ offset \in Nat /\ buf.parts \in Seq(Unit)
      /\ chunks \in Seq(Chunk) /\ todo \in Seq(Unit)
  BY TypesAre DEF ChunkingInv
<1>2. /\ Heads' = Heads /\ LastHead(pos)' = LastHead(pos) /\ \A i : Section(i)' = Section(i)
      /\ Fenced(pos + 1)' = Fenced(pos + 1)
  BY <1>0, TextStays
<1>3. ChunkingTypeOK'
  BY <1>0 DEF ChunkingInv, ChunkingTypeOK
<1>4. LineIsRead'
  BY <1>0, <1>2 DEF ChunkingInv, LineIsRead
<1>5. PathIsOpen'
  BY <1>0, PathStays DEF ChunkingInv
<1>6. BufferIsOpen'
  BY <1>0, <1>2 DEF ChunkingInv, BufferIsOpen
<1>7. BufferIsInText'
  BY <1>0 DEF ChunkingInv, BufferIsInText
<1>8. NothingIsLost'
  BY <1>0, <1>1, LostIs, LostNext, ContentStays DEF ChunkingInv
<1>9. Chunked'
  BY <1>0, <1>1, NoEmission
<1> QED
  BY <1>3, <1>4, <1>5, <1>6, <1>7, <1>8, <1>9 DEF ChunkingInv

(* The units in the chunks are those of the lines that are read, each once *)
(* and in its place, and what the loop holds is the tail of the text: the  *)
(* breadcrumb is open there, the buffer is of one section, and its overlap *)
(* is a part of the text (ChunkText, flush and addUnit).                   *)
THEOREM ChunkingInvariance == ChunkingSpec => []ChunkingInv
<1>1. ChunkingInit => ChunkingInv
  BY ChunkingStarts
<1>2. ChunkingInv /\ [ChunkingNext]_chunkingVars => ChunkingInv'
  BY AddUnitKeeps, BlankLineKeeps, FenceLineKeeps, TextLineKeeps, HeadingLineKeeps, FinishKeeps,
     ChunkingStutters DEF ChunkingNext
<1> QED
  BY <1>1, <1>2, PTL DEF ChunkingSpec

(* NothingIsLost: every line that is not a heading is in the chunks, once  *)
(* and in its place.                                                       *)
THEOREM NoLineIsLost == ChunkingSpec => []NothingIsLost
<1>1. ChunkingInv => NothingIsLost
  BY DEF ChunkingInv
<1> QED
  BY <1>1, ChunkingInvariance, PTL

(* Chunked: the chunks are no longer than they may be, of one section each *)
(* with its breadcrumb and the overlap of that section, at positions of    *)
(* the text.                                                               *)
THEOREM ChunksFitTheText == ChunkingSpec => []Chunked
<1>1. ChunkingInv => Chunked
  BY DEF ChunkingInv
<1> QED
  BY <1>1, ChunkingInvariance, PTL
=============================================================================
