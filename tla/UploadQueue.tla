---------------------------- MODULE UploadQueue ----------------------------
(***************************************************************************)
(* The asynchronous upload queue of the knowledge base: the kb_documents   *)
(* table is the queue, a few workers drain it, and the HTTP handlers of    *)
(* the administration API insert, retry, edit and delete rows under them.  *)
(*                                                                         *)
(* One action is one database statement or transaction, or one system call *)
(* on the uploads directory: those are the points at which a worker, a     *)
(* handler and a crash of the process interleave.  A document's text is    *)
(* abstracted to where it came from, its title and folder are left out,    *)
(* and the chunk rows written in the transactions that write the text are  *)
(* the subject of ChunkIndex.                                              *)
(***************************************************************************)
EXTENDS Naturals, FiniteSets

CONSTANTS Worker,       \* the goroutines of StartUploadQueue
          Upload,       \* upload requests (one file each; a zip entry is one)
          MaxDocs,      \* bound: rows ever inserted
          MaxRetries,   \* bound: retries an administrator asks for
          MaxCrashes,   \* bound: crashes of the process
          Faults,       \* the calls that may return an error, see below
          NoWorker      \* claimMu is free

ASSUME ConstantsAssumption ==
  /\ MaxDocs \in Nat /\ MaxRetries \in Nat /\ MaxCrashes \in Nat
  /\ NoWorker \notin Worker

(* "insert", "rename", "undo"    the upload handler's INSERT, os.Rename and *)
(*                               the DELETE that undoes the INSERT          *)
(* "claim", "complete", "mark", "release"    the worker's four writes       *)
(* "extract"                     extractSaved on a file that is there       *)
(* "reset"                       ResetProcessingClaims at startup           *)

VARIABLES status,     \* kb_documents.status, "absent" when there is no row
          content,    \* kb_documents.content, abstracted to its origin
          nextId,     \* the AUTOINCREMENT sequence: an id is never used again
          raw,        \* uploadsDir/<id>: the raw files on disk
          tmp,        \* uploadsDir/kb-*: the uploads whose temp file exists
          claimMu,    \* the holder of the claim mutex
          wpc, wdoc,  \* each worker's position in processNextPending, its doc
          upc, udoc,  \* each upload handler's position, the id it inserted
          unlinking,  \* rows deleted by deleteDoc, file not removed yet
          phase,      \* of the process: "down", "starting", "up"
          retries, crashes

rowVars  == <<status, content, nextId>>
fileVars == <<raw, tmp>>
wVars    == <<claimMu, wpc, wdoc>>
uVars    == <<upc, udoc>>
cntVars  == <<retries, crashes>>
vars == <<rowVars, fileVars, wVars, uVars, unlinking, phase, cntVars>>

Doc == 1..MaxDocs
Statuses == {"absent", "pending", "processing", "ready", "error"}
Origins  == {"none", "extracted", "entered"}
WorkerPCs == {"idle", "selected", "claimed", "extracting", "completing",
              "marking", "releasing", "removing"}
UploadPCs == {"idle", "saved", "inserted", "undoing", "done"}

Running == phase \in {"starting", "up"}   \* the workers are started first
Serving == phase = "up"                   \* and the HTTP server last
Exists(d) == status[d] # "absent"
Pending == {d \in Doc : status[d] = "pending"}

Init == /\ status = [d \in Doc |-> "absent"]
        /\ content = [d \in Doc |-> "none"]
        /\ nextId = 1
        /\ raw = {} /\ tmp = {}
        /\ claimMu = NoWorker
        /\ wpc = [w \in Worker |-> "idle"]
        /\ wdoc = [w \in Worker |-> 0]
        /\ upc = [u \in Upload |-> "idle"]
        /\ udoc = [u \in Upload |-> 0]
        /\ unlinking = {}
        /\ phase = "down"
        /\ retries = 0 /\ crashes = 0

-----------------------------------------------------------------------------
(* Plausible bugs.  Each operator below is an action of this module with   *)
(* one mistake in it; no specification uses them.  Putting one in the      *)
(* place of the action it imitates must break a property.                  *)

\* The SELECT of a claim does not wait for claimMu.
ClaimSelectUnlocked(w) ==
  /\ Running /\ wpc[w] = "idle"
  /\ \E d \in Pending :
       /\ \A e \in Pending : d <= e
       /\ wdoc' = [wdoc EXCEPT ![w] = d]
  /\ wpc' = [wpc EXCEPT ![w] = "selected"]
  /\ UNCHANGED <<rowVars, fileVars, claimMu, uVars, unlinking, phase, cntVars>>

\* A retry takes a row away from the worker that is processing it.
RetryProcessing(d) ==
  /\ Serving /\ retries < MaxRetries
  /\ status[d] \in {"error", "processing"}
  /\ status' = [status EXCEPT ![d] = "pending"]
  /\ retries' = retries + 1
  /\ UNCHANGED <<content, nextId, fileVars, wVars, uVars, unlinking, phase,
                 crashes>>

\* A retry is accepted for a row that is ready.
RetryReady(d) ==
  /\ Serving /\ retries < MaxRetries
  /\ status[d] \in {"error", "ready"}
  /\ status' = [status EXCEPT ![d] = "pending"]
  /\ retries' = retries + 1
  /\ UNCHANGED <<content, nextId, fileVars, wVars, uVars, unlinking, phase,
                 crashes>>

\* A failed extraction removes the file like a successful one.
MarkErrorAndRemove(w) ==
  /\ wpc[w] = "marking"
  /\ status' = IF status[wdoc[w]] \in {"processing", "pending"}
                 THEN [status EXCEPT ![wdoc[w]] = "error"] ELSE status
  /\ wpc' = [wpc EXCEPT ![w] = "removing"]
  /\ UNCHANGED <<content, nextId, fileVars, claimMu, wdoc, uVars, unlinking,
                 phase, cntVars>>

\* A row whose file has not landed is left claimed.
ForgetClaim(w) ==
  /\ wpc[w] = "releasing"
  /\ wpc' = [wpc EXCEPT ![w] = "idle"]
  /\ UNCHANGED <<rowVars, fileVars, claimMu, wdoc, uVars, unlinking, phase,
                 cntVars>>

\* The server starts without returning the claims of the crashed process.
BootWithoutReset ==
  /\ phase = "down"
  /\ phase' = "starting"
  /\ UNCHANGED <<rowVars, fileVars, wVars, uVars, unlinking, cntVars>>

-----------------------------------------------------------------------------
(* The upload handler.  The temp file is written, the row is inserted, and *)
(* only then is the file renamed to the id the row received.               *)

UploadSave(u) ==
  /\ Serving /\ upc[u] = "idle"
  /\ upc' = [upc EXCEPT ![u] = "saved"]
  /\ tmp' = tmp \cup {u}
  /\ UNCHANGED <<rowVars, raw, wVars, udoc, unlinking, phase, cntVars>>

UploadInsert(u) ==
  /\ upc[u] = "saved" /\ nextId \in Doc
  /\ status' = [status EXCEPT ![nextId] = "pending"]
  /\ nextId' = nextId + 1
  /\ udoc' = [udoc EXCEPT ![u] = nextId]
  /\ upc' = [upc EXCEPT ![u] = "inserted"]
  /\ UNCHANGED <<content, fileVars, wVars, unlinking, phase, cntVars>>

UploadInsertFails(u) ==
  /\ "insert" \in Faults
  /\ upc[u] = "saved"
  /\ upc' = [upc EXCEPT ![u] = "done"]
  /\ tmp' = tmp \ {u}
  /\ UNCHANGED <<rowVars, raw, wVars, udoc, unlinking, phase, cntVars>>

UploadRename(u) ==
  /\ upc[u] = "inserted"
  /\ raw' = raw \cup {udoc[u]}
  /\ tmp' = tmp \ {u}
  /\ upc' = [upc EXCEPT ![u] = "done"]
  /\ UNCHANGED <<rowVars, wVars, udoc, unlinking, phase, cntVars>>

UploadRenameFails(u) ==
  /\ "rename" \in Faults
  /\ upc[u] = "inserted"
  /\ tmp' = tmp \ {u}
  /\ upc' = [upc EXCEPT ![u] = "undoing"]
  /\ UNCHANGED <<rowVars, raw, wVars, udoc, unlinking, phase, cntVars>>

\* DeleteKBDocument after the failed rename; its error is not looked at.
UploadUndo(u) ==
  /\ upc[u] = "undoing"
  /\ \/ /\ status' = [status EXCEPT ![udoc[u]] = "absent"]
        /\ content' = [content EXCEPT ![udoc[u]] = "none"]
     \/ "undo" \in Faults /\ UNCHANGED <<status, content>>
  /\ upc' = [upc EXCEPT ![u] = "done"]
  /\ UNCHANGED <<nextId, fileVars, wVars, udoc, unlinking, phase, cntVars>>

-----------------------------------------------------------------------------
(* One worker.  The claim's SELECT and UPDATE are two statements, under    *)
(* claimMu; the UPDATE names the row by its id alone.                      *)

ClaimSelect(w) ==
  /\ Running /\ wpc[w] = "idle" /\ claimMu = NoWorker
  /\ \E d \in Pending :
       /\ \A e \in Pending : d <= e
       /\ wdoc' = [wdoc EXCEPT ![w] = d]
  /\ claimMu' = w
  /\ wpc' = [wpc EXCEPT ![w] = "selected"]
  /\ UNCHANGED <<rowVars, fileVars, uVars, unlinking, phase, cntVars>>

\* Nothing is pending: the worker sleeps a second and polls again.
PollEmpty(w) ==
  /\ Running /\ wpc[w] = "idle" /\ claimMu = NoWorker
  /\ Pending = {}
  /\ UNCHANGED vars

ClaimUpdate(w) ==
  /\ wpc[w] = "selected"
  /\ \/ /\ Exists(wdoc[w])
        /\ status' = [status EXCEPT ![wdoc[w]] = "processing"]
        /\ wpc' = [wpc EXCEPT ![w] = "claimed"]
     \/ /\ ~Exists(wdoc[w]) \/ "claim" \in Faults
        /\ wpc' = [wpc EXCEPT ![w] = "idle"]
        /\ UNCHANGED status
  /\ claimMu' = NoWorker
  /\ UNCHANGED <<content, nextId, fileVars, wdoc, uVars, unlinking, phase,
                 cntVars>>

Stat(w) ==
  /\ wpc[w] = "claimed"
  /\ wpc' = [wpc EXCEPT ![w] = IF wdoc[w] \in raw THEN "extracting"
                                                  ELSE "releasing"]
  /\ UNCHANGED <<rowVars, fileVars, claimMu, wdoc, uVars, unlinking, phase,
                 cntVars>>

\* The file may be unreadable, and it may be gone since Stat looked.
Extract(w) ==
  /\ wpc[w] = "extracting"
  /\ \/ /\ wdoc[w] \in raw
        /\ wpc' = [wpc EXCEPT ![w] = "completing"]
     \/ /\ wdoc[w] \notin raw \/ "extract" \in Faults
        /\ wpc' = [wpc EXCEPT ![w] = "marking"]
  /\ UNCHANGED <<rowVars, fileVars, claimMu, wdoc, uVars, unlinking, phase,
                 cntVars>>

\* CompleteKBDocument with an error message; the file stays on disk.
MarkError(w) ==
  /\ wpc[w] = "marking"
  /\ \/ status' = IF status[wdoc[w]] \in {"processing", "pending"}
                    THEN [status EXCEPT ![wdoc[w]] = "error"] ELSE status
     \/ "mark" \in Faults /\ UNCHANGED status
  /\ wpc' = [wpc EXCEPT ![w] = "idle"]
  /\ UNCHANGED <<content, nextId, fileVars, claimMu, wdoc, uVars, unlinking,
                 phase, cntVars>>

\* CompleteKBDocumentWithChunks: a compare-and-set on "processing".  Finding
\* the row in another state is no error, so the file is removed all the same.
Complete(w) ==
  /\ wpc[w] = "completing"
  /\ \/ /\ status[wdoc[w]] = "processing"
        /\ status' = [status EXCEPT ![wdoc[w]] = "ready"]
        /\ content' = [content EXCEPT ![wdoc[w]] = "extracted"]
        /\ wpc' = [wpc EXCEPT ![w] = "removing"]
     \/ /\ status[wdoc[w]] # "processing"
        /\ wpc' = [wpc EXCEPT ![w] = "removing"]
        /\ UNCHANGED <<status, content>>
     \/ /\ "complete" \in Faults
        /\ wpc' = [wpc EXCEPT ![w] = "releasing"]
        /\ UNCHANGED <<status, content>>
  /\ UNCHANGED <<nextId, fileVars, claimMu, wdoc, uVars, unlinking, phase,
                 cntVars>>

ReleaseClaim(w) ==
  /\ wpc[w] = "releasing"
  /\ \/ status' = IF status[wdoc[w]] = "processing"
                    THEN [status EXCEPT ![wdoc[w]] = "pending"] ELSE status
     \/ "release" \in Faults /\ UNCHANGED status
  /\ wpc' = [wpc EXCEPT ![w] = "idle"]
  /\ UNCHANGED <<content, nextId, fileVars, claimMu, wdoc, uVars, unlinking,
                 phase, cntVars>>

RemoveRaw(w) ==
  /\ wpc[w] = "removing"
  /\ raw' = raw \ {wdoc[w]}
  /\ wpc' = [wpc EXCEPT ![w] = "idle"]
  /\ UNCHANGED <<rowVars, tmp, claimMu, wdoc, uVars, unlinking, phase,
                 cntVars>>

-----------------------------------------------------------------------------
(* The other handlers of the administration API.                           *)

\* uploadDoc with a JSON body: the text is indexed in the request.
CreateText ==
  /\ Serving /\ nextId \in Doc
  /\ status' = [status EXCEPT ![nextId] = "ready"]
  /\ content' = [content EXCEPT ![nextId] = "entered"]
  /\ nextId' = nextId + 1
  /\ UNCHANGED <<fileVars, wVars, uVars, unlinking, phase, cntVars>>

\* retryDoc refuses a ready row, RetryKBDocument a processing one.
Retry(d) ==
  /\ Serving /\ retries < MaxRetries
  /\ status[d] = "error"
  /\ status' = [status EXCEPT ![d] = "pending"]
  /\ retries' = retries + 1
  /\ UNCHANGED <<content, nextId, fileVars, wVars, uVars, unlinking, phase,
                 crashes>>

\* updateDoc writes the text of a row in any state and leaves the state alone.
Edit(d) ==
  /\ Serving /\ Exists(d)
  /\ content' = [content EXCEPT ![d] = "entered"]
  /\ UNCHANGED <<status, nextId, fileVars, wVars, uVars, unlinking, phase,
                 cntVars>>

\* deleteDoc removes the row, then the file.
DeleteRow(d) ==
  /\ Serving /\ Exists(d)
  /\ status' = [status EXCEPT ![d] = "absent"]
  /\ content' = [content EXCEPT ![d] = "none"]
  /\ unlinking' = unlinking \cup {d}
  /\ UNCHANGED <<nextId, fileVars, wVars, uVars, phase, cntVars>>

DeleteRaw(d) ==
  /\ d \in unlinking
  /\ raw' = raw \ {d}
  /\ unlinking' = unlinking \ {d}
  /\ UNCHANGED <<rowVars, tmp, wVars, uVars, phase, cntVars>>

-----------------------------------------------------------------------------
(* The process.                                                            *)

\* Everything that is not a row or a file is lost.
Crash ==
  /\ Running /\ crashes < MaxCrashes
  /\ crashes' = crashes + 1
  /\ phase' = "down"
  /\ claimMu' = NoWorker
  /\ wpc' = [w \in Worker |-> "idle"]
  /\ upc' = [u \in Upload |-> IF upc[u] = "idle" THEN "idle" ELSE "done"]
  /\ unlinking' = {}
  /\ UNCHANGED <<rowVars, fileVars, wdoc, udoc, retries>>

\* main: ResetProcessingClaims, whose error is only logged, then the workers.
Boot ==
  /\ phase = "down"
  /\ phase' = "starting"
  /\ \/ status' = [d \in Doc |-> IF status[d] = "processing" THEN "pending"
                                                             ELSE status[d]]
     \/ "reset" \in Faults /\ UNCHANGED status
  /\ UNCHANGED <<content, nextId, fileVars, wVars, uVars, unlinking, cntVars>>

\* RegisterAdminRoutes removes the kb-* files of a former run; requests are
\* served after that.
Serve ==
  /\ phase = "starting"
  /\ phase' = "up"
  /\ tmp' = {}
  /\ UNCHANGED <<rowVars, raw, wVars, uVars, unlinking, cntVars>>

-----------------------------------------------------------------------------
UploadStep(u) == \/ UploadInsert(u) \/ UploadInsertFails(u)
                 \/ UploadRename(u) \/ UploadRenameFails(u) \/ UploadUndo(u)

WorkerStep(w) == \/ ClaimSelect(w) \/ ClaimUpdate(w) \/ Stat(w) \/ Extract(w)
                 \/ MarkError(w) \/ Complete(w) \/ ReleaseClaim(w)
                 \/ RemoveRaw(w)

AdminStep(d) == Retry(d) \/ Edit(d) \/ DeleteRow(d) \/ DeleteRaw(d)

Next == \/ \E u \in Upload : UploadSave(u) \/ UploadStep(u)
        \/ \E w \in Worker : WorkerStep(w) \/ PollEmpty(w)
        \/ \E d \in Doc : AdminStep(d)
        \/ CreateText
        \/ Crash \/ Boot \/ Serve

Spec == Init /\ [][Next]_vars

(* The Go scheduler runs every goroutine that can run, a handler that has  *)
(* begun goes on to its end, and the process, once down, is started again. *)
(* Nothing is assumed of what administrators do, or of crashes.            *)
Fairness == /\ \A w \in Worker : WF_vars(WorkerStep(w))
            /\ \A u \in Upload : WF_vars(UploadStep(u))
            /\ WF_vars(Boot) /\ WF_vars(Serve)

FairSpec == Spec /\ Fairness

-----------------------------------------------------------------------------
(* Every variable has its type; a status outside the five the handlers,    *)
(* the search and the dashboard test for would make a row invisible.       *)
TypeOK ==
  /\ status \in [Doc -> Statuses]
  /\ content \in [Doc -> Origins]
  /\ nextId \in 1..(MaxDocs + 1)
  /\ raw \subseteq Doc
  /\ tmp \subseteq Upload
  /\ claimMu \in Worker \cup {NoWorker}
  /\ wpc \in [Worker -> WorkerPCs]
  /\ wdoc \in [Worker -> 0..MaxDocs]
  /\ upc \in [Upload -> UploadPCs]
  /\ udoc \in [Upload -> 0..MaxDocs]
  /\ unlinking \subseteq Doc
  /\ phase \in {"down", "starting", "up"}
  /\ retries \in 0..MaxRetries
  /\ crashes \in 0..MaxCrashes

\* The worker has claimed its row and not given it up.
Owns(w) == wpc[w] \in {"claimed", "extracting", "completing", "marking",
                       "releasing"}

(* "each claimed row has exactly one owner" (ClaimPendingKBDocument): two  *)
(* workers never work on one document, although the claim is a SELECT and  *)
(* an UPDATE and retries, restarts and deletions run beside it.            *)
ExclusiveClaim ==
  \A v, w \in Worker : Owns(v) /\ Owns(w) /\ v # w => wdoc[v] # wdoc[w]

(* A document marked error still has its raw file (processNextPending      *)
(* keeps it "for a later OCR round"), so a retry has something to extract. *)
ErrorKeepsRaw == \A d \in Doc : status[d] = "error" => d \in raw

(* A row that says processing is being processed: as long as no write of   *)
(* the claim protocol fails, some worker holds it and will complete, mark  *)
(* or release it.  Otherwise the row waits for the next restart, because   *)
(* retryDoc refuses it.                                                    *)
ProcessingIsOwned ==
  Running /\ Faults \cap {"release", "mark", "reset"} = {} =>
    \A d \in Doc : status[d] = "processing" =>
      \E w \in Worker : Owns(w) /\ wdoc[w] = d

(* Why those hold: the invariant that is inductive.  Its parts say, for    *)
(* every position of a worker or handler, what it knows of its row.        *)

\* Ids in use were handed out, and nothing refers to one that was not.
IdsInUse ==
  /\ \A u \in Upload : upc[u] \in {"inserted", "undoing"} => udoc[u] \in 1..(nextId - 1)
  /\ \A w \in Worker : wpc[w] # "idle" => wdoc[w] \in 1..(nextId - 1)
  /\ unlinking \subseteq 1..(nextId - 1)
  /\ \A d \in Doc : d >= nextId => status[d] = "absent"

\* The mutex is held exactly between a claim's SELECT and its UPDATE.
MutexHeld == \A w \in Worker : wpc[w] = "selected" <=> claimMu = w

\* What each position of a worker implies about its row; a row may always
\* have been deleted meanwhile.
WorkerKnows ==
  \A w \in Worker : LET s == status[wdoc[w]] IN
    /\ wpc[w] = "selected" => s \in {"pending", "absent"}
    /\ Owns(w) => s \in {"processing", "absent"}
    /\ wpc[w] \in {"extracting", "completing", "marking"} =>
         wdoc[w] \in raw \/ s = "absent"
    /\ wpc[w] = "removing" => s \in {"ready", "absent"}

\* A row that is gone has no text, and only such a row's file is unlinked.
GoneIsGone ==
  /\ \A d \in Doc : status[d] = "absent" => content[d] = "none"
  /\ \A d \in unlinking : status[d] = "absent"

DownIsIdle == phase = "down" => \A w \in Worker : wpc[w] = "idle"

IInv == /\ TypeOK /\ IdsInUse /\ MutexHeld /\ WorkerKnows
        /\ ExclusiveClaim /\ ErrorKeepsRaw /\ GoneIsGone /\ DownIsIdle

(* A raw file leaves the disk only when the text is in the database or the *)
(* row is gone: no crash, retry, second worker or failed transaction makes *)
(* the server throw away an upload it has not indexed.                     *)
RawRemovedOnlyWhenSafe ==
  [][\A d \in raw \ raw' : status[d] \in {"ready", "absent"}]_vars

(* The queue gives each document the life DocLifecycle promises: one       *)
(* verdict, ready never taken back, failed requeued only by a retry, a     *)
(* deleted identifier never seen again.                                    *)
fateBar == [d \in Doc |->
              CASE status[d] \in {"pending", "processing"} -> "queued"
                [] status[d] = "ready" -> "ready"
                [] status[d] = "error" -> "failed"
                [] status[d] = "absent" /\ d < nextId -> "deleted"
                [] OTHER -> "absent"]

DL == INSTANCE DocLifecycle WITH fate <- fateBar, text <- content

Lifecycle == DL!Spec

(* An upload whose file has landed is settled: it becomes ready or error,  *)
(* or an administrator deletes it.                                         *)
LandedUploadIsSettled ==
  \A d \in Doc :
    (d \in raw /\ status[d] \in {"pending", "processing"})
      ~> status[d] \in {"ready", "error", "absent"}

(* The same across restarts ("a crash mid-extraction self-heals"): it can  *)
(* only fail while an older row waits for a file that does not come, since *)
(* every claim then goes to that row.                                      *)
Blocked(d) == \E e \in 1..(d - 1) :
                status[e] \in {"pending", "processing"} /\ e \notin raw

UploadsSelfHeal ==
  \A d \in Doc :
    []<>~Blocked(d) =>
      ((d \in raw /\ status[d] \in {"pending", "processing"})
         ~> status[d] \in {"ready", "error", "absent"})
=============================================================================
