-------------------------- MODULE DocumentPipeline --------------------------
(***************************************************************************)
(* From a registered tender to an archived one: the document endpoints,    *)
(* the download worker, extraction, the workflow worker and retirement,    *)
(* all sharing the tenders, tender_documents and tender_metadata tables    *)
(* and one directory of stored files.                                      *)
(*                                                                         *)
(* A step is one repository or storage call, together with the reads next  *)
(* to it that nothing can come between to any effect.  A process (an API   *)
(* request, or one of the two workers) reads rows into entities, changes   *)
(* the entities in memory and hands them back: update() copies the whole   *)
(* entity over the row, so a row becomes what its reader last saw plus the *)
(* reader's own change.  Until its process commits, a written row is a     *)
(* draft: other processes read the committed row, and one that wants to    *)
(* write it waits (READ COMMITTED with row locks).  Files are not part of  *)
(* any transaction: a rollback leaves them as they are.                    *)
(***************************************************************************)
EXTENDS TenderStatus, FiniteSets, Integers

CONSTANTS
  Tenders,     \* tender ids, ordered by created_at
  Docs,        \* document ids, ordered by created_at
  Contents,    \* what a stored file can hold
  Requests,    \* API requests in flight at once
  Downloader,  \* the document worker
  Workflow,    \* the eligibility workflow worker
  None,        \* NULL, no draft, nothing in hand
  DownloadBatch, WorkflowBatch,  \* each worker's batch_size
  MaxBatch,    \* retirement's MAX_BATCH
  Closings,    \* the closing dates in use, a subset of ClosingDates
  Ops,         \* the operations in use
  Faults,      \* the faults that occur
  Unreadable,  \* the contents whose extraction raises
  Serial       \* TRUE: nothing starts while anything is in flight

Procs == Requests \cup {Downloader, Workflow}

\* The closing date, against the cutoff in force (today, unless one is given):
\* two dates before it, and any other known date.
ClosingDates == {"unknown", "older", "past", "later"}

AllOps == {"create", "add_url", "upload", "retrigger", "extract", "screen",
           "retire", "patch", "delete", "download", "workflow"}

\* Between which calls a process can be.
Places == {"idle", "patch", "upload_add", "upload_advance", "retrigger",
           "extract_store", "extract_advance", "queue", "batch", "download",
           "advance", "retire_next", "retire_purge", "retire_mark", "retire_archive"}

AllFaults == {"crash", "download", "unlink"}

TenderRow == [status : TenderStatuses \cup NoRow, closing : ClosingDates]

\* file: file_path (NULL or not) together with the sha256 of what it names;
\* text: raw_text; purged: purged_at IS NOT NULL.
DocRow == [tender : Tenders \cup {None},
           url    : BOOLEAN,
           status : DocumentStatuses \cup NoRow,
           file   : Contents \cup {None},
           text   : Contents \cup {None},
           purged : BOOLEAN]

ASSUME PipelineAssumption ==
  /\ Tenders \subseteq Nat /\ Docs \subseteq Nat
  /\ IsFiniteSet(Tenders) /\ IsFiniteSet(Docs)
  /\ DownloadBatch \in Nat \ {0} /\ WorkflowBatch \in Nat \ {0} /\ MaxBatch \in Nat \ {0}
  /\ Downloader # Workflow /\ {Downloader, Workflow} \cap Requests = {}
  /\ None \notin Tenders \cup Contents \cup TenderRow \cup DocRow
  /\ Closings \subseteq ClosingDates
  /\ Ops \subseteq AllOps /\ Faults \subseteq AllFaults
  /\ Unreadable \subseteq Contents /\ Serial \in BOOLEAN

VARIABLES
  tender, doc, meta, result,  \* the committed rows
  disk,                       \* the stored files
  txTender, txDoc, txMeta,    \* each process's uncommitted rows
  pc,                         \* where each process is
  at, ent,                    \* the tender in hand and its entity
  held,                       \* the document entities in hand
  base,                       \* the row an update waiting for a lock has read
  todo                        \* the tenders a run has still to visit

db    == <<tender, doc, meta, result>>
tx    == <<txTender, txDoc, txMeta>>
local == <<pc, at, ent, held, base, todo>>
vars  == <<tender, doc, meta, result, disk, txTender, txDoc, txMeta,
           pc, at, ent, held, base, todo>>

-----------------------------------------------------------------------------
\* Rows, locks and transactions.

Exists(row) == row.status \notin NoRow

\* What p reads: its own uncommitted version, else the committed row.
SeenTender(p, t) == IF txTender[p][t] # None THEN txTender[p][t] ELSE tender[t]
SeenDoc(p, d)    == IF txDoc[p][d]    # None THEN txDoc[p][d]    ELSE doc[d]

\* No other process holds the row's lock.
FreeTender(p, t) == \A q \in Procs \ {p} : txTender[q][t] = None
FreeDoc(p, d)    == \A q \in Procs \ {p} : txDoc[q][d]    = None
FreeMeta(p, t)   == \A q \in Procs \ {p} : txMeta[q][t]   = None

NoTenders == [t \in Tenders |-> None]
NoDocs    == [d \in Docs    |-> None]

\* Publish the drafts tw, dw, mw of process p and release its locks.
CommitDrafts(p, tw, dw, mw) ==
  /\ tender'   = [t \in Tenders |-> IF tw[t] # None THEN tw[t] ELSE tender[t]]
  /\ doc'      = [d \in Docs    |-> IF dw[d] # None THEN dw[d] ELSE doc[d]]
  /\ meta'     = [t \in Tenders |-> IF mw[t] # None THEN mw[t] ELSE meta[t]]
  /\ txTender' = [txTender EXCEPT ![p] = NoTenders]
  /\ txDoc'    = [txDoc    EXCEPT ![p] = NoDocs]
  /\ txMeta'   = [txMeta   EXCEPT ![p] = NoTenders]

Commit(p) == CommitDrafts(p, txTender[p], txDoc[p], txMeta[p])

Rollback(p) ==
  /\ txTender' = [txTender EXCEPT ![p] = NoTenders]
  /\ txDoc'    = [txDoc    EXCEPT ![p] = NoDocs]
  /\ txMeta'   = [txMeta   EXCEPT ![p] = NoTenders]
  /\ UNCHANGED <<tender, doc, meta>>

\* The request is answered.  The workflow worker turns to its next tender.
Finish(p) ==
  /\ pc'   = [pc   EXCEPT ![p] = IF p = Workflow THEN "queue" ELSE "idle"]
  /\ todo' = [todo EXCEPT ![p] = IF p = Workflow THEN @ \ {at[p]} ELSE {}]
  /\ at'   = [at   EXCEPT ![p] = None]
  /\ ent'  = [ent  EXCEPT ![p] = None]
  /\ held' = [held EXCEPT ![p] = NoDocs]
  /\ base' = [base EXCEPT ![p] = None]

\* An exception leaves the handler: the session is rolled back.
Fail(p) == Rollback(p) /\ Finish(p) /\ UNCHANGED <<result, disk>>

Quiet       == Serial => \A p \in Procs : pc[p] = "idle"
Begins(op)  == op \in Ops /\ Quiet
Starts(p, op) == Begins(op) /\ pc[p] = "idle"

\* The document entities in hand, oldest first.
Holds(p, d) == held[p][d] # None
First(p, d) == Holds(p, d) /\ \A e \in Docs : Holds(p, e) => d <= e
Holding(p)  == \E d \in Docs : Holds(p, d)
Drop(p, d)  == held' = [held EXCEPT ![p][d] = None]
Keep(p, d, e) == held' = [held EXCEPT ![p] = [NoDocs EXCEPT ![d] = e]]

\* On to the next call; the update before it is over.
Goto(p, where) ==
  /\ pc'   = [pc   EXCEPT ![p] = where]
  /\ base' = [base EXCEPT ![p] = None]

\* documents.update(e) and tenders.update(e) select the row, copy the entity
\* over it and flush: the UPDATE names the columns that then differ, and there
\* is none, and no lock is taken, when nothing differs.  A wait for the lock
\* falls between the SELECT and the UPDATE, so a column the lock's holder
\* changed survives unless it was to be changed here too.
Selected(p, row) == IF base[p] # None THEN base[p] ELSE row
\* Mutant of Merge: a file_path and sha256 once set are not replaced.
MergeKeepingFile(e, old, row) ==
  [k \in DOMAIN row |->
     IF e[k] # old[k] /\ ~(k = "file" /\ old[k] # None) THEN e[k] ELSE row[k]]

Merge(e, old, row) == [k \in DOMAIN row |-> IF e[k] # old[k] THEN e[k] ELSE row[k]]

CanPutTender(p, t, e) == FreeTender(p, t) \/ Selected(p, SeenTender(p, t)) = e
CanPutDoc(p, d, e)    == FreeDoc(p, d)    \/ Selected(p, SeenDoc(p, d))    = e
PutTender(p, t, e) ==
  LET row == SeenTender(p, t)  old == Selected(p, row) IN
  IF old = e THEN txTender[p] ELSE [txTender[p] EXCEPT ![t] = Merge(e, old, row)]
PutDoc(p, d, e) ==
  LET row == SeenDoc(p, d)  old == Selected(p, row) IN
  IF old = e THEN txDoc[p] ELSE [txDoc[p] EXCEPT ![d] = Merge(e, old, row)]

UpdateTender(p, t, e) ==
  CanPutTender(p, t, e) /\ txTender' = [txTender EXCEPT ![p] = PutTender(p, t, e)]
UpdateDoc(p, d, e) ==
  CanPutDoc(p, d, e) /\ txDoc' = [txDoc EXCEPT ![p] = PutDoc(p, d, e)]

\* A document id no row and no file has used (ids are random UUIDs).
FreshDoc(d) == /\ doc[d].status = "ABSENT"
               /\ disk[d] = None
               /\ \A p \in Procs : held[p][d] = None /\ txDoc[p][d] = None

-----------------------------------------------------------------------------
Init ==
  /\ tender = [t \in Tenders |-> [status |-> "ABSENT", closing |-> "unknown"]]
  /\ doc = [d \in Docs |-> [tender |-> None, url |-> FALSE, status |-> "ABSENT",
                            file |-> None, text |-> None, purged |-> FALSE]]
  /\ meta = [t \in Tenders |-> None]
  /\ result = [t \in Tenders |-> FALSE]
  /\ disk = [d \in Docs |-> None]
  /\ txTender = [p \in Procs |-> NoTenders]
  /\ txDoc = [p \in Procs |-> NoDocs]
  /\ txMeta = [p \in Procs |-> NoTenders]
  /\ pc = [p \in Procs |-> "idle"]
  /\ at = [p \in Procs |-> None]
  /\ ent = [p \in Procs |-> None]
  /\ held = [p \in Procs |-> NoDocs]
  /\ base = [p \in Procs |-> None]
  /\ todo = [p \in Procs |-> {}]

-----------------------------------------------------------------------------
\* Endpoints whose handler is a single read followed by the write it decides.

\* POST /tenders and each accepted row of the bulk import.  created_at, and
\* with it the order of Tenders, follows creation.
CreateTender(t, c) ==
  /\ Begins("create")
  /\ tender[t].status = "ABSENT"
  /\ \A s \in Tenders : s < t => tender[s].status # "ABSENT"
  /\ tender' = [tender EXCEPT ![t] = [status |-> "REGISTERED", closing |-> c]]
  /\ UNCHANGED <<doc, meta, result, disk, tx, local>>

\* Mutant of AddFromUrl: a status outside the enum reaches the string column.
AddFromUrlQueued(t, d) ==
  /\ Begins("add_url") /\ Exists(tender[t]) /\ FreshDoc(d)
  /\ doc' = [doc EXCEPT ![d] = [tender |-> t, url |-> TRUE, status |-> "QUEUED",
                               file |-> None, text |-> None, purged |-> FALSE]]
  /\ UNCHANGED <<tender, meta, result, disk, tx, local>>

\* POST /tenders/{id}/documents: a PENDING row for the download worker.
AddFromUrl(t, d) ==
  /\ Begins("add_url")
  /\ Exists(tender[t])
  /\ FreshDoc(d)
  /\ doc' = [doc EXCEPT ![d] = [tender |-> t, url |-> TRUE, status |-> "PENDING",
                               file |-> None, text |-> None, purged |-> FALSE]]
  /\ UNCHANGED <<tender, meta, result, disk, tx, local>>

\* DELETE /tenders/{id}: the row and everything that cascades from it.  It
\* waits for any transaction that wrote the tender, a document of it (a new
\* document row holds a key-share lock on the tender) or its metadata.
DeleteTender(t) ==
  /\ Begins("delete")
  /\ Exists(tender[t])
  /\ \A p \in Procs : /\ txTender[p][t] = None /\ txMeta[p][t] = None
                       /\ \A d \in Docs : txDoc[p][d] # None => txDoc[p][d].tender # t
  /\ tender' = [tender EXCEPT ![t].status = "DELETED"]
  /\ doc' = [d \in Docs |-> IF doc[d].tender = t
                            THEN [doc[d] EXCEPT !.status = "DELETED"] ELSE doc[d]]
  /\ meta' = [meta EXCEPT ![t] = None]
  /\ result' = [result EXCEPT ![t] = FALSE]
  /\ UNCHANGED <<disk, tx, local>>

\* POST /tenders/{id}/eligibility, as far as the lifecycle is concerned.
Screen(t) ==
  /\ Begins("screen")
  /\ tender[t].status \in SCREENABLE
  /\ result' = [result EXCEPT ![t] = TRUE]
  /\ UNCHANGED <<tender, doc, meta, disk, tx, local>>

-----------------------------------------------------------------------------
\* PATCH /tenders/{id}: read the tender, set the fields that differ, update.
\* c is the new closing date; keeping it stands for a change of title only.

PatchRead(p, t, c) ==
  /\ Starts(p, "patch")
  /\ Exists(tender[t])
  /\ c # "unknown" \/ c = tender[t].closing  \* a PATCH cannot clear a field
  /\ Goto(p, "patch")
  /\ at'  = [at EXCEPT ![p] = t]
  /\ ent' = [ent EXCEPT ![p] = [tender[t] EXCEPT !.closing = c]]
  /\ UNCHANGED <<db, disk, tx, held, todo>>

PatchWrite(p) ==
  /\ pc[p] = "patch"
  /\ IF Exists(tender[at[p]])
     THEN /\ CanPutTender(p, at[p], ent[p])
          /\ CommitDrafts(p, PutTender(p, at[p], ent[p]), txDoc[p], txMeta[p])
          /\ Finish(p) /\ UNCHANGED <<result, disk>>
     ELSE Fail(p)

-----------------------------------------------------------------------------
\* POST /tenders/{id}/documents/upload: the file is stored first, then the row
\* is inserted and the tender advanced.

UploadStore(p, t, d, c) ==
  /\ Starts(p, "upload")
  /\ Exists(tender[t])
  /\ FreshDoc(d)
  /\ disk' = [disk EXCEPT ![d] = c]
  /\ Goto(p, "upload_add")
  /\ at' = [at EXCEPT ![p] = t]
  /\ Keep(p, d, [tender |-> t, url |-> FALSE, status |-> "DOWNLOADED",
                 file |-> c, text |-> None, purged |-> FALSE])
  /\ UNCHANGED <<db, tx, ent, todo>>

UploadAdd(p, d) ==
  /\ pc[p] = "upload_add" /\ Holds(p, d)
  /\ IF Exists(tender[at[p]])
     THEN /\ txDoc' = [txDoc EXCEPT ![p][d] = held[p][d]]
          /\ ent' = [ent EXCEPT ![p] = tender[at[p]]]
          /\ Goto(p, "upload_advance")
          /\ UNCHANGED <<db, disk, txTender, txMeta, at, held, todo>>
     ELSE Fail(p)  \* the foreign key

\* Mutant of UploadAdvance: the row is committed and the tender forgotten.
UploadAdvanceForgotten(p) ==
  /\ pc[p] = "upload_advance"
  /\ Commit(p) /\ Finish(p)
  /\ UNCHANGED <<result, disk>>

\* _advance_tender: the status tested is the one read in the step before.
UploadAdvance(p) ==
  /\ pc[p] = "upload_advance"
  /\ \/ /\ ent[p].status = "REGISTERED"
        /\ LET e == [ent[p] EXCEPT !.status = "DOWNLOADED"] IN
           IF Exists(tender[at[p]])
           THEN /\ CanPutTender(p, at[p], e)
                /\ CommitDrafts(p, PutTender(p, at[p], e), txDoc[p], txMeta[p])
           ELSE Rollback(p)
     \/ /\ ent[p].status # "REGISTERED"
        /\ Commit(p)
  /\ Finish(p)
  /\ UNCHANGED <<result, disk>>

-----------------------------------------------------------------------------
\* POST /documents/{id}/retrigger: back to PENDING, whatever the status was.

\* Mutant of RetriggerRead: the text goes with the status.
RetriggerReadReset(p, d) ==
  /\ Starts(p, "retrigger") /\ Exists(doc[d])
  /\ Goto(p, "retrigger")
  /\ Keep(p, d, [doc[d] EXCEPT !.status = "PENDING", !.text = None])
  /\ UNCHANGED <<db, disk, tx, at, ent, todo>>

RetriggerRead(p, d) ==
  /\ Starts(p, "retrigger")
  /\ Exists(doc[d])
  /\ Goto(p, "retrigger")
  /\ Keep(p, d, [doc[d] EXCEPT !.status = "PENDING"])
  /\ UNCHANGED <<db, disk, tx, at, ent, todo>>

RetriggerWrite(p, d) ==
  /\ pc[p] = "retrigger" /\ Holds(p, d)
  /\ IF Exists(doc[d])
     THEN /\ CanPutDoc(p, d, held[p][d])
          /\ CommitDrafts(p, txTender[p], PutDoc(p, d, held[p][d]), txMeta[p])
          /\ Finish(p) /\ UNCHANGED <<result, disk>>
     ELSE Fail(p)

-----------------------------------------------------------------------------
\* Extraction, for POST /tenders/{id}/extract and for the workflow worker.

\* A document extract() can work on: DOWNLOADED, its file there and readable, which is
\* a matter of its bytes.
Selectable(t, d) == doc[d].tender = t /\ doc[d].status = "DOWNLOADED"
Readable(d) == doc[d].file # None /\ disk[d] # None /\ disk[d] \notin Unreadable

\* Select the document and read its file; parsing follows, off the event loop.
ReadDocument(p, t, d) ==
  /\ Exists(tender[t])
  /\ Selectable(t, d) /\ Readable(d)
  /\ Goto(p, "extract_store")
  /\ at' = [at EXCEPT ![p] = t]
  /\ Keep(p, d, [doc[d] EXCEPT !.text = disk[d]])
  /\ UNCHANGED <<db, disk, tx, ent, todo>>

\* The caller may name the document; without one it is the oldest DOWNLOADED.
Extract(p, t, d) == Starts(p, "extract") /\ ReadDocument(p, t, d)

\* Metadata and BOQ rows are replaced, the text is kept on the document, and
\* the tender is read.  A first extraction inserts the metadata row: when
\* another transaction is inserting it too, the unique index fails this one.
ExtractStore(p, d) ==
  LET t == at[p]
      newMeta == held[p][d].text
  IN
  /\ pc[p] = "extract_store" /\ Holds(p, d)
  /\ \/ /\ Exists(tender[t]) /\ Exists(doc[d])
        /\ meta[t] # newMeta => FreeMeta(p, t)
        /\ txMeta' = IF meta[t] = newMeta THEN txMeta
                     ELSE [txMeta EXCEPT ![p][t] = newMeta]
        /\ UpdateDoc(p, d, held[p][d])
        /\ ent' = [ent EXCEPT ![p] = SeenTender(p, t)]
        /\ Goto(p, "extract_advance")
        /\ UNCHANGED <<db, disk, txTender, at, held, todo>>
     \/ /\ ~Exists(tender[t]) \/ (meta[t] = None /\ ~FreeMeta(p, t))
        /\ Fail(p)

\* _advance_to_parsed, then the commit; the workflow worker screens before it
\* commits, and loses the extraction when the tender cannot be screened.
ExtractAdvance(p) ==
  LET t == at[p]
      advances == Exists(ent[p]) /\ CanTransition(ent[p].status, "PARSED")
      parsed == [ent[p] EXCEPT !.status = "PARSED"]
      status == IF advances THEN "PARSED" ELSE tender[t].status
  IN
  /\ pc[p] = "extract_advance"
  /\ advances => CanPutTender(p, t, parsed)
  /\ IF \/ advances /\ ~Exists(tender[t])
        \/ p = Workflow /\ status \notin SCREENABLE
     THEN Rollback(p) /\ UNCHANGED result
     ELSE /\ CommitDrafts(p, IF advances THEN PutTender(p, t, parsed) ELSE txTender[p],
                          txDoc[p], txMeta[p])
          /\ result' = IF p = Workflow THEN [result EXCEPT ![t] = TRUE] ELSE result
  /\ Finish(p)
  /\ UNCHANGED disk

-----------------------------------------------------------------------------
\* The workflow worker: the newest DOWNLOADED tenders, one session for each.

DownloadedTenders == {t \in Tenders : tender[t].status = "DOWNLOADED"}

WorkflowFetch ==
  LET batch == {t \in DownloadedTenders :
                  Cardinality({s \in DownloadedTenders : s > t}) < WorkflowBatch}
  IN
  /\ Starts(Workflow, "workflow")
  /\ batch # {}
  /\ Goto(Workflow, "queue")
  /\ todo' = [todo EXCEPT ![Workflow] = batch]
  /\ UNCHANGED <<db, disk, tx, at, ent, held>>

Newest(t) == t \in todo[Workflow] /\ \A s \in todo[Workflow] : s <= t
Oldest(t, d) == Selectable(t, d) /\ \A e \in Docs : Selectable(t, e) => d <= e

WorkflowExtract(t, d) ==
  /\ pc[Workflow] = "queue" /\ Newest(t) /\ Oldest(t, d)
  /\ ReadDocument(Workflow, t, d)

\* extract() raised: logged, and on to the next tender.
WorkflowSkip(t) ==
  /\ pc[Workflow] = "queue" /\ Newest(t)
  /\ ~Exists(tender[t]) \/ \A d \in Docs : Oldest(t, d) => ~Readable(d)
  /\ todo' = [todo EXCEPT ![Workflow] = @ \ {t}]
  /\ UNCHANGED <<db, disk, tx, pc, at, ent, held, base>>

WorkflowDone ==
  /\ pc[Workflow] = "queue" /\ todo[Workflow] = {}
  /\ Goto(Workflow, "idle")
  /\ UNCHANGED <<db, disk, tx, at, ent, held, todo>>

-----------------------------------------------------------------------------
\* The download worker: one session, hence one transaction, for the batch.

\* Mutant of PendingDocs: only the documents of tenders still to be downloaded.
PendingOfRegistered ==
  {d \in Docs : doc[d].status = "PENDING" /\ tender[doc[d].tender].status = "REGISTERED"}

PendingDocs == {d \in Docs : doc[d].status = "PENDING"}

DownloadFetch ==
  LET batch == {d \in PendingDocs : Cardinality({e \in PendingDocs : e < d}) < DownloadBatch}
  IN
  /\ Starts(Downloader, "download")
  /\ batch # {}
  /\ Goto(Downloader, "batch")
  /\ held' = [held EXCEPT ![Downloader] =
                [d \in Docs |-> IF d \in batch THEN doc[d] ELSE None]]
  /\ UNCHANGED <<db, disk, tx, at, ent, todo>>

\* mark_downloading, or mark_failed for a direct upload; a row deleted since
\* the fetch raises out of the batch.
DownloadStart(d) ==
  LET p == Downloader
      e == [held[p][d] EXCEPT !.status =
              IF held[p][d].url THEN "DOWNLOADING" ELSE "FAILED"]
  IN
  /\ pc[p] = "batch" /\ First(p, d)
  /\ IF Exists(doc[d])
     THEN /\ UpdateDoc(p, d, e)
          /\ IF e.url
             THEN Goto(p, "download") /\ UNCHANGED held
             ELSE Drop(p, d) /\ Goto(p, "batch")
          /\ UNCHANGED <<db, disk, txTender, txMeta, at, ent, todo>>
     ELSE Fail(p)

\* The bytes arrive and are stored; the tender is read.
DownloadSave(d, c) ==
  LET p == Downloader
      t == held[p][d].tender
      e == [held[p][d] EXCEPT !.status = "DOWNLOADED", !.file = c]
  IN
  /\ pc[p] = "download" /\ First(p, d)
  /\ disk' = [disk EXCEPT ![d] = c]
  /\ UpdateDoc(p, d, e)
  /\ at'  = [at EXCEPT ![p] = t]
  /\ ent' = [ent EXCEPT ![p] = SeenTender(p, t)]
  /\ Goto(p, "advance")
  /\ held' = [held EXCEPT ![p][d] = e]
  /\ UNCHANGED <<db, txTender, txMeta, todo>>

\* Mutant of DownloadFail: the failure is logged and the row left as it is.
DownloadFailUnmarked(d) ==
  /\ "download" \in Faults
  /\ pc[Downloader] = "download" /\ First(Downloader, d)
  /\ Goto(Downloader, "batch")
  /\ Drop(Downloader, d)
  /\ UNCHANGED <<db, disk, tx, at, ent, todo>>

DownloadFail(d) ==
  LET p == Downloader IN
  /\ "download" \in Faults
  /\ pc[p] = "download" /\ First(p, d)
  /\ UpdateDoc(p, d, [held[p][d] EXCEPT !.status = "FAILED"])
  /\ Goto(p, "batch")
  /\ Drop(p, d)
  /\ UNCHANGED <<db, disk, txTender, txMeta, at, ent, todo>>

\* Mutant of DownloadAdvance: the status read is not looked at.
DownloadAdvanceAlways(d) ==
  LET p == Downloader IN
  /\ pc[p] = "advance" /\ First(p, d)
  /\ Exists(tender[at[p]])
  /\ UpdateTender(p, at[p], [ent[p] EXCEPT !.status = "DOWNLOADED"])
  /\ Goto(p, "batch")
  /\ Drop(p, d)
  /\ UNCHANGED <<db, disk, txDoc, txMeta, at, ent, todo>>

\* The update finds the tender (DownloadSave's own uncommitted document row
\* keeps it from being deleted), so nothing fails the document here.
DownloadAdvance(d) ==
  LET p == Downloader IN
  /\ pc[p] = "advance" /\ First(p, d)
  /\ IF ent[p].status = "REGISTERED"
     THEN /\ Exists(tender[at[p]])
          /\ UpdateTender(p, at[p], [ent[p] EXCEPT !.status = "DOWNLOADED"])
     ELSE UNCHANGED txTender
  /\ Goto(p, "batch")
  /\ Drop(p, d)
  /\ UNCHANGED <<db, disk, txDoc, txMeta, at, ent, todo>>

DownloadCommit ==
  LET p == Downloader IN
  /\ pc[p] = "batch" /\ ~Holding(p)
  /\ Commit(p) /\ Finish(p)
  /\ UNCHANGED <<result, disk>>

-----------------------------------------------------------------------------
\* POST /retirement: plan, then for each tender purge its files and archive it,
\* all in one transaction.  Files go at once, rows when the run commits.

Purgeable(row) == row.file # None /\ ~row.purged /\ row.status = "DOWNLOADED"

\* list_closing_before: by closing date, at most MAX_BATCH.  Tenders of one
\* date come in any order; those archived before are still among them.
Expired == {t \in Tenders : Exists(tender[t]) /\ tender[t].closing \in {"older", "past"}}
ClosesBefore(s, t) == tender[s].closing = "older" /\ tender[t].closing = "past"

Candidates(W) ==
  /\ W \subseteq Expired
  /\ Cardinality(W) = MaxBatch \/ (W = Expired /\ Cardinality(W) < MaxBatch)
  /\ \A t \in W, s \in Expired \ W : ~ClosesBefore(s, t)

\* Mutant of Retirable: the date alone decides.
RetirableByDate(W) == W

Retirable(W) == {t \in W : tender[t].status \in PURGEABLE_STATUSES}

\* S is what the caller's tender_ids leave of the selection.
RetirePlan(p, W, S) ==
  /\ Starts(p, "retire")
  /\ Candidates(W)
  /\ S \subseteq Retirable(W) /\ S # {}
  /\ Goto(p, "retire_next")
  /\ todo' = [todo EXCEPT ![p] = S]
  /\ UNCHANGED <<db, disk, tx, at, ent, held>>

RetireList(p, t) ==
  /\ pc[p] = "retire_next" /\ t \in todo[p]
  /\ Goto(p, "retire_purge")
  /\ at' = [at EXCEPT ![p] = t]
  /\ held' = [held EXCEPT ![p] =
                [d \in Docs |-> IF doc[d].tender = t /\ Purgeable(SeenDoc(p, d))
                                THEN SeenDoc(p, d) ELSE None]]
  /\ UNCHANGED <<db, disk, tx, ent, todo>>

RetireUnlink(p, d) ==
  /\ pc[p] = "retire_purge" /\ First(p, d)
  /\ disk' = [disk EXCEPT ![d] = None]
  /\ Goto(p, "retire_mark")
  /\ UNCHANGED <<db, tx, at, ent, held, todo>>

\* Storage refused: the row is left alone and the run goes on.
RetireUnlinkFails(p, d) ==
  /\ "unlink" \in Faults
  /\ pc[p] = "retire_purge" /\ First(p, d)
  /\ Drop(p, d)
  /\ UNCHANGED <<db, disk, tx, pc, at, ent, base, todo>>

RetireMark(p, d) ==
  /\ pc[p] = "retire_mark" /\ First(p, d)
  /\ IF Exists(doc[d])
     THEN /\ UpdateDoc(p, d, [held[p][d] EXCEPT !.file = None, !.purged = TRUE])
          /\ Goto(p, "retire_purge")
          /\ Drop(p, d)
          /\ UNCHANGED <<db, disk, txTender, txMeta, at, ent, todo>>
     ELSE Fail(p)

RetireRead(p) ==
  LET row == SeenTender(p, at[p]) IN
  /\ pc[p] = "retire_purge" /\ ~Holding(p)
  /\ IF Exists(row) /\ row.status # "ARCHIVED"
     THEN Goto(p, "retire_archive") /\ ent' = [ent EXCEPT ![p] = row] /\ UNCHANGED todo
     ELSE /\ Goto(p, "retire_next")
          /\ todo' = [todo EXCEPT ![p] = @ \ {at[p]}]
          /\ UNCHANGED ent
  /\ UNCHANGED <<db, disk, tx, at, held>>

RetireArchive(p) ==
  /\ pc[p] = "retire_archive"
  /\ IF Exists(tender[at[p]])
     THEN /\ UpdateTender(p, at[p], [ent[p] EXCEPT !.status = "ARCHIVED"])
          /\ Goto(p, "retire_next")
          /\ todo' = [todo EXCEPT ![p] = @ \ {at[p]}]
          /\ UNCHANGED <<db, disk, txDoc, txMeta, at, ent, held>>
     ELSE Fail(p)

RetireCommit(p) ==
  /\ pc[p] = "retire_next" /\ todo[p] = {}
  /\ Commit(p) /\ Finish(p)
  /\ UNCHANGED <<result, disk>>

-----------------------------------------------------------------------------
\* The SELECT of an update whose row another process has locked.  Without this
\* step before it the update's SELECT comes after the wait.

WaitTender(p) ==
  /\ pc[p] \in {"patch", "upload_advance", "extract_advance", "advance", "retire_archive"}
  /\ base[p] = None /\ ~FreeTender(p, at[p])
  /\ base' = [base EXCEPT ![p] = SeenTender(p, at[p])]
  /\ UNCHANGED <<db, disk, tx, pc, at, ent, held, todo>>

WaitDoc(p, d) ==
  /\ pc[p] \in {"retrigger", "extract_store", "batch", "retire_mark"} /\ First(p, d)
  /\ base[p] = None /\ ~FreeDoc(p, d)
  /\ pc[p] = "extract_store" => FreeMeta(p, at[p])
  /\ base' = [base EXCEPT ![p] = SeenDoc(p, d)]
  /\ UNCHANGED <<db, disk, tx, pc, at, ent, held, todo>>

-----------------------------------------------------------------------------
\* A process dies, is cancelled, loses its connection or is chosen as a
\* deadlock victim between two calls: nothing it wrote to the database remains.
Crash(p) ==
  /\ "crash" \in Faults
  /\ pc[p] # "idle"
  /\ Rollback(p)
  /\ Goto(p, "idle")
  /\ at'   = [at   EXCEPT ![p] = None]
  /\ ent'  = [ent  EXCEPT ![p] = None]
  /\ held' = [held EXCEPT ![p] = NoDocs]
  /\ todo' = [todo EXCEPT ![p] = {}]
  /\ UNCHANGED <<result, disk>>

RequestStep(p) ==
  \/ \E t \in Tenders, c \in Closings : PatchRead(p, t, c)
  \/ PatchWrite(p)
  \/ \E t \in Tenders, d \in Docs, c \in Contents : UploadStore(p, t, d, c)
  \/ \E d \in Docs : UploadAdd(p, d)
  \/ UploadAdvance(p)
  \/ \E d \in Docs : RetriggerRead(p, d) \/ RetriggerWrite(p, d)
  \/ \E t \in Tenders, d \in Docs : Extract(p, t, d)
  \/ \E W, S \in SUBSET Tenders : RetirePlan(p, W, S)
  \/ \E t \in Tenders : RetireList(p, t)
  \/ \E d \in Docs : \/ RetireUnlink(p, d)
                     \/ RetireUnlinkFails(p, d)
                     \/ RetireMark(p, d)
  \/ RetireRead(p)
  \/ RetireArchive(p)
  \/ RetireCommit(p)

ExtractStep(p) == (\E d \in Docs : ExtractStore(p, d)) \/ ExtractAdvance(p)

WorkflowStep ==
  \/ WorkflowFetch
  \/ \E t \in Tenders, d \in Docs : WorkflowExtract(t, d)
  \/ \E t \in Tenders : WorkflowSkip(t)
  \/ WorkflowDone

DownloadStep ==
  \/ DownloadFetch
  \/ \E d \in Docs : \/ DownloadStart(d)
                     \/ \E c \in Contents : DownloadSave(d, c)
                     \/ DownloadFail(d)
                     \/ DownloadAdvance(d)
  \/ DownloadCommit

DirectStep ==
  \/ \E t \in Tenders, c \in Closings : CreateTender(t, c)
  \/ \E t \in Tenders, d \in Docs : AddFromUrl(t, d)
  \/ \E t \in Tenders : DeleteTender(t) \/ Screen(t)

Next ==
  \/ DirectStep
  \/ \E p \in Requests : RequestStep(p)
  \/ \E p \in Requests \cup {Workflow} : ExtractStep(p)
  \/ WorkflowStep
  \/ DownloadStep
  \/ \E p \in Procs : WaitTender(p) \/ (\E d \in Docs : WaitDoc(p, d)) \/ Crash(p)

Spec == Init /\ [][Next]_vars

\* What the event loop keeps running: the two poll loops, and every handler
\* that has begun.  Nothing obliges a client to send a request.
Continues(p) == pc[p] # "idle" /\ (RequestStep(p) \/ ExtractStep(p))

Fairness ==
  /\ WF_vars(DownloadStep)
  /\ WF_vars(WorkflowStep \/ ExtractStep(Workflow))
  /\ \A p \in Requests : WF_vars(Continues(p))

FairSpec == Spec /\ Fairness

-----------------------------------------------------------------------------
TypeOK ==
  /\ tender \in [Tenders -> TenderRow]
  /\ doc \in [Docs -> DocRow]
  /\ meta \in [Tenders -> Contents \cup {None}]
  /\ result \in [Tenders -> BOOLEAN]
  /\ disk \in [Docs -> Contents \cup {None}]
  /\ txTender \in [Procs -> [Tenders -> TenderRow \cup {None}]]
  /\ txDoc \in [Procs -> [Docs -> DocRow \cup {None}]]
  /\ txMeta \in [Procs -> [Tenders -> Contents \cup {None}]]
  /\ pc \in [Procs -> Places]
  /\ at \in [Procs -> Tenders \cup {None}]
  /\ ent \in [Procs -> TenderRow \cup {None}]
  /\ held \in [Procs -> [Docs -> DocRow \cup {None}]]
  /\ base \in [Procs -> TenderRow \cup DocRow \cup {None}]
  /\ todo \in [Procs -> SUBSET Tenders]

\* A document is never left DOWNLOADING: the status exists only inside the
\* worker's transaction, so a crash between the two updates of a download puts
\* the document back to PENDING, where the next poll finds it.
NoStuckDownload == \A d \in Docs : doc[d].status # "DOWNLOADING"

\* Nothing is analysed or archived before it was parsed: a tender at or past
\* PARSED has its extracted metadata, whatever requests overwrote each other.
ParsedHasMetadata ==
  \A t \in Tenders : tender[t].status \in Extracted \/ result[t] => meta[t] # None

\* The stored file of a downloaded document is there unless its tender has been
\* extracted: no crash, race or failed run of retirement loses the only copy of
\* a tender nothing was extracted from.
BytesOrMetadata ==
  \A d \in Docs : doc[d].status = "DOWNLOADED" =>
    disk[d] # None \/ meta[doc[d].tender] # None

\* A document is DOWNLOADED only under a tender that has left REGISTERED: the
\* row and the advance are one transaction, so no crash separates them.
DownloadedTenderAdvanced ==
  \A d \in Docs : doc[d].status = "DOWNLOADED" =>
    tender[doc[d].tender].status # "REGISTERED"

\* The file of a downloaded document is the one its row's sha256 describes,
\* through retries, re-downloads and interrupted batches; it may be gone (a run of
\* retirement that unlinked it and was then lost) only once its tender was read.
FileMatchesRow ==
  \A d \in Docs :
    doc[d].status = "DOWNLOADED" /\ doc[d].file # None =>
      \/ disk[d] = doc[d].file
      \/ disk[d] = None /\ meta[doc[d].tender] # None

Lifecycle == INSTANCE TenderLifecycle WITH
  status    <- [t \in Tenders |-> tender[t].status],
  extracted <- {t \in Tenders : meta[t] # None},
  owner     <- [d \in Docs |-> doc[d].tender],
  stored    <- {d \in Docs : disk[d] # None},
  Nil       <- None

\* The pipeline does what TenderLifecycle promises, step by step, where every
\* status is written by a transition (see LegalTransitions for where not).
RefinesLifecycle == Lifecycle!Spec

\* The status column moves only along the edges of _TRANSITIONS.
LegalTransitions ==
  [][\A t \in Tenders :
       LET s == tender[t].status  n == tender'[t].status IN
       \/ n = s \/ n = "DELETED" \/ s = "ABSENT"
       \/ s \in TenderStatuses /\ CanTransition(s, n)]_vars

\* README: "ARCHIVED: Closed. Terminal - nothing transitions out of it."
ArchivedIsTerminal ==
  [][\A t \in Tenders :
       tender[t].status = "ARCHIVED" => tender'[t].status \in {"ARCHIVED", "DELETED"}]_vars

\* domain/retirement.py: "Nothing is purged before extraction has run. The
\* bytes are the only copy of a document until PARSED."
PurgedWasExtracted == \A d \in Docs : doc[d].purged => doc[d].text # None

\* RetirementOutcome: a file storage refused to delete keeps its row "so a
\* retry can pick it up"; a retry selects only tenders that are not archived.
RefusedFileIsRetried ==
  \A d \in Docs : Purgeable(doc[d]) => tender[doc[d].tender].status # "ARCHIVED"

\* The retirement page, when a preview was cut off at MAX_BATCH: "Run this again
\* afterwards to continue."  Once all that is left is archived or ready to be
\* retired, the next run has something to retire.
RetirementContinues ==
  LET left == Retirable(Expired) IN
  left # {} /\ (\A t \in Expired \ left : tender[t].status = "ARCHIVED") =>
    \E W \in SUBSET Expired : Candidates(W) /\ Retirable(W) # {}

\* RetirementOutcome: "a document marked purged whose bytes survive would be a lie".
PurgedFileIsGone == \A d \in Docs : doc[d].purged => disk[d] = None

\* mark_purged "keeps sha256, file_size, file_name, source_url and raw_text":
\* once extracted, a document's text stays on its row.
TextSurvives == [][\A d \in Docs : doc[d].text # None => doc'[d].text # None]_vars

\* Every queued document is eventually downloaded or failed, however often
\* the batch around it is rolled back by a concurrent deletion.
PendingResolves ==
  \A d \in Docs : doc[d].status = "PENDING" ~> doc[d].status # "PENDING"

\* The workflow worker "completes the workflow once bytes are available": a
\* downloaded tender whose document can be read is eventually screened.
ToScreen(t) ==
  tender[t].status = "DOWNLOADED" /\ \E d \in Docs : Oldest(t, d) /\ Readable(d)

DownloadedIsScreened ==
  \A t \in Tenders : ToScreen(t) ~> (result[t] \/ tender[t].status = "DELETED")

\* A newer tender that keeps its place in the batch poll after poll: what it has
\* cannot be read, or a PATCH that began before it was screened takes it back.
KeepsItsPlace(t) == tender[t].status = "DOWNLOADED" /\ (result[t] \/ ~ToScreen(t))

Crowded(t) == Cardinality({s \in Tenders : s > t /\ KeepsItsPlace(s)}) >= WorkflowBatch

\* What is true of it: the worker screens, with or without a refused screen on
\* the way, every downloaded tender it can read, but where newer tenders that
\* keep their places fill its batch, a PATCH has taken the tender back to
\* REGISTERED, where no worker looks for it, or an older document of it arrives
\* late and cannot be read.  Parsing alone does not count.
ScreenedInTurn ==
  \A t \in Tenders :
    ToScreen(t) ~> (\/ result[t]
                    \/ tender[t].status \in {"REGISTERED", "DELETED"}
                    \/ \E d \in Docs : Oldest(t, d) /\ ~Readable(d)
                    \/ Crowded(t))
=============================================================================
