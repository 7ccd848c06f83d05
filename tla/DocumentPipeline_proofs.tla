---------------------- MODULE DocumentPipeline_proofs ----------------------
(***************************************************************************)
(* Theorems about DocumentPipeline, for any tenders, documents, requests   *)
(* and batch size, whatever is in flight beside what: its types, and on    *)
(* them the three invariants below, each in a part of its own.  The last   *)
(* parts are about the tender's lifecycle, which the pipeline implements   *)
(* as long as no stale status is written back.                             *)
(***************************************************************************)
EXTENDS DocumentPipeline, TLAPS

-----------------------------------------------------------------------------
(* Types.  What a process has in hand is there whenever it is about to use *)
(* it: a tender, an entity to write back, documents that belong to some    *)
(* tender.                                                                 *)

\* p has a tender entity that it may write back.
HasEntity(p) ==
  pc[p] \in {"patch", "upload_advance", "extract_advance", "advance", "retire_archive"}

\* p is at work on one of the tenders of its retirement run.
Retiring(p) == pc[p] \in {"retire_purge", "retire_mark", "retire_archive"}

HasTender(p) ==
  HasEntity(p) \/ Retiring(p) \/ pc[p] \in {"upload_add", "extract_store"}

Owned(row) == row # None => row.tender \in Tenders

HandInv ==
  /\ \A p \in Procs : HasTender(p) => at[p] \in Tenders
  /\ \A p \in Procs : HasEntity(p) => ent[p] \in TenderRow
  /\ \A p \in Procs : pc[p] = "download" => base[p] = None
  /\ \A p \in Procs, d \in Docs : Owned(held[p][d]) /\ Owned(txDoc[p][d])
  /\ \A d \in Docs : doc[d].status # "ABSENT" => Owned(doc[d])

TypeInv == TypeOK /\ HandInv

\* None is none of the values it stands beside.
LEMMA NoneApart ==
  None \notin Tenders /\ None \notin Contents /\ None \notin TenderRow /\ None \notin DocRow
  BY PipelineAssumption

\* A merge takes every column from one of two rows, whatever the third was.
LEMMA MergeTender ==
  ASSUME NEW e \in TenderRow, NEW old, NEW row \in TenderRow
  PROVE  /\ Merge(e, old, row) \in TenderRow
         /\ Merge(e, old, row).status \in {e.status, row.status}
<1> DEFINE m == Merge(e, old, row)
<1>1. m = [status |-> m.status, closing |-> m.closing]
  BY DEF Merge, TenderRow
<1>2. m.status \in {e.status, row.status} /\ m.closing \in {e.closing, row.closing}
  BY DEF Merge, TenderRow
<1> HIDE DEF m
<1>3. m \in TenderRow
  BY <1>1, <1>2 DEF TenderRow
<1> QED
  BY <1>2, <1>3 DEF m

\* The same of a document row.
LEMMA MergeDoc ==
  ASSUME NEW e \in DocRow, NEW old, NEW row \in DocRow
  PROVE  /\ Merge(e, old, row) \in DocRow
         /\ Merge(e, old, row).status \in {e.status, row.status}
         /\ Merge(e, old, row).tender \in {e.tender, row.tender}
<1> DEFINE m == Merge(e, old, row)
<1>1. m = [tender |-> m.tender, url |-> m.url, status |-> m.status,
           file |-> m.file, text |-> m.text, purged |-> m.purged]
  BY DEF Merge, DocRow
<1>2. /\ m.tender \in {e.tender, row.tender} /\ m.url \in {e.url, row.url}
      /\ m.status \in {e.status, row.status} /\ m.file \in {e.file, row.file}
      /\ m.text \in {e.text, row.text} /\ m.purged \in {e.purged, row.purged}
  BY DEF Merge, DocRow
<1> HIDE DEF m
<1>3. m \in DocRow
  BY <1>1, <1>2 DEF DocRow
<1> QED
  BY <1>2, <1>3 DEF m

\* Setting the fields the handlers set leaves a row a row.
LEMMA TenderFields ==
  ASSUME NEW e \in TenderRow
  PROVE  /\ \A s \in TenderStatuses \cup NoRow : [e EXCEPT !.status = s] \in TenderRow
         /\ \A c \in ClosingDates : [e EXCEPT !.closing = c] \in TenderRow
  BY DEF TenderRow

LEMMA DocFields ==
  ASSUME NEW e \in DocRow
  PROVE  /\ \A s \in DocumentStatuses \cup NoRow :
              [e EXCEPT !.status = s] \in DocRow /\ [e EXCEPT !.status = s].tender = e.tender
         /\ \A c \in Contents :
              [e EXCEPT !.text = c] \in DocRow /\ [e EXCEPT !.text = c].tender = e.tender
         /\ \A c \in Contents : LET f == [e EXCEPT !.status = "DOWNLOADED", !.file = c] IN
              f \in DocRow /\ f.tender = e.tender
         /\ LET f == [e EXCEPT !.file = None, !.purged = TRUE] IN
              f \in DocRow /\ f.tender = e.tender
  BY DEF DocRow, DocumentStatuses

\* What a process reads of a row that exists is a row.
LEMMA SeenTypes ==
  ASSUME TypeOK, NEW p \in Procs
  PROVE  /\ \A t \in Tenders : SeenTender(p, t) \in TenderRow
         /\ \A d \in Docs : SeenDoc(p, d) \in DocRow
  BY DEF TypeOK, SeenTender, SeenDoc

\* A draft stays a draft.
LEMMA PutTypes ==
  ASSUME TypeOK, NEW p \in Procs
  PROVE  /\ \A t \in Tenders, e \in TenderRow :
              PutTender(p, t, e) \in [Tenders -> TenderRow \cup {None}]
         /\ \A d \in Docs, e \in DocRow :
              PutDoc(p, d, e) \in [Docs -> DocRow \cup {None}]
<1>1. ASSUME NEW t \in Tenders, NEW e \in TenderRow
      PROVE  PutTender(p, t, e) \in [Tenders -> TenderRow \cup {None}]
  <2>1. SeenTender(p, t) \in TenderRow
    BY SeenTypes
  <2>2. Merge(e, Selected(p, SeenTender(p, t)), SeenTender(p, t)) \in TenderRow
    BY <2>1, MergeTender
  <2>3. txTender[p] \in [Tenders -> TenderRow \cup {None}]
    BY DEF TypeOK
  <2> QED
    BY <2>2, <2>3 DEF PutTender
<1>2. ASSUME NEW d \in Docs, NEW e \in DocRow
      PROVE  PutDoc(p, d, e) \in [Docs -> DocRow \cup {None}]
  <2>1. SeenDoc(p, d) \in DocRow
    BY SeenTypes
  <2>2. Merge(e, Selected(p, SeenDoc(p, d)), SeenDoc(p, d)) \in DocRow
    BY <2>1, MergeDoc
  <2>3. txDoc[p] \in [Docs -> DocRow \cup {None}]
    BY DEF TypeOK
  <2> QED
    BY <2>2, <2>3 DEF PutDoc
<1> QED
  BY <1>1, <1>2

-----------------------------------------------------------------------------
(* The types after a commit, a rollback, the end of a request, the next call. *)

RowTypes ==
  /\ tender \in [Tenders -> TenderRow]
  /\ doc \in [Docs -> DocRow]
  /\ meta \in [Tenders -> Contents \cup {None}]

DraftTypes ==
  /\ txTender \in [Procs -> [Tenders -> TenderRow \cup {None}]]
  /\ txDoc \in [Procs -> [Docs -> DocRow \cup {None}]]
  /\ txMeta \in [Procs -> [Tenders -> Contents \cup {None}]]

FileTypes ==
  /\ result \in [Tenders -> BOOLEAN]
  /\ disk \in [Docs -> Contents \cup {None}]

PlaceTypes ==
  /\ pc \in [Procs -> Places]
  /\ base \in [Procs -> TenderRow \cup DocRow \cup {None}]

LocalTypes ==
  /\ at \in [Procs -> Tenders \cup {None}]
  /\ ent \in [Procs -> TenderRow \cup {None}]
  /\ held \in [Procs -> [Docs -> DocRow \cup {None}]]
  /\ todo \in [Procs -> SUBSET Tenders]

\* The groups are the whole of TypeOK.
LEMMA TypeGroups ==
  TypeOK <=> RowTypes /\ DraftTypes /\ FileTypes /\ PlaceTypes /\ LocalTypes
  BY DEF TypeOK, RowTypes, DraftTypes, FileTypes, PlaceTypes, LocalTypes

\* The documents a commit publishes, and the drafts it leaves, belong to tenders.
OwnedRows ==
  /\ \A d \in Docs : doc[d].status # "ABSENT" => Owned(doc[d])
  /\ \A q \in Procs, d \in Docs : Owned(txDoc[q][d])

LEMMA CommitTypes ==
  ASSUME TypeInv, NEW p \in Procs,
         NEW tw \in [Tenders -> TenderRow \cup {None}],
         NEW dw \in [Docs -> DocRow \cup {None}], \A d \in Docs : Owned(dw[d]),
         NEW mw \in [Tenders -> Contents \cup {None}],
         CommitDrafts(p, tw, dw, mw)
  PROVE  RowTypes' /\ DraftTypes' /\ OwnedRows'
<1> USE DEF TypeInv
<1>1. RowTypes'
  BY NoneApart DEF TypeOK, CommitDrafts, RowTypes
<1>2. DraftTypes'
  BY DEF TypeOK, CommitDrafts, DraftTypes, NoTenders, NoDocs
<1>3. OwnedRows'
  BY DEF TypeOK, HandInv, CommitDrafts, OwnedRows, Owned, NoDocs
<1> QED
  BY <1>1, <1>2, <1>3

\* Nothing but p's drafts changes when p rolls back.
LEMMA RollbackTypes ==
  ASSUME TypeInv, NEW p \in Procs, Rollback(p)
  PROVE  RowTypes' /\ DraftTypes' /\ OwnedRows'
<1> USE DEF TypeInv
<1>1. RowTypes'
  BY DEF TypeOK, Rollback, RowTypes
<1>2. DraftTypes'
  BY DEF TypeOK, Rollback, DraftTypes, NoTenders, NoDocs
<1>3. OwnedRows'
  BY DEF TypeOK, HandInv, Rollback, OwnedRows, Owned, NoDocs
<1> QED
  BY <1>1, <1>2, <1>3

\* A process that has nothing more to do has nothing in hand.
HandsOK ==
  /\ \A p \in Procs : HasTender(p) => at[p] \in Tenders
  /\ \A p \in Procs : HasEntity(p) => ent[p] \in TenderRow
  /\ \A p \in Procs : pc[p] = "download" => base[p] = None
  /\ \A p \in Procs, d \in Docs : Owned(held[p][d])

LEMMA FinishTypes ==
  ASSUME TypeInv, NEW p \in Procs, Finish(p)
  PROVE  PlaceTypes' /\ LocalTypes' /\ HandsOK'
<1> USE DEF TypeInv
<1>1. PlaceTypes'
  BY DEF TypeOK, Finish, PlaceTypes, Places
<1>2. LocalTypes'
  BY DEF TypeOK, Finish, LocalTypes, NoDocs
<1>3. HandsOK'
  BY DEF TypeOK, HandInv, HandsOK, Finish, HasTender, HasEntity, Retiring, Owned, NoDocs
<1> QED
  BY <1>1, <1>2, <1>3

\* The groups are the whole of the invariant.
LEMMA Groups ==
  TypeInv <=> /\ RowTypes /\ DraftTypes /\ FileTypes /\ PlaceTypes /\ LocalTypes
              /\ OwnedRows /\ HandsOK
  BY TypeGroups DEF TypeInv, HandInv, OwnedRows, HandsOK

\* A request that ends by a commit or a rollback keeps the invariant.
LEMMA EndTypes ==
  ASSUME TypeInv, NEW p \in Procs, Finish(p),
         RowTypes', DraftTypes', OwnedRows', FileTypes'
  PROVE  TypeInv'
  BY FinishTypes, Groups, PTL

LEMMA FailTypes ==
  ASSUME TypeInv, NEW p \in Procs, Fail(p)
  PROVE  TypeInv'
<1>1. FileTypes'
  BY DEF Fail, FileTypes, TypeInv, TypeOK
<1> QED
  BY <1>1, EndTypes, RollbackTypes DEF Fail

-----------------------------------------------------------------------------
(* What an action of each kind has still to show. *)

Rest == PlaceTypes /\ LocalTypes /\ HandsOK

\* An action that touches the rows alone.
LEMMA RowStep ==
  ASSUME TypeInv, RowTypes', FileTypes', OwnedRows', UNCHANGED <<tx, local>>
  PROVE  TypeInv'
<1>1. DraftTypes' /\ PlaceTypes' /\ LocalTypes' /\ HandsOK'
  BY DEF TypeInv, TypeOK, HandInv, DraftTypes, PlaceTypes, LocalTypes, HandsOK, tx, local,
         HasTender, HasEntity, Retiring, Owned
<1> QED
  BY <1>1, Groups, PTL

\* An action of which only its process will know.
LEMMA LocalStep ==
  ASSUME TypeInv, Rest', UNCHANGED <<db, disk, tx>>
  PROVE  TypeInv'
<1>1. RowTypes' /\ DraftTypes' /\ FileTypes' /\ OwnedRows'
  BY DEF TypeInv, TypeOK, HandInv, RowTypes, DraftTypes, FileTypes, OwnedRows, db, tx, Owned
<1> QED
  BY <1>1, Groups, PTL DEF Rest

\* An action that stores a file.
LEMMA FileStep ==
  ASSUME TypeInv, Rest', UNCHANGED <<db, tx>>, disk' \in [Docs -> Contents \cup {None}]
  PROVE  TypeInv'
<1>1. RowTypes' /\ DraftTypes' /\ FileTypes' /\ OwnedRows'
  BY DEF TypeInv, TypeOK, HandInv, RowTypes, DraftTypes, FileTypes, OwnedRows, db, tx, Owned
<1> QED
  BY <1>1, Groups, PTL DEF Rest

\* An action that writes drafts.
LEMMA DraftStep ==
  ASSUME TypeInv, Rest', UNCHANGED db, disk' \in [Docs -> Contents \cup {None}], DraftTypes',
         \A q \in Procs, d \in Docs : Owned(txDoc[q][d])'
  PROVE  TypeInv'
<1>1. RowTypes' /\ FileTypes' /\ OwnedRows'
  BY DEF TypeInv, TypeOK, HandInv, RowTypes, FileTypes, OwnedRows, db, Owned
<1> QED
  BY <1>1, Groups, PTL DEF Rest

-----------------------------------------------------------------------------
(* Calls several actions make. *)

\* update() of a document puts a row of the same tenders into the draft.
LEMMA PutOwned ==
  ASSUME TypeInv, NEW p \in Procs, NEW d \in Docs, NEW e \in DocRow, e.tender \in Tenders,
         Exists(doc[d]) \/ base[p] = None
  PROVE  \A f \in Docs : Owned(PutDoc(p, d, e)[f])
<1> DEFINE row == SeenDoc(p, d)
           m == Merge(e, Selected(p, row), row)
<1>1. row \in DocRow
  BY SeenTypes DEF TypeInv
<1>2. m.tender \in Tenders
  <2>1. CASE row.tender \in Tenders
    BY <1>1, <2>1, MergeDoc
  <2>2. CASE row.tender \notin Tenders
    <3>1. ~Exists(doc[d])
      BY <2>2, NoneApart DEF SeenDoc, TypeInv, TypeOK, HandInv, Owned, Exists, NoRow
    <3>2. Selected(p, row) = row
      BY <3>1 DEF Selected
    <3> QED
      BY <1>1, <2>2, <3>2 DEF Merge, DocRow
  <2> QED
    BY <2>1, <2>2
<1> QED
  BY <1>2 DEF PutDoc, Owned, TypeInv, TypeOK, HandInv

\* What the workers make of a document in hand is a row of the same tender.
LEMMA HeldFields ==
  ASSUME TypeInv, NEW p \in Procs, NEW d \in Docs, Holds(p, d)
  PROVE  /\ held[p][d] \in DocRow /\ held[p][d].tender \in Tenders
         /\ \A s \in DocumentStatuses : LET e == [held[p][d] EXCEPT !.status = s] IN
              e \in DocRow /\ e.tender \in Tenders
         /\ \A c \in Contents :
              LET e == [held[p][d] EXCEPT !.status = "DOWNLOADED", !.file = c] IN
              e \in DocRow /\ e.tender \in Tenders
<1>1. held[p][d] \in DocRow /\ held[p][d].tender \in Tenders
  BY DEF Holds, TypeInv, TypeOK, HandInv, Owned
<1> QED
  BY <1>1, DocFields

LEMMA UpdateDocTypes ==
  ASSUME TypeInv, NEW p \in Procs, NEW d \in Docs, NEW e \in DocRow, e.tender \in Tenders,
         Exists(doc[d]) \/ base[p] = None,
         UpdateDoc(p, d, e), UNCHANGED <<txTender, txMeta>>
  PROVE  DraftTypes' /\ \A q \in Procs, f \in Docs : Owned(txDoc[q][f])'
<1>1. PutDoc(p, d, e) \in [Docs -> DocRow \cup {None}]
  BY PutTypes DEF TypeInv
<1>2. \A f \in Docs : Owned(PutDoc(p, d, e)[f])
  BY PutOwned
<1>3. DraftTypes'
  BY <1>1 DEF UpdateDoc, DraftTypes, TypeInv, TypeOK
<1> QED
  BY <1>2, <1>3 DEF UpdateDoc, TypeInv, TypeOK, HandInv

LEMMA UpdateTenderTypes ==
  ASSUME TypeInv, NEW p \in Procs, NEW t \in Tenders, NEW e \in TenderRow,
         UpdateTender(p, t, e), UNCHANGED <<txDoc, txMeta>>
  PROVE  DraftTypes' /\ \A q \in Procs, f \in Docs : Owned(txDoc[q][f])'
<1>1. PutTender(p, t, e) \in [Tenders -> TenderRow \cup {None}]
  BY PutTypes DEF TypeInv
<1> QED
  BY <1>1 DEF UpdateTender, DraftTypes, TypeInv, TypeOK, HandInv, Owned

LEMMA ReadDocumentTypes ==
  ASSUME TypeInv, NEW p \in Procs, NEW t \in Tenders, NEW d \in Docs, ReadDocument(p, t, d)
  PROVE  TypeInv'
<1>1. disk[d] \in Contents /\ doc[d].tender = t
  BY DEF ReadDocument, Readable, Selectable, TypeInv, TypeOK
<1>2. [doc[d] EXCEPT !.text = disk[d]] \in DocRow /\ [doc[d] EXCEPT !.text = disk[d]].tender = t
  BY <1>1, DocFields DEF TypeInv, TypeOK
<1>3. Rest'
  BY <1>2 DEF ReadDocument, Keep, Goto, Places, NoDocs, TypeInv, TypeOK, HandInv, Rest, PlaceTypes,
              LocalTypes, HandsOK, HasTender, HasEntity, Retiring, Owned
<1> QED
  BY <1>3, LocalStep DEF ReadDocument

-----------------------------------------------------------------------------
(* Each action keeps the types. *)

LEMMA DirectTypes == TypeInv /\ DirectStep => TypeInv'
<1> SUFFICES ASSUME TypeInv, DirectStep PROVE TypeInv'
  OBVIOUS
<1> USE DEF TypeInv, TypeOK, RowTypes, FileTypes, OwnedRows, HandInv, Owned, tx
<1>1. ASSUME NEW t \in Tenders, NEW c \in Closings, CreateTender(t, c) PROVE TypeInv'
  <2>1. RowTypes' /\ FileTypes' /\ OwnedRows'
    BY <1>1, PipelineAssumption DEF CreateTender, TenderRow, TenderStatuses
  <2> QED
    BY <1>1, <2>1, RowStep DEF CreateTender
<1>2. ASSUME NEW t \in Tenders, NEW d \in Docs, AddFromUrl(t, d) PROVE TypeInv'
  <2>1. RowTypes' /\ FileTypes' /\ OwnedRows'
    BY <1>2 DEF AddFromUrl, DocRow, DocumentStatuses
  <2> QED
    BY <1>2, <2>1, RowStep DEF AddFromUrl
<1>3. ASSUME NEW t \in Tenders, DeleteTender(t) PROVE TypeInv'
  <2>1. RowTypes'
    BY <1>3, TenderFields, DocFields DEF DeleteTender, NoRow
  <2>2. FileTypes'
    BY <1>3 DEF DeleteTender
  <2>3. OwnedRows'
    <3>1. \A d \in Docs : doc'[d].tender = doc[d].tender /\ (doc'[d].status # "ABSENT" =>
             doc[d].status # "ABSENT" \/ doc[d].tender = t)
      BY <1>3, DocFields DEF DeleteTender, NoRow
    <3> QED
      BY <1>3, <3>1, NoneApart DEF DeleteTender
  <2> QED
    BY <1>3, <2>1, <2>2, <2>3, RowStep DEF DeleteTender
<1>4. ASSUME NEW t \in Tenders, Screen(t) PROVE TypeInv'
  <2>1. RowTypes' /\ FileTypes' /\ OwnedRows'
    BY <1>4 DEF Screen
  <2> QED
    BY <1>4, <2>1, RowStep DEF Screen
<1> QED
  BY <1>1, <1>2, <1>3, <1>4 DEF DirectStep

LEMMA RequestTypes == ASSUME NEW p \in Requests PROVE TypeInv /\ RequestStep(p) => TypeInv'
<1> SUFFICES ASSUME TypeInv, RequestStep(p) PROVE TypeInv'
  OBVIOUS
<1> p \in Procs
  BY DEF Procs
<1> USE DEF TypeInv, TypeOK, HandInv, Rest, PlaceTypes, LocalTypes, HandsOK, HasTender, HasEntity,
            Retiring, Owned, Goto, Places
<1>1. ASSUME NEW t \in Tenders, NEW c \in Closings, PatchRead(p, t, c) PROVE TypeInv'
  <2>1. [tender[t] EXCEPT !.closing = c] \in TenderRow
    BY PipelineAssumption, TenderFields
  <2>2. Rest'
    BY <1>1, <2>1 DEF PatchRead
  <2> QED
    BY <1>1, <2>2, LocalStep DEF PatchRead
<1>2. ASSUME PatchWrite(p) PROVE TypeInv'
  <2>1. at[p] \in Tenders /\ ent[p] \in TenderRow
    BY <1>2 DEF PatchWrite
  <2>2. CASE Exists(tender[at[p]])
    <3>1. FileTypes' /\ Finish(p) /\ CommitDrafts(p, PutTender(p, at[p], ent[p]), txDoc[p], txMeta[p])
      BY <1>2, <2>2 DEF PatchWrite, FileTypes
    <3>2. RowTypes' /\ DraftTypes' /\ OwnedRows'
      BY <2>1, <3>1, PutTypes, CommitTypes
    <3> QED
      BY <3>1, <3>2, EndTypes
  <2>3. CASE ~Exists(tender[at[p]])
    BY <1>2, <2>3, FailTypes DEF PatchWrite
  <2> QED
    BY <2>2, <2>3
<1>3. ASSUME NEW t \in Tenders, NEW d \in Docs, NEW c \in Contents, UploadStore(p, t, d, c)
      PROVE TypeInv'
  <2>1. Rest'
    BY <1>3 DEF UploadStore, Keep, NoDocs, DocRow, DocumentStatuses
  <2>2. disk' \in [Docs -> Contents \cup {None}]
    BY <1>3 DEF UploadStore
  <2> QED
    BY <1>3, <2>1, <2>2, FileStep DEF UploadStore
<1>4. ASSUME NEW d \in Docs, UploadAdd(p, d) PROVE TypeInv'
  <2>1. at[p] \in Tenders
    BY <1>4 DEF UploadAdd
  <2>2. CASE Exists(tender[at[p]])
    <3>1. /\ held[p][d] # None
          /\ txDoc' = [txDoc EXCEPT ![p][d] = held[p][d]]
          /\ ent' = [ent EXCEPT ![p] = tender[at[p]]]
          /\ Goto(p, "upload_advance")
          /\ UNCHANGED <<db, disk, txTender, txMeta, at, held, todo>>
      BY <1>4, <2>2 DEF UploadAdd, Holds
    <3>2. Rest'
      BY <2>1, <3>1
    <3>3. DraftTypes' /\ \A q \in Procs, f \in Docs : Owned(txDoc[q][f])'
      BY <3>1 DEF DraftTypes
    <3> QED
      BY <3>1, <3>2, <3>3, DraftStep
  <2>3. CASE ~Exists(tender[at[p]])
    BY <1>4, <2>3, FailTypes DEF UploadAdd
  <2> QED
    BY <2>2, <2>3
<1>5. ASSUME UploadAdvance(p) PROVE TypeInv'
  <2> DEFINE e == [ent[p] EXCEPT !.status = "DOWNLOADED"]
  <2>1. at[p] \in Tenders /\ e \in TenderRow
    BY <1>5, TenderFields DEF UploadAdvance, TenderStatuses
  <2>2. Finish(p) /\ FileTypes'
    BY <1>5 DEF UploadAdvance, FileTypes
  <2>3. CASE Rollback(p)
    BY <2>2, <2>3, RollbackTypes, EndTypes
  <2>4. CASE Commit(p)
    BY <2>2, <2>4, CommitTypes, EndTypes DEF Commit
  <2>5. CASE CommitDrafts(p, PutTender(p, at[p], e), txDoc[p], txMeta[p])
    BY <2>1, <2>2, <2>5, PutTypes, CommitTypes, EndTypes
  <2> QED
    BY <1>5, <2>3, <2>4, <2>5 DEF UploadAdvance
<1>6. ASSUME NEW d \in Docs, RetriggerRead(p, d) PROVE TypeInv'
  <2>1. [doc[d] EXCEPT !.status = "PENDING"] \in DocRow
        /\ [doc[d] EXCEPT !.status = "PENDING"].tender = doc[d].tender
    BY DocFields DEF DocumentStatuses
  <2>2. doc[d].tender \in Tenders
    BY <1>6, NoneApart DEF RetriggerRead, Exists, NoRow
  <2>3. Rest'
    BY <1>6, <2>1, <2>2 DEF RetriggerRead, Keep, NoDocs
  <2> QED
    BY <1>6, <2>3, LocalStep DEF RetriggerRead
<1>7. ASSUME NEW d \in Docs, RetriggerWrite(p, d) PROVE TypeInv'
  <2>1. held[p][d] \in DocRow /\ held[p][d].tender \in Tenders
    BY <1>7 DEF RetriggerWrite, Holds
  <2>2. CASE Exists(doc[d])
    <3>1. FileTypes' /\ Finish(p) /\ CommitDrafts(p, txTender[p], PutDoc(p, d, held[p][d]), txMeta[p])
      BY <1>7, <2>2 DEF RetriggerWrite, FileTypes
    <3>2. \A f \in Docs : Owned(PutDoc(p, d, held[p][d])[f])
      BY <2>1, <2>2, PutOwned
    <3>3. RowTypes' /\ DraftTypes' /\ OwnedRows'
      BY <2>1, <3>1, <3>2, PutTypes, CommitTypes
    <3> QED
      BY <3>1, <3>3, EndTypes
  <2>3. CASE ~Exists(doc[d])
    BY <1>7, <2>3, FailTypes DEF RetriggerWrite
  <2> QED
    BY <2>2, <2>3
<1>8. ASSUME NEW t \in Tenders, NEW d \in Docs, Extract(p, t, d) PROVE TypeInv'
  BY <1>8, ReadDocumentTypes DEF Extract
<1>9. ASSUME NEW W \in SUBSET Tenders, NEW S \in SUBSET Tenders, RetirePlan(p, W, S) PROVE TypeInv'
  <2>1. Rest'
    BY <1>9 DEF RetirePlan
  <2> QED
    BY <1>9, <2>1, LocalStep DEF RetirePlan
<1>10. ASSUME NEW t \in Tenders, RetireList(p, t) PROVE TypeInv'
  <2>1. \A d \in Docs : doc[d].tender = t => SeenDoc(p, d) \in DocRow /\ SeenDoc(p, d).tender \in Tenders
    BY SeenTypes, NoneApart DEF SeenDoc
  <2>2. Rest'
    BY <1>10, <2>1 DEF RetireList
  <2> QED
    BY <1>10, <2>2, LocalStep DEF RetireList
<1>11. ASSUME NEW d \in Docs, RetireUnlink(p, d) PROVE TypeInv'
  <2>1. Rest'
    BY <1>11 DEF RetireUnlink
  <2>2. disk' \in [Docs -> Contents \cup {None}]
    BY <1>11 DEF RetireUnlink
  <2> QED
    BY <1>11, <2>1, <2>2, FileStep DEF RetireUnlink
<1>12. ASSUME NEW d \in Docs, RetireUnlinkFails(p, d) PROVE TypeInv'
  <2>1. Rest'
    BY <1>12 DEF RetireUnlinkFails, Drop
  <2> QED
    BY <1>12, <2>1, LocalStep DEF RetireUnlinkFails
<1>13. ASSUME NEW d \in Docs, RetireMark(p, d) PROVE TypeInv'
  <2> DEFINE e == [held[p][d] EXCEPT !.file = None, !.purged = TRUE]
  <2>1. e \in DocRow /\ e.tender \in Tenders
    <3>1. held[p][d] \in DocRow /\ held[p][d].tender \in Tenders
      BY <1>13 DEF RetireMark, First, Holds
    <3> QED
      BY <3>1, DocFields
  <2>2. CASE Exists(doc[d])
    <3>1. /\ UpdateDoc(p, d, e) /\ pc[p] = "retire_mark"
          /\ held' = [held EXCEPT ![p][d] = None]
          /\ Goto(p, "retire_purge")
          /\ UNCHANGED <<db, disk, txTender, txMeta, at, ent, todo>>
      BY <1>13, <2>2 DEF RetireMark, Drop
    <3>2. Rest'
      BY <3>1
    <3>3. DraftTypes' /\ \A q \in Procs, f \in Docs : Owned(txDoc[q][f])'
      BY <2>1, <2>2, <3>1, UpdateDocTypes
    <3> QED
      BY <3>1, <3>2, <3>3, DraftStep
  <2>3. CASE ~Exists(doc[d])
    BY <1>13, <2>3, FailTypes DEF RetireMark
  <2> QED
    BY <2>2, <2>3
<1>14. ASSUME RetireRead(p) PROVE TypeInv'
  <2>1. at[p] \in Tenders /\ SeenTender(p, at[p]) \in TenderRow
    BY <1>14, SeenTypes DEF RetireRead
  <2>2. \/ /\ Goto(p, "retire_archive")
           /\ ent' = [ent EXCEPT ![p] = SeenTender(p, at[p])] /\ UNCHANGED todo
        \/ /\ Goto(p, "retire_next")
           /\ todo' = [todo EXCEPT ![p] = @ \ {at[p]}] /\ UNCHANGED ent
    BY <1>14 DEF RetireRead
  <2>3. UNCHANGED <<db, disk, tx, at, held>>
    BY <1>14 DEF RetireRead
  <2>4. Rest'
    <3>1. PlaceTypes'
      BY <2>2
    <3>2. LocalTypes'
      <4>1. ent' \in [Procs -> TenderRow \cup {None}]
        BY <2>1, <2>2
      <4>2. todo[p] \ {at[p]} \in SUBSET Tenders
        OBVIOUS
      <4>3. UNCHANGED todo \/ todo' = [todo EXCEPT ![p] = todo[p] \ {at[p]}]
        BY <2>2
      <4>4. todo' \in [Procs -> SUBSET Tenders]
        BY <4>2, <4>3
      <4> QED
        BY <2>3, <4>1, <4>4
    <3>3. HandsOK'
      BY <2>1, <2>2, <2>3
    <3> QED
      BY <3>1, <3>2, <3>3
  <2> QED
    BY <2>3, <2>4, LocalStep
<1>15. ASSUME RetireArchive(p) PROVE TypeInv'
  <2>1. at[p] \in Tenders /\ [ent[p] EXCEPT !.status = "ARCHIVED"] \in TenderRow
    BY <1>15, TenderFields DEF RetireArchive, TenderStatuses
  <2>2. CASE Exists(tender[at[p]])
    <3>1. /\ UpdateTender(p, at[p], [ent[p] EXCEPT !.status = "ARCHIVED"])
          /\ Goto(p, "retire_next")
          /\ todo' = [todo EXCEPT ![p] = @ \ {at[p]}]
          /\ UNCHANGED <<db, disk, txDoc, txMeta, at, ent, held>>
      BY <1>15, <2>2 DEF RetireArchive
    <3>2. Rest'
      BY <3>1
    <3>3. DraftTypes' /\ \A q \in Procs, f \in Docs : Owned(txDoc[q][f])'
      BY <2>1, <3>1, UpdateTenderTypes
    <3> QED
      BY <3>1, <3>2, <3>3, DraftStep
  <2>3. CASE ~Exists(tender[at[p]])
    BY <1>15, <2>3, FailTypes DEF RetireArchive
  <2> QED
    BY <2>2, <2>3
<1>16. ASSUME RetireCommit(p) PROVE TypeInv'
  <2>1. FileTypes'
    BY <1>16 DEF RetireCommit, FileTypes
  <2> QED
    BY <1>16, <2>1, CommitTypes, EndTypes DEF RetireCommit, Commit
<1> QED
  BY <1>1, <1>2, <1>3, <1>4, <1>5, <1>6, <1>7, <1>8, <1>9, <1>10, <1>11, <1>12, <1>13, <1>14,
     <1>15, <1>16 DEF RequestStep

LEMMA ExtractTypes ==
  ASSUME NEW p \in Requests \cup {Workflow} PROVE TypeInv /\ ExtractStep(p) => TypeInv'
<1> SUFFICES ASSUME TypeInv, ExtractStep(p) PROVE TypeInv'
  OBVIOUS
<1> p \in Procs
  BY DEF Procs
<1> USE DEF TypeInv, TypeOK, HandInv, Rest, PlaceTypes, LocalTypes, HandsOK, HasTender, HasEntity,
            Retiring, Owned, Goto, Places
<1>1. ASSUME NEW d \in Docs, ExtractStore(p, d) PROVE TypeInv'
  <2> DEFINE t == at[p]
  <2>1. t \in Tenders /\ held[p][d] \in DocRow /\ held[p][d].tender \in Tenders
    BY <1>1 DEF ExtractStore, Holds
  <2>2. SeenTender(p, t) \in TenderRow
    BY <2>1, SeenTypes
  <2>3. CASE Fail(p)
    BY <2>3, FailTypes
  <2>4. CASE ~Fail(p)
    <3>1. /\ Exists(doc[d])
          /\ txMeta' = IF meta[t] = held[p][d].text THEN txMeta
                       ELSE [txMeta EXCEPT ![p][t] = held[p][d].text]
          /\ UpdateDoc(p, d, held[p][d])
          /\ ent' = [ent EXCEPT ![p] = SeenTender(p, t)]
          /\ Goto(p, "extract_advance")
          /\ UNCHANGED <<db, disk, txTender, at, held, todo>>
      BY <1>1, <2>4 DEF ExtractStore
    <3>2. Rest'
      BY <2>1, <2>2, <3>1
    <3>3. PutDoc(p, d, held[p][d]) \in [Docs -> DocRow \cup {None}]
          /\ \A f \in Docs : Owned(PutDoc(p, d, held[p][d])[f])
      BY <2>1, <3>1, PutTypes, PutOwned
    <3>4. held[p][d].text \in Contents \cup {None}
      BY <2>1 DEF DocRow
    <3>5. DraftTypes'
      BY <2>1, <3>1, <3>3, <3>4 DEF UpdateDoc, DraftTypes
    <3>6. \A q \in Procs, f \in Docs : Owned(txDoc[q][f])'
      BY <3>1, <3>3 DEF UpdateDoc
    <3> QED
      BY <3>1, <3>2, <3>5, <3>6, DraftStep
  <2> QED
    BY <2>3, <2>4
<1>2. ASSUME ExtractAdvance(p) PROVE TypeInv'
  <2> DEFINE parsed == [ent[p] EXCEPT !.status = "PARSED"]
             advances == Exists(ent[p]) /\ CanTransition(ent[p].status, "PARSED")
  <2>1. at[p] \in Tenders /\ parsed \in TenderRow
    BY <1>2, TenderFields DEF ExtractAdvance, TenderStatuses
  <2>2. Finish(p) /\ FileTypes'
    BY <1>2, <2>1 DEF ExtractAdvance, FileTypes
  <2>3. CASE Rollback(p)
    BY <2>2, <2>3, RollbackTypes, EndTypes
  <2>4. CASE ~Rollback(p)
    <3>1. CommitDrafts(p, IF advances THEN PutTender(p, at[p], parsed) ELSE txTender[p],
                       txDoc[p], txMeta[p])
      BY <1>2, <2>4 DEF ExtractAdvance
    <3>2. (IF advances THEN PutTender(p, at[p], parsed) ELSE txTender[p])
            \in [Tenders -> TenderRow \cup {None}]
      BY <2>1, PutTypes
    <3>3. RowTypes' /\ DraftTypes' /\ OwnedRows'
      BY <3>1, <3>2, CommitTypes
    <3> QED
      BY <2>2, <3>3, EndTypes
  <2> QED
    BY <2>3, <2>4
<1> QED
  BY <1>1, <1>2 DEF ExtractStep

LEMMA WorkflowTypes == TypeInv /\ WorkflowStep => TypeInv'
<1> SUFFICES ASSUME TypeInv, WorkflowStep PROVE TypeInv'
  OBVIOUS
<1> Workflow \in Procs
  BY DEF Procs
<1> USE DEF TypeInv, TypeOK, HandInv, Rest, PlaceTypes, LocalTypes, HandsOK, HasTender, HasEntity,
            Retiring, Owned, Goto, Places
<1>1. CASE WorkflowFetch
  <2>1. Rest'
    BY <1>1 DEF WorkflowFetch, DownloadedTenders
  <2> QED
    BY <1>1, <2>1, LocalStep DEF WorkflowFetch
<1>2. ASSUME NEW t \in Tenders, NEW d \in Docs, WorkflowExtract(t, d) PROVE TypeInv'
  BY <1>2, ReadDocumentTypes DEF WorkflowExtract
<1>3. ASSUME NEW t \in Tenders, WorkflowSkip(t) PROVE TypeInv'
  <2>1. Rest'
    BY <1>3 DEF WorkflowSkip
  <2> QED
    BY <1>3, <2>1, LocalStep DEF WorkflowSkip
<1>4. CASE WorkflowDone
  <2>1. Rest'
    BY <1>4 DEF WorkflowDone
  <2> QED
    BY <1>4, <2>1, LocalStep DEF WorkflowDone
<1> QED
  BY <1>1, <1>2, <1>3, <1>4 DEF WorkflowStep

LEMMA DownloadTypes == TypeInv /\ DownloadStep => TypeInv'
<1> SUFFICES ASSUME TypeInv, DownloadStep PROVE TypeInv'
  OBVIOUS
<1> PICK p : p = Downloader /\ p \in Procs
  BY DEF Procs
<1> USE DEF TypeInv, TypeOK, HandInv, Rest, PlaceTypes, LocalTypes, HandsOK, HasTender, HasEntity,
            Retiring, Owned, Goto, Places
<1>1. CASE DownloadFetch
  <2>1. \A d \in PendingDocs : doc[d] \in DocRow /\ doc[d].tender \in Tenders
    <3> TAKE d \in PendingDocs
    <3>1. d \in Docs /\ doc[d] \in DocRow /\ doc[d].status # "ABSENT"
      BY DEF PendingDocs
    <3> QED
      BY <3>1, NoneApart
  <2>2. Rest'
    BY <1>1, <2>1 DEF DownloadFetch
  <2> QED
    BY <1>1, <2>2, LocalStep DEF DownloadFetch
<1>2. ASSUME NEW d \in Docs, DownloadStart(d) PROVE TypeInv'
  <2> DEFINE s == IF held[p][d].url THEN "DOWNLOADING" ELSE "FAILED"
             e == [held[p][d] EXCEPT !.status = s]
  <2>1. Holds(p, d)
    BY <1>2 DEF DownloadStart, First
  <2>2. e \in DocRow /\ e.tender \in Tenders
    <3>1. s \in DocumentStatuses
      BY DEF DocumentStatuses
    <3> HIDE DEF s
    <3> QED
      BY <2>1, <3>1, HeldFields
  <2>3. CASE Exists(doc[d])
    <3>1. /\ UpdateDoc(p, d, e)
          /\ \/ Goto(p, "download") /\ UNCHANGED held
             \/ Goto(p, "batch") /\ held' = [held EXCEPT ![p][d] = None]
          /\ UNCHANGED <<db, disk, txTender, txMeta, at, ent, todo>>
      BY <1>2, <2>3 DEF DownloadStart, Drop
    <3>2. Rest'
      <4> HIDE DEF e, s
      <4>1. CASE Goto(p, "download") /\ UNCHANGED held
        BY <3>1, <4>1
      <4>2. CASE Goto(p, "batch") /\ held' = [held EXCEPT ![p][d] = None]
        BY <3>1, <4>2
      <4> QED
        BY <3>1, <4>1, <4>2
    <3>3. DraftTypes' /\ \A q \in Procs, f \in Docs : Owned(txDoc[q][f])'
      BY <2>2, <2>3, <3>1, UpdateDocTypes
    <3> QED
      BY <3>1, <3>2, <3>3, DraftStep
  <2>4. CASE ~Exists(doc[d])
    BY <1>2, <2>4, FailTypes DEF DownloadStart
  <2> QED
    BY <2>3, <2>4
<1>3. ASSUME NEW d \in Docs, NEW c \in Contents, DownloadSave(d, c) PROVE TypeInv'
  <2> DEFINE e == [held[p][d] EXCEPT !.status = "DOWNLOADED", !.file = c]
             t == held[p][d].tender
  <2>1. Holds(p, d) /\ base[p] = None
    BY <1>3 DEF DownloadSave, First
  <2>2. t \in Tenders /\ e \in DocRow /\ e.tender \in Tenders /\ SeenTender(p, t) \in TenderRow
    BY <2>1, HeldFields, SeenTypes
  <2>3. /\ UpdateDoc(p, d, e)
        /\ disk' = [disk EXCEPT ![d] = c]
        /\ at' = [at EXCEPT ![p] = t]
        /\ ent' = [ent EXCEPT ![p] = SeenTender(p, t)]
        /\ Goto(p, "advance")
        /\ held' = [held EXCEPT ![p][d] = e]
        /\ UNCHANGED <<db, txTender, txMeta, todo>>
    BY <1>3 DEF DownloadSave
  <2>4. Rest'
    BY <2>1, <2>2, <2>3
  <2>5. DraftTypes' /\ \A q \in Procs, f \in Docs : Owned(txDoc[q][f])'
    BY <2>1, <2>2, <2>3, UpdateDocTypes
  <2> QED
    BY <2>3, <2>4, <2>5, DraftStep
<1>4. ASSUME NEW d \in Docs, DownloadFail(d) PROVE TypeInv'
  <2> DEFINE e == [held[p][d] EXCEPT !.status = "FAILED"]
  <2>1. Holds(p, d) /\ base[p] = None
    BY <1>4 DEF DownloadFail, First
  <2>2. e \in DocRow /\ e.tender \in Tenders
    BY <2>1, HeldFields DEF DocumentStatuses
  <2>3. /\ UpdateDoc(p, d, e)
        /\ Goto(p, "batch")
        /\ held' = [held EXCEPT ![p][d] = None]
        /\ UNCHANGED <<db, disk, txTender, txMeta, at, ent, todo>>
    BY <1>4 DEF DownloadFail, Drop
  <2>4. Rest'
    BY <2>3
  <2>5. DraftTypes' /\ \A q \in Procs, f \in Docs : Owned(txDoc[q][f])'
    BY <2>1, <2>2, <2>3, UpdateDocTypes
  <2> QED
    BY <2>3, <2>4, <2>5, DraftStep
<1>5. ASSUME NEW d \in Docs, DownloadAdvance(d) PROVE TypeInv'
  <2> DEFINE advanced == [ent[p] EXCEPT !.status = "DOWNLOADED"]
  <2>1. at[p] \in Tenders /\ advanced \in TenderRow
    BY <1>5, TenderFields DEF DownloadAdvance, TenderStatuses
  <2>2. /\ UpdateTender(p, at[p], advanced) \/ UNCHANGED txTender
        /\ Goto(p, "batch")
        /\ held' = [held EXCEPT ![p][d] = None]
        /\ UNCHANGED <<db, disk, txDoc, txMeta, at, ent, todo>>
    BY <1>5 DEF DownloadAdvance, Drop
  <2>3. Rest'
    BY <2>2
  <2>4. DraftTypes' /\ \A q \in Procs, f \in Docs : Owned(txDoc[q][f])'
    BY <2>1, <2>2, UpdateTenderTypes DEF DraftTypes
  <2> QED
    BY <2>2, <2>3, <2>4, DraftStep
<1>6. CASE DownloadCommit
  <2>1. FileTypes'
    BY <1>6 DEF DownloadCommit, FileTypes
  <2> QED
    BY <1>6, <2>1, CommitTypes, EndTypes DEF DownloadCommit, Commit
<1> QED
  BY <1>1, <1>2, <1>3, <1>4, <1>5, <1>6 DEF DownloadStep

LEMMA WaitTypes ==
  ASSUME TypeInv, NEW p \in Procs,
         WaitTender(p) \/ (\E d \in Docs : WaitDoc(p, d)) \/ Crash(p)
  PROVE  TypeInv'
<1> USE DEF TypeInv, TypeOK, HandInv, Rest, PlaceTypes, LocalTypes, HandsOK, HasTender, HasEntity,
            Retiring, Owned, Goto, Places
<1>1. CASE WaitTender(p)
  <2>1. SeenTender(p, at[p]) \in TenderRow
    BY <1>1, SeenTypes DEF WaitTender
  <2>2. Rest'
    BY <1>1, <2>1 DEF WaitTender
  <2> QED
    BY <1>1, <2>2, LocalStep DEF WaitTender
<1>2. ASSUME NEW d \in Docs, WaitDoc(p, d) PROVE TypeInv'
  <2>1. SeenDoc(p, d) \in DocRow
    BY SeenTypes
  <2>2. Rest'
    BY <1>2, <2>1 DEF WaitDoc
  <2> QED
    BY <1>2, <2>2, LocalStep DEF WaitDoc
<1>3. CASE Crash(p)
  <2>1. Rest'
    BY <1>3 DEF Crash, NoDocs
  <2>2. FileTypes'
    BY <1>3 DEF Crash, FileTypes
  <2>3. RowTypes' /\ DraftTypes' /\ OwnedRows'
    BY <1>3, RollbackTypes DEF Crash
  <2> QED
    BY <2>1, <2>2, <2>3, Groups, PTL
<1> QED
  BY <1>1, <1>2, <1>3

-----------------------------------------------------------------------------
\* The types hold at first, and every step keeps them.
LEMMA InitTypes == Init => TypeInv
<1> SUFFICES ASSUME Init PROVE TypeInv
  OBVIOUS
<1>1. TypeOK
  BY DEF Init, TypeOK, TenderRow, DocRow, NoRow, ClosingDates, Places, NoTenders, NoDocs
<1>2. HandInv
  BY DEF Init, HandInv, HasTender, HasEntity, Retiring, Owned, NoDocs
<1> QED
  BY <1>1, <1>2 DEF TypeInv

LEMMA NextTypes == TypeInv /\ [Next]_vars => TypeInv'
<1> SUFFICES ASSUME TypeInv, [Next]_vars PROVE TypeInv'
  OBVIOUS
<1>1. CASE UNCHANGED vars
  BY <1>1 DEF vars, TypeInv, TypeOK, HandInv, HasTender, HasEntity, Retiring, Owned
<1> QED
  BY <1>1, DirectTypes, RequestTypes, ExtractTypes, WorkflowTypes, DownloadTypes, WaitTypes DEF Next

LEMMA TypesHold == Spec => []TypeInv
  BY InitTypes, NextTypes, PTL DEF Spec

\* Every variable of the pipeline keeps its type.
THEOREM TypeCorrect == Spec => []TypeOK
  BY TypesHold, PTL DEF TypeInv

-----------------------------------------------------------------------------
(***************************************************************************)
(* No document is ever left DOWNLOADING, for any tenders, documents,       *)
(* requests and batch size: the status lives only in the draft of the one  *)
(* document the download worker is transferring, and that draft is         *)
(* overwritten before the worker commits.                                  *)
(***************************************************************************)

NotDownloading(row) == row # None => row.status # "DOWNLOADING"

\* d's bytes are on their way.
InTransfer(p, d) == p = Downloader /\ pc[p] = "download" /\ First(p, d)

DownloadInv ==
  /\ \A d \in Docs : NotDownloading(doc[d])
  /\ \A p \in Procs, d \in Docs : NotDownloading(held[p][d])
  /\ \A p \in Procs, d \in Docs : NotDownloading(txDoc[p][d]) \/ InTransfer(p, d)

\* What a step of p must show; the other processes are where they were.
Clear(p) ==
  /\ \A q \in Procs \ {p} : pc'[q] = pc[q] /\ held'[q] = held[q] /\ txDoc'[q] = txDoc[q]
  /\ \A d \in Docs : NotDownloading(doc'[d]) /\ NotDownloading(held'[p][d])
  /\ \A d \in Docs : NotDownloading(txDoc'[p][d]) \/ InTransfer(p, d)'

LEMMA StepClear ==
  ASSUME DownloadInv, NEW p \in Procs, Clear(p)
  PROVE  DownloadInv'
  BY DEF DownloadInv, Clear, InTransfer, First, Holds

-----------------------------------------------------------------------------
(* The calls several actions make. *)

\* A row put into a draft is DOWNLOADING only if the entity or the row was.
LEMMA PutClear ==
  ASSUME TypeInv, DownloadInv, NEW p \in Procs, NEW d \in Docs, NEW e \in DocRow,
         e.status # "DOWNLOADING", p # Downloader \/ pc[p] # "download"
  PROVE  \A f \in Docs : NotDownloading(PutDoc(p, d, e)[f])
<1> DEFINE row == SeenDoc(p, d)
           m == Merge(e, Selected(p, row), row)
<1>1. \A f \in Docs : NotDownloading(txDoc[p][f])
  BY DEF DownloadInv, InTransfer
<1>2. row \in DocRow /\ row.status # "DOWNLOADING"
  BY <1>1, SeenTypes, NoneApart DEF SeenDoc, DownloadInv, NotDownloading, TypeInv, TypeOK
<1>3. m.status # "DOWNLOADING"
  BY <1>2, MergeDoc
<1> QED
  BY <1>1, <1>3 DEF PutDoc, NotDownloading, TypeInv, TypeOK

\* A request that fails leaves nothing.
LEMMA FailClear ==
  ASSUME TypeInv, DownloadInv, NEW p \in Procs, Rollback(p),
         held' = [held EXCEPT ![p] = NoDocs],
         \A q \in Procs \ {p} : pc'[q] = pc[q]
  PROVE  DownloadInv'
<1>1. Clear(p)
  BY DEF Clear, Rollback, NotDownloading, NoDocs, DownloadInv, TypeInv, TypeOK
<1> QED
  BY <1>1, StepClear

\* A commit publishes no DOWNLOADING row if there is none among the drafts.
LEMMA CommitClear ==
  ASSUME TypeInv, DownloadInv, NEW p \in Procs, NEW tw, NEW dw, NEW mw,
         \A d \in Docs : NotDownloading(dw[d]),
         CommitDrafts(p, tw, dw, mw), Finish(p)
  PROVE  DownloadInv'
<1>1. \A d \in Docs : NotDownloading(doc'[d])
  BY DEF CommitDrafts, NotDownloading, DownloadInv, TypeInv, TypeOK
<1>2. /\ \A q \in Procs \ {p} : pc'[q] = pc[q] /\ held'[q] = held[q] /\ txDoc'[q] = txDoc[q]
      /\ \A d \in Docs : held'[p][d] = None /\ txDoc'[p][d] = None
  BY DEF CommitDrafts, Finish, NoDocs, TypeInv, TypeOK
<1>3. Clear(p)
  BY <1>1, <1>2 DEF Clear, NotDownloading
<1> QED
  BY <1>3, StepClear

\* A step of p that changes no row and no draft.
LEMMA ReadClear ==
  ASSUME TypeInv, DownloadInv, NEW p \in Procs \ {Downloader}, UNCHANGED <<doc, txDoc>>,
         \A q \in Procs \ {p} : pc'[q] = pc[q] /\ held'[q] = held[q],
         \A d \in Docs : NotDownloading(held'[p][d])
  PROVE  DownloadInv'
<1>1. Clear(p)
  BY DEF Clear, DownloadInv, InTransfer
<1> QED
  BY <1>1, StepClear

\* A step of p that updates the document d with e.
LEMMA UpdateClear ==
  ASSUME TypeInv, DownloadInv, NEW p \in Procs, NEW d \in Docs, NEW e \in DocRow,
         e.status # "DOWNLOADING", p # Downloader \/ pc[p] # "download",
         UpdateDoc(p, d, e), UNCHANGED doc,
         \A q \in Procs \ {p} : pc'[q] = pc[q] /\ held'[q] = held[q],
         \A f \in Docs : NotDownloading(held'[p][f])
  PROVE  DownloadInv'
<1>1. \A f \in Docs : NotDownloading(txDoc'[p][f])
  BY PutClear DEF UpdateDoc, TypeInv, TypeOK
<1>2. Clear(p)
  BY <1>1 DEF Clear, DownloadInv, UpdateDoc, TypeInv, TypeOK
<1> QED
  BY <1>2, StepClear

-----------------------------------------------------------------------------
(* Each action. *)

LEMMA DirectClear == TypeInv /\ DownloadInv /\ DirectStep => DownloadInv'
<1> SUFFICES ASSUME TypeInv, DownloadInv, DirectStep PROVE DownloadInv'
  OBVIOUS
<1>1. UNCHANGED <<tx, local>>
  BY DEF DirectStep, CreateTender, AddFromUrl, DeleteTender, Screen
<1>2. \A d \in Docs : NotDownloading(doc'[d])
  <2>1. ASSUME NEW t \in Tenders, DeleteTender(t) PROVE \A d \in Docs : NotDownloading(doc'[d])
    BY <2>1 DEF DeleteTender, NotDownloading, DownloadInv, TypeInv, TypeOK, DocRow
  <2>2. ASSUME NEW t \in Tenders, NEW d \in Docs, AddFromUrl(t, d)
        PROVE  \A f \in Docs : NotDownloading(doc'[f])
    BY <2>2 DEF AddFromUrl, NotDownloading, DownloadInv, TypeInv, TypeOK, DocRow
  <2>3. ASSUME NEW t \in Tenders, NEW c \in Closings, CreateTender(t, c) \/ Screen(t)
        PROVE  \A d \in Docs : NotDownloading(doc'[d])
    BY <2>3 DEF CreateTender, Screen, DownloadInv
  <2>4. ASSUME NEW t \in Tenders, Screen(t)
        PROVE  \A d \in Docs : NotDownloading(doc'[d])
    BY <2>4 DEF Screen, DownloadInv
  <2> QED
    BY <2>1, <2>2, <2>3, <2>4 DEF DirectStep
<1> QED
  BY <1>1, <1>2 DEF DownloadInv, InTransfer, First, Holds, tx, local

\* An action that reads, and leaves the rows and the drafts alone.
ReadStep(p) ==
  \/ \E t \in Tenders, c \in Closings : PatchRead(p, t, c)
  \/ \E t \in Tenders, d \in Docs, c \in Contents : UploadStore(p, t, d, c)
  \/ \E d \in Docs : RetriggerRead(p, d)
  \/ \E t \in Tenders, d \in Docs : ReadDocument(p, t, d)
  \/ \E W, S \in SUBSET Tenders : RetirePlan(p, W, S)
  \/ \E t \in Tenders : RetireList(p, t)
  \/ \E d \in Docs : RetireUnlink(p, d) \/ RetireUnlinkFails(p, d)
  \/ RetireRead(p)

LEMMA ReadStepClear ==
  ASSUME TypeInv, DownloadInv, NEW p \in Procs \ {Downloader}, ReadStep(p)
  PROVE  DownloadInv'
<1>1. UNCHANGED <<doc, txDoc>> /\ \A q \in Procs \ {p} : pc'[q] = pc[q] /\ held'[q] = held[q]
  BY DEF ReadStep, PatchRead, UploadStore, RetriggerRead, ReadDocument, RetirePlan, RetireList,
         RetireUnlink, RetireUnlinkFails, RetireRead, Goto, Keep, Drop, db, tx, TypeInv, TypeOK
<1>2. \A d \in Docs : NotDownloading(held'[p][d])
  <2> USE DEF NotDownloading, DownloadInv, TypeInv, TypeOK
  <2>1. ASSUME NEW t \in Tenders, NEW d \in Docs, NEW c \in Contents, UploadStore(p, t, d, c)
        PROVE  \A f \in Docs : NotDownloading(held'[p][f])
    BY <2>1 DEF UploadStore, Keep, NoDocs
  <2>2. ASSUME NEW d \in Docs, RetriggerRead(p, d)
        PROVE  \A f \in Docs : NotDownloading(held'[p][f])
    BY <2>2 DEF RetriggerRead, Keep, NoDocs, DocRow
  <2>3. ASSUME NEW t \in Tenders, NEW d \in Docs, ReadDocument(p, t, d)
        PROVE  \A f \in Docs : NotDownloading(held'[p][f])
    <3>1. [doc[d] EXCEPT !.text = disk[d]].status = "DOWNLOADED"
      BY <2>3 DEF ReadDocument, Selectable, DocRow
    <3> QED
      BY <2>3, <3>1 DEF ReadDocument, Keep, NoDocs
  <2>4. ASSUME NEW t \in Tenders, RetireList(p, t)
        PROVE  \A f \in Docs : NotDownloading(held'[p][f])
    BY <2>4 DEF RetireList, Purgeable
  <2>5. ASSUME NEW d \in Docs, RetireUnlinkFails(p, d)
        PROVE  \A f \in Docs : NotDownloading(held'[p][f])
    BY <2>5 DEF RetireUnlinkFails, Drop
  <2>6. CASE UNCHANGED held
    BY <2>6
  <2> QED
    BY <2>1, <2>2, <2>3, <2>4, <2>5, <2>6
       DEF ReadStep, PatchRead, RetirePlan, RetireUnlink, RetireRead
<1> QED
  BY <1>1, <1>2, ReadClear

LEMMA RequestClear ==
  ASSUME TypeInv, DownloadInv, NEW p \in Requests, RequestStep(p)
  PROVE  DownloadInv'
<1>0. p \in Procs \ {Downloader}
  BY PipelineAssumption DEF Procs
<1>1. \A d \in Docs : NotDownloading(txDoc[p][d]) /\ NotDownloading(held[p][d])
  BY <1>0 DEF DownloadInv, InTransfer
<1>2. CASE ReadStep(p)
  BY <1>0, <1>2, ReadStepClear
<1>3. CASE Fail(p)
  BY <1>0, <1>3, FailClear DEF Fail, Finish, TypeInv, TypeOK
<1>4. CASE PatchWrite(p) \/ UploadAdvance(p) \/ RetireCommit(p)
  <2>1. Finish(p) /\ (Rollback(p) \/ \E tw : CommitDrafts(p, tw, txDoc[p], txMeta[p]))
    BY <1>4 DEF PatchWrite, UploadAdvance, RetireCommit, Commit, Fail
  <2>2. CASE Rollback(p)
    BY <1>0, <2>1, <2>2, FailClear DEF Finish, TypeInv, TypeOK
  <2>3. ASSUME NEW tw, CommitDrafts(p, tw, txDoc[p], txMeta[p]) PROVE DownloadInv'
    BY <1>0, <1>1, <2>1, <2>3, CommitClear
  <2> QED
    BY <2>1, <2>2, <2>3
<1>5. ASSUME NEW d \in Docs, UploadAdd(p, d), ~Fail(p) PROVE DownloadInv'
  <2>1. /\ txDoc' = [txDoc EXCEPT ![p][d] = held[p][d]]
        /\ pc' = [pc EXCEPT ![p] = "upload_advance"]
        /\ UNCHANGED <<doc, held>>
    BY <1>5 DEF UploadAdd, Goto, db
  <2>2. \A f \in Docs : txDoc'[p][f] \in {held[p][d], txDoc[p][f]}
    BY <1>0, <2>1 DEF TypeInv, TypeOK
  <2>3. \A f \in Docs : NotDownloading(txDoc'[p][f])
    BY <1>1, <2>2
  <2>4. Clear(p)
    BY <1>0, <1>1, <2>1, <2>3 DEF Clear, DownloadInv, TypeInv, TypeOK
  <2> QED
    BY <1>0, <2>4, StepClear
<1>6. ASSUME NEW d \in Docs, RetriggerWrite(p, d), ~Fail(p) PROVE DownloadInv'
  <2>1. held[p][d] \in DocRow /\ held[p][d].status # "DOWNLOADING"
    BY <1>0, <1>1, <1>6, HeldFields DEF RetriggerWrite, Holds, NotDownloading
  <2>2. \A f \in Docs : NotDownloading(PutDoc(p, d, held[p][d])[f])
    BY <1>0, <2>1, PutClear
  <2> QED
    BY <1>0, <1>6, <2>2, CommitClear DEF RetriggerWrite
<1>7. ASSUME NEW d \in Docs, RetireMark(p, d), ~Fail(p) PROVE DownloadInv'
  <2> DEFINE e == [held[p][d] EXCEPT !.file = None, !.purged = TRUE]
  <2>1. e \in DocRow /\ e.status # "DOWNLOADING"
    <3>1. held[p][d] \in DocRow /\ held[p][d].status # "DOWNLOADING"
      BY <1>0, <1>1, <1>7, HeldFields DEF RetireMark, First, Holds, NotDownloading
    <3> QED
      BY <3>1, DocFields DEF DocRow
  <2>2. UpdateDoc(p, d, e) /\ UNCHANGED doc
    BY <1>7 DEF RetireMark, db
  <2>3. Goto(p, "retire_purge") /\ Drop(p, d)
    BY <1>7 DEF RetireMark
  <2>4. /\ \A q \in Procs \ {p} : pc'[q] = pc[q] /\ held'[q] = held[q]
        /\ \A f \in Docs : NotDownloading(held'[p][f])
    BY <1>0, <1>1, <2>3 DEF Goto, Drop, NotDownloading, TypeInv, TypeOK
  <2> QED
    BY <1>0, <2>1, <2>2, <2>4, UpdateClear
<1>8. CASE RetireArchive(p) /\ ~Fail(p)
  <2>1. UNCHANGED <<doc, txDoc, held>> /\ \A q \in Procs \ {p} : pc'[q] = pc[q]
    BY <1>8 DEF RetireArchive, Goto, db, TypeInv, TypeOK
  <2> QED
    BY <1>0, <1>1, <2>1, ReadClear
<1> QED
  BY <1>2, <1>3, <1>4, <1>5, <1>6, <1>7, <1>8 DEF RequestStep, ReadStep, Extract

LEMMA ExtractClear ==
  ASSUME TypeInv, DownloadInv, NEW p \in Requests \cup {Workflow}, ExtractStep(p)
  PROVE  DownloadInv'
<1>0. p \in Procs \ {Downloader}
  BY PipelineAssumption DEF Procs
<1>1. \A d \in Docs : NotDownloading(txDoc[p][d]) /\ NotDownloading(held[p][d])
  BY <1>0 DEF DownloadInv, InTransfer
<1>2. CASE Fail(p)
  BY <1>0, <1>2, FailClear DEF Fail, Finish, TypeInv, TypeOK
<1>3. ASSUME NEW d \in Docs, ExtractStore(p, d), ~Fail(p) PROVE DownloadInv'
  <2>1. held[p][d] \in DocRow /\ held[p][d].status # "DOWNLOADING"
    BY <1>0, <1>1, <1>3, HeldFields DEF ExtractStore, Holds, NotDownloading
  <2>2. UpdateDoc(p, d, held[p][d]) /\ UNCHANGED <<doc, held>>
        /\ \A q \in Procs \ {p} : pc'[q] = pc[q]
    BY <1>3 DEF ExtractStore, Goto, db, TypeInv, TypeOK
  <2> QED
    BY <1>0, <1>1, <2>1, <2>2, UpdateClear
<1>4. CASE ExtractAdvance(p)
  <2>1. Finish(p) /\ (Rollback(p) \/ \E tw : CommitDrafts(p, tw, txDoc[p], txMeta[p]))
    BY <1>4 DEF ExtractAdvance
  <2>2. CASE Rollback(p)
    BY <1>0, <2>1, <2>2, FailClear DEF Finish, TypeInv, TypeOK
  <2>3. ASSUME NEW tw, CommitDrafts(p, tw, txDoc[p], txMeta[p]) PROVE DownloadInv'
    BY <1>0, <1>1, <2>1, <2>3, CommitClear
  <2> QED
    BY <2>1, <2>2, <2>3
<1> QED
  BY <1>2, <1>3, <1>4 DEF ExtractStep

LEMMA WorkflowClear == ASSUME TypeInv, DownloadInv, WorkflowStep PROVE DownloadInv'
<1>0. Workflow \in Procs \ {Downloader}
  BY PipelineAssumption DEF Procs
<1>1. CASE ReadStep(Workflow)
  BY <1>0, <1>1, ReadStepClear
<1>2. CASE WorkflowFetch \/ WorkflowDone \/ \E t \in Tenders : WorkflowSkip(t)
  <2>1. UNCHANGED <<doc, txDoc, held>> /\ \A q \in Procs \ {Workflow} : pc'[q] = pc[q]
    BY <1>2 DEF WorkflowFetch, WorkflowDone, WorkflowSkip, Goto, db, tx, TypeInv, TypeOK
  <2> QED
    BY <1>0, <2>1, ReadClear DEF DownloadInv
<1> QED
  BY <1>1, <1>2 DEF WorkflowStep, WorkflowExtract, ReadStep

LEMMA DownloadClear == ASSUME TypeInv, DownloadInv, DownloadStep PROVE DownloadInv'
<1> PICK p : p = Downloader /\ p \in Procs
  BY DEF Procs
<1>1. CASE DownloadFetch
  <2>1. Clear(p)
    BY <1>1 DEF DownloadFetch, PendingDocs, Starts, Clear, InTransfer, NotDownloading, Goto, db, tx,
                DownloadInv, TypeInv, TypeOK
  <2> QED
    BY <2>1, StepClear
<1>2. ASSUME NEW d \in Docs, DownloadStart(d) PROVE DownloadInv'
  <2>0. pc[p] = "batch" /\ First(p, d) /\ Holds(p, d)
    BY <1>2 DEF DownloadStart, First
  <2>1. CASE Fail(p)
    BY <2>1, FailClear DEF Fail, Finish, TypeInv, TypeOK
  <2>2. CASE ~Fail(p) /\ held[p][d].url
    <3> DEFINE e == [held[p][d] EXCEPT !.status = "DOWNLOADING"]
    <3>1. UpdateDoc(p, d, e) /\ Goto(p, "download") /\ UNCHANGED <<doc, held>>
      <4>1. held[p][d] \in DocRow
        BY <2>0, HeldFields
      <4>2. [held[p][d] EXCEPT !.status = "DOWNLOADING"].url
        BY <2>2, <4>1 DEF DocRow
      <4> QED
        BY <1>2, <2>2, <4>2 DEF DownloadStart, db
    <3>2. \A f \in Docs \ {d} : txDoc'[p][f] = txDoc[p][f]
      BY <3>1 DEF UpdateDoc, PutDoc, TypeInv, TypeOK
    <3>3. InTransfer(p, d)'
      BY <2>0, <3>1 DEF InTransfer, First, Holds, Goto, TypeInv, TypeOK
    <3>4. Clear(p)
      BY <2>0, <3>1, <3>2, <3>3 DEF Clear, InTransfer, Goto, UpdateDoc, DownloadInv, TypeInv, TypeOK
    <3> QED
      BY <3>4, StepClear
  <2>3. CASE ~Fail(p) /\ ~held[p][d].url
    <3> DEFINE e == [held[p][d] EXCEPT !.status = "FAILED"]
    <3>1. e \in DocRow /\ e.status # "DOWNLOADING" /\ ~e.url
      <4>1. held[p][d] \in DocRow /\ e \in DocRow
        BY <2>0, HeldFields DEF DocumentStatuses
      <4>2. e.status = "FAILED" /\ e.url = held[p][d].url
        BY <4>1 DEF DocRow
      <4> QED
        BY <2>3, <4>1, <4>2
    <3>2. UpdateDoc(p, d, e) /\ Goto(p, "batch") /\ Drop(p, d) /\ UNCHANGED doc
      BY <1>2, <2>3, <3>1 DEF DownloadStart, db
    <3> HIDE DEF e
    <3>3. /\ \A q \in Procs \ {p} : pc'[q] = pc[q] /\ held'[q] = held[q]
          /\ \A f \in Docs : NotDownloading(held'[p][f])
      BY <3>2 DEF Goto, Drop, NotDownloading, DownloadInv, TypeInv, TypeOK
    <3> QED
      BY <2>0, <3>1, <3>2, <3>3, UpdateClear
  <2> QED
    BY <2>1, <2>2, <2>3
<1>3. ASSUME NEW d \in Docs, pc[p] = "download", First(p, d), NEW e \in DocRow,
             e.status # "DOWNLOADING", UpdateDoc(p, d, e), UNCHANGED doc,
             \A q \in Procs \ {p} : pc'[q] = pc[q] /\ held'[q] = held[q],
             \A f \in Docs : NotDownloading(held'[p][f])
      PROVE  DownloadInv'
  <2>1. \A f \in Docs \ {d} : NotDownloading(txDoc[p][f])
    BY <1>3, PipelineAssumption DEF DownloadInv, InTransfer, First
  <2>2. Selected(p, SeenDoc(p, d)) = SeenDoc(p, d)
    BY <1>3 DEF Selected, TypeInv, HandInv
  <2>3. SeenDoc(p, d) \in DocRow
    BY SeenTypes DEF TypeInv
  <2>4. SeenDoc(p, d) # e => Merge(e, SeenDoc(p, d), SeenDoc(p, d)).status # "DOWNLOADING"
    BY <1>3, <2>3 DEF Merge, DocRow
  <2>5. \A f \in Docs : NotDownloading(PutDoc(p, d, e)[f])
    BY <1>3, <2>1, <2>2, <2>4 DEF PutDoc, SeenDoc, NotDownloading, TypeInv, TypeOK
  <2>6. Clear(p)
    BY <1>3, <2>5 DEF Clear, UpdateDoc, DownloadInv, TypeInv, TypeOK
  <2> QED
    BY <2>6, StepClear
<1>4. ASSUME NEW d \in Docs, NEW c \in Contents, DownloadSave(d, c) PROVE DownloadInv'
  <2> DEFINE e == [held[p][d] EXCEPT !.status = "DOWNLOADED", !.file = c]
  <2>1. pc[p] = "download" /\ First(p, d) /\ Holds(p, d)
    BY <1>4 DEF DownloadSave, First
  <2>2. e \in DocRow /\ e.status # "DOWNLOADING"
    BY <2>1, HeldFields DEF DocRow
  <2>3. UpdateDoc(p, d, e) /\ UNCHANGED doc /\ Goto(p, "advance")
        /\ held' = [held EXCEPT ![p][d] = e]
    BY <1>4 DEF DownloadSave, db
  <2> HIDE DEF e
  <2>4. /\ \A q \in Procs \ {p} : pc'[q] = pc[q] /\ held'[q] = held[q]
        /\ \A f \in Docs : NotDownloading(held'[p][f])
    BY <2>2, <2>3 DEF Goto, NotDownloading, DownloadInv, TypeInv, TypeOK
  <2> QED
    BY <1>3, <2>1, <2>2, <2>3, <2>4
<1>5. ASSUME NEW d \in Docs, DownloadFail(d) PROVE DownloadInv'
  <2> DEFINE e == [held[p][d] EXCEPT !.status = "FAILED"]
  <2>1. pc[p] = "download" /\ First(p, d) /\ Holds(p, d)
    BY <1>5 DEF DownloadFail, First
  <2>2. e \in DocRow /\ e.status # "DOWNLOADING"
    BY <2>1, HeldFields DEF DocRow, DocumentStatuses
  <2>3. UpdateDoc(p, d, e) /\ UNCHANGED doc /\ Goto(p, "batch") /\ Drop(p, d)
    BY <1>5 DEF DownloadFail, db
  <2> HIDE DEF e
  <2>4. /\ \A q \in Procs \ {p} : pc'[q] = pc[q] /\ held'[q] = held[q]
        /\ \A f \in Docs : NotDownloading(held'[p][f])
    BY <2>3 DEF Goto, Drop, NotDownloading, DownloadInv, TypeInv, TypeOK
  <2> QED
    BY <1>3, <2>1, <2>2, <2>3, <2>4
<1>6. ASSUME NEW d \in Docs, DownloadAdvance(d) PROVE DownloadInv'
  <2>1. Clear(p)
    BY <1>6 DEF DownloadAdvance, Clear, InTransfer, Goto, Drop, NotDownloading, db, DownloadInv,
                TypeInv, TypeOK
  <2> QED
    BY <2>1, StepClear
<1>7. CASE DownloadCommit
  <2>1. \A d \in Docs : NotDownloading(txDoc[p][d])
    BY <1>7 DEF DownloadCommit, DownloadInv, InTransfer
  <2> QED
    BY <1>7, <2>1, CommitClear DEF DownloadCommit, Commit
<1> QED
  BY <1>1, <1>2, <1>4, <1>5, <1>6, <1>7 DEF DownloadStep

LEMMA WaitClear ==
  ASSUME TypeInv, DownloadInv, NEW p \in Procs,
         WaitTender(p) \/ (\E d \in Docs : WaitDoc(p, d)) \/ Crash(p)
  PROVE  DownloadInv'
<1>1. CASE Crash(p)
  BY <1>1, FailClear DEF Crash, Goto, TypeInv, TypeOK
<1>2. CASE UNCHANGED <<doc, held, txDoc, pc>>
  BY <1>2 DEF DownloadInv, InTransfer, First, Holds
<1> QED
  BY <1>1, <1>2 DEF WaitTender, WaitDoc, db, tx

-----------------------------------------------------------------------------
LEMMA InitClear == Init => DownloadInv
  BY DEF Init, DownloadInv, NotDownloading, NoDocs

LEMMA NextClear == TypeInv /\ DownloadInv /\ [Next]_vars => DownloadInv'
<1> SUFFICES ASSUME TypeInv, DownloadInv, [Next]_vars PROVE DownloadInv'
  OBVIOUS
<1>1. CASE UNCHANGED vars
  BY <1>1 DEF vars, DownloadInv, InTransfer, First, Holds
<1> QED
  BY <1>1, DirectClear, RequestClear, ExtractClear, WorkflowClear, DownloadClear, WaitClear DEF Next

\* A download interrupted between mark_downloading and mark_downloaded (a
\* crash, a rollback of the batch) leaves the document PENDING or as it was:
\* nothing in the code has to look for documents stuck in DOWNLOADING.
THEOREM NeverStuckDownloading == Spec => []NoStuckDownload
<1>1. TypeInv /\ DownloadInv => NoStuckDownload
  BY NoneApart DEF DownloadInv, NotDownloading, NoStuckDownload, TypeInv, TypeOK
<1> QED
  BY <1>1, InitClear, NextClear, TypesHold, PTL DEF Spec

-----------------------------------------------------------------------------
(***************************************************************************)
(* A tender that counts as parsed, and one that was screened, has its      *)
(* extracted metadata, for any tenders, documents, requests and batch      *)
(* size, although requests overwrite each other's rows: an update takes    *)
(* every status it writes from its entity or from the row, and whoever     *)
(* holds an entity at or past PARSED can see the metadata of that tender,  *)
(* or the tender is gone.                                                  *)
(***************************************************************************)

\* p sees metadata of t, or the tender is gone.
HasMetadata(p, t) ==
  meta[t] # None \/ txMeta[p][t] # None \/ tender[t].status = "DELETED"

\* p's draft of a tender is of a tender that exists, and of one that was
\* extracted if it says so.
DraftsSound(p) ==
  \A t \in Tenders : txTender[p][t] # None =>
    /\ Exists(tender[t]) /\ Exists(txTender[p][t])
    /\ txTender[p][t].status \in Extracted => meta[t] # None \/ txMeta[p][t] # None

\* So is the entity p has in hand.
EntitySound(p) ==
  /\ HasEntity(p) /\ ent[p].status \in Extracted => HasMetadata(p, at[p])
  /\ pc[p] = "patch" => Exists(ent[p])

\* An extraction has text to store, and has stored it before it advances.
ExtractionSound(p) ==
  /\ pc[p] = "extract_store" => \A d \in Docs : Holds(p, d) => held[p][d].text # None
  /\ pc[p] = "extract_advance" => HasMetadata(p, at[p])

\* A retirement run is about extracted tenders.
RunSound(p) == p \in Requests =>
  /\ \A t \in todo[p] : meta[t] # None \/ tender[t].status = "DELETED"
  /\ Retiring(p) => at[p] \in todo[p]

Sound(p) == DraftsSound(p) /\ EntitySound(p) /\ ExtractionSound(p) /\ RunSound(p)

MetadataInv == ParsedHasMetadata /\ \A p \in Procs : Sound(p)

-----------------------------------------------------------------------------
(* The processes that do not move. *)

\* Nothing but p's own state and the committed rows changes.
Apart(p) == \A q \in Procs \ {p} :
  /\ pc'[q] = pc[q] /\ at'[q] = at[q] /\ ent'[q] = ent[q] /\ held'[q] = held[q]
  /\ todo'[q] = todo[q] /\ txTender'[q] = txTender[q] /\ txMeta'[q] = txMeta[q]

\* Nothing is deleted, and nothing deleted comes back.
Grows == \A t \in Tenders :
  /\ meta[t] # None => meta'[t] # None
  /\ Exists(tender[t]) => Exists(tender'[t])
  /\ tender[t].status = "DELETED" => tender'[t].status = "DELETED"

LEMMA StepSound ==
  ASSUME TypeInv, MetadataInv, NEW p \in Procs, Apart(p), Grows, ParsedHasMetadata', Sound(p)'
  PROVE  MetadataInv'
<1> SUFFICES ASSUME NEW q \in Procs \ {p} PROVE Sound(q)'
  BY DEF MetadataInv
<1>0. Sound(q)
  BY DEF MetadataInv
<1>1. HasEntity(q) \/ pc[q] = "extract_advance" => at[q] \in Tenders
  BY DEF HasEntity, HasTender, TypeInv, HandInv
<1>2. \A t \in Tenders : HasMetadata(q, t) => HasMetadata(q, t)'
  BY DEF HasMetadata, Grows, Apart
<1>3. DraftsSound(q)'
  BY <1>0 DEF Sound, DraftsSound, Apart, Grows, Exists
<1>4. EntitySound(q)'
  BY <1>0, <1>1, <1>2 DEF Sound, EntitySound, Apart, HasEntity, Exists
<1>5. ExtractionSound(q)'
  BY <1>0, <1>1, <1>2 DEF Sound, ExtractionSound, Apart, Holds, HasEntity
<1>6. RunSound(q)'
  BY <1>0 DEF Sound, RunSound, Apart, Grows, Retiring, TypeInv, TypeOK
<1> QED
  BY <1>3, <1>4, <1>5, <1>6 DEF Sound

\* A step that leaves the committed rows alone.
LEMMA RowsKept ==
  ASSUME MetadataInv, UNCHANGED <<tender, meta, result>>
  PROVE  Grows /\ ParsedHasMetadata'
  BY DEF MetadataInv, ParsedHasMetadata, Grows, Exists

\* A process that is idle or between two tenders, with no draft.
LEMMA RestSound ==
  ASSUME TypeInv, NEW p \in Procs, Finish(p),
         txTender' = [txTender EXCEPT ![p] = NoTenders]
  PROVE  Sound(p)'
<1>1. pc'[p] \in {"idle", "queue"} /\ (p # Workflow => todo'[p] = {})
  BY DEF Finish, TypeInv, TypeOK
<1>2. \A t \in Tenders : txTender'[p][t] = None
  BY DEF NoTenders, TypeInv, TypeOK
<1>3. p \in Requests => p # Workflow
  BY PipelineAssumption
<1> QED
  BY <1>1, <1>2, <1>3 DEF Sound, DraftsSound, EntitySound, ExtractionSound, RunSound, HasEntity, Retiring

LEMMA FinishApart ==
  ASSUME TypeInv, NEW p \in Procs, Finish(p),
         txTender' = [txTender EXCEPT ![p] = NoTenders], txMeta' = [txMeta EXCEPT ![p] = NoTenders]
  PROVE  Apart(p)
  BY DEF Finish, Apart, TypeInv, TypeOK

LEMMA FailSound ==
  ASSUME TypeInv, MetadataInv, NEW p \in Procs, Rollback(p), Finish(p), UNCHANGED result
  PROVE  MetadataInv'
<1>1. Grows /\ ParsedHasMetadata'
  BY RowsKept DEF Rollback
<1> QED
  BY <1>1, RestSound, FinishApart, StepSound DEF Rollback

-----------------------------------------------------------------------------
(* Updates and commits. *)

\* The drafts w of p are sound: of tenders that exist, extracted if they say so.
Supported(p, w) ==
  \A t \in Tenders : w[t] # None =>
    /\ Exists(tender[t]) /\ Exists(w[t])
    /\ w[t].status \in Extracted => meta[t] # None \/ txMeta[p][t] # None

\* The row p sees of a tender that exists is as sound as its metadata.
LEMMA SeenSound ==
  ASSUME TypeInv, MetadataInv, NEW p \in Procs, NEW t \in Tenders
  PROVE  /\ SeenTender(p, t).status \in Extracted => meta[t] # None \/ txMeta[p][t] # None
         /\ Exists(tender[t]) => Exists(SeenTender(p, t))
  BY DEF SeenTender, MetadataInv, ParsedHasMetadata, Sound, DraftsSound

LEMMA PutSound ==
  ASSUME TypeInv, MetadataInv, NEW p \in Procs, NEW t \in Tenders, NEW e \in TenderRow,
         Exists(tender[t]), Exists(e), e.status \in Extracted => HasMetadata(p, t)
  PROVE  Supported(p, PutTender(p, t, e))
<1> DEFINE row == SeenTender(p, t)
           m == Merge(e, Selected(p, row), row)
<1>1. Supported(p, txTender[p])
  BY DEF MetadataInv, Sound, DraftsSound, Supported
<1>2. m.status \in {e.status, row.status}
  BY SeenTypes, MergeTender DEF TypeInv
<1>3. Exists(m) /\ (m.status \in Extracted => meta[t] # None \/ txMeta[p][t] # None)
  <2>1. ~(tender[t].status = "DELETED")
    BY DEF Exists, NoRow
  <2> QED
    BY <1>2, <2>1, SeenSound DEF Exists, HasMetadata
<1> HIDE DEF m
<1>4. txTender[p] \in [Tenders -> TenderRow \cup {None}]
  BY DEF TypeInv, TypeOK
<1>5. PutTender(p, t, e) \in {txTender[p], [txTender[p] EXCEPT ![t] = m]}
  BY DEF PutTender, m
<1> QED
  BY <1>1, <1>3, <1>4, <1>5 DEF Supported

LEMMA CommitSound ==
  ASSUME TypeInv, MetadataInv, NEW p \in Procs, NEW tw, NEW dw, Supported(p, tw),
         CommitDrafts(p, tw, dw, txMeta[p]), Finish(p),
         \A t \in Tenders : result'[t] => \/ result[t]
                                          \/ Exists(tender[t]) /\ HasMetadata(p, t)
  PROVE  MetadataInv'
<1>1. Grows
  <2>1. \A t \in Tenders : tender[t].status = "DELETED" => tw[t] = None
    BY DEF Supported, Exists, NoRow
  <2> QED
    BY <2>1 DEF Supported, Grows, CommitDrafts, TypeInv, TypeOK
<1>2. ParsedHasMetadata'
  <2> SUFFICES ASSUME NEW t \in Tenders, tender'[t].status \in Extracted \/ result'[t]
               PROVE  meta'[t] # None
    BY DEF ParsedHasMetadata
  <2>1. meta[t] # None \/ txMeta[p][t] # None
    BY DEF Supported, MetadataInv, ParsedHasMetadata, CommitDrafts, HasMetadata, Exists, NoRow,
           TypeInv, TypeOK
  <2> QED
    BY <2>1 DEF CommitDrafts
<1> QED
  BY <1>1, <1>2, RestSound, FinishApart, StepSound DEF CommitDrafts

\* A step of p that leaves the rows and the drafts alone.
LEMMA ReadSound ==
  ASSUME TypeInv, MetadataInv, NEW p \in Procs, UNCHANGED <<tender, meta, result>>, UNCHANGED tx,
         \A q \in Procs \ {p} : /\ pc'[q] = pc[q] /\ at'[q] = at[q] /\ ent'[q] = ent[q]
                                /\ held'[q] = held[q] /\ todo'[q] = todo[q],
         (EntitySound(p) /\ ExtractionSound(p) /\ RunSound(p))'
  PROVE  MetadataInv'
<1>1. Apart(p)
  BY DEF Apart, tx
<1>2. DraftsSound(p)'
  BY DEF MetadataInv, Sound, DraftsSound, tx, Exists
<1> QED
  BY <1>1, <1>2, RowsKept, StepSound DEF Sound

-----------------------------------------------------------------------------
(* Each action. *)

LEMMA DirectSound == ASSUME TypeInv, MetadataInv, DirectStep PROVE MetadataInv'
<1> USE DEF TypeInv, TypeOK
<1>0. ASSUME Grows, ParsedHasMetadata', UNCHANGED <<tx, local>> PROVE MetadataInv'
  <2> SUFFICES ASSUME NEW q \in Procs PROVE Sound(q)'
    BY <1>0 DEF MetadataInv
  <2>1. Sound(q) /\ Apart(q)
    BY <1>0 DEF MetadataInv, Apart, tx, local
  <2>2. HasEntity(q) \/ pc[q] = "extract_advance" => at[q] \in Tenders
    BY DEF HasEntity, HasTender, HandInv
  <2>3. \A t \in Tenders : HasMetadata(q, t) => HasMetadata(q, t)'
    BY <1>0 DEF HasMetadata, Grows, tx
  <2>4. DraftsSound(q)'
    BY <1>0, <2>1 DEF Sound, DraftsSound, Grows, Exists, tx
  <2>5. EntitySound(q)' /\ ExtractionSound(q)'
    BY <1>0, <2>1, <2>2, <2>3 DEF Sound, EntitySound, ExtractionSound, Holds, HasEntity, Exists, local
  <2>6. RunSound(q)'
    BY <1>0, <2>1 DEF Sound, RunSound, Grows, Retiring, local
  <2> QED
    BY <2>4, <2>5, <2>6 DEF Sound
<1>1. ASSUME NEW t \in Tenders, NEW c \in Closings, CreateTender(t, c) PROVE MetadataInv'
  <2>1. Grows /\ ParsedHasMetadata'
    BY <1>1 DEF CreateTender, Grows, Exists, NoRow, MetadataInv, ParsedHasMetadata, Extracted
  <2> QED
    BY <1>0, <1>1, <2>1 DEF CreateTender
<1>2. ASSUME NEW t \in Tenders, NEW d \in Docs, AddFromUrl(t, d) PROVE MetadataInv'
  <2>1. Grows /\ ParsedHasMetadata'
    BY <1>2, RowsKept DEF AddFromUrl
  <2> QED
    BY <1>0, <1>2, <2>1 DEF AddFromUrl
<1>3. ASSUME NEW t \in Tenders, Screen(t) PROVE MetadataInv'
  <2>1. Grows /\ ParsedHasMetadata'
    BY <1>3 DEF Screen, Grows, MetadataInv, ParsedHasMetadata, Extracted, SCREENABLE, Exists
  <2> QED
    BY <1>0, <1>3, <2>1 DEF Screen
<1>4. ASSUME NEW t \in Tenders, DeleteTender(t) PROVE MetadataInv'
  <2>1. /\ UNCHANGED <<tx, local>>
        /\ \A s \in Tenders \ {t} : tender'[s] = tender[s] /\ meta'[s] = meta[s] /\ result'[s] = result[s]
        /\ tender'[t].status = "DELETED" /\ result'[t] = FALSE
        /\ \A p \in Procs : txTender[p][t] = None
    <3>1. [tender[t] EXCEPT !.status = "DELETED"].status = "DELETED"
      BY DEF TenderRow
    <3> QED
      BY <1>4, <3>1 DEF DeleteTender
  <2>2. ParsedHasMetadata'
    BY <2>1 DEF MetadataInv, ParsedHasMetadata, Extracted
  <2> SUFFICES ASSUME NEW q \in Procs PROVE Sound(q)'
    BY <2>2 DEF MetadataInv
  <2>3. Sound(q)
    BY DEF MetadataInv
  <2>4. HasEntity(q) \/ pc[q] = "extract_advance" => at[q] \in Tenders
    BY DEF HasEntity, HasTender, HandInv
  <2>5. \A s \in Tenders : HasMetadata(q, s) => HasMetadata(q, s)'
    BY <2>1 DEF HasMetadata, tx
  <2>6. DraftsSound(q)'
    BY <2>1, <2>3 DEF Sound, DraftsSound, Exists, tx
  <2>7. EntitySound(q)' /\ ExtractionSound(q)'
    BY <2>1, <2>3, <2>4, <2>5 DEF Sound, EntitySound, ExtractionSound, Holds, HasEntity, Exists, local
  <2>8. RunSound(q)'
    BY <2>1, <2>3 DEF Sound, RunSound, Retiring, local
  <2> QED
    BY <2>6, <2>7, <2>8 DEF Sound
<1> QED
  BY <1>1, <1>2, <1>3, <1>4 DEF DirectStep

LEMMA ReadDocumentSound ==
  ASSUME TypeInv, MetadataInv, NEW p \in Procs, NEW t \in Tenders, NEW d \in Docs,
         ReadDocument(p, t, d)
  PROVE  MetadataInv'
<1>1. [doc[d] EXCEPT !.text = disk[d]].text # None
  <2>1. doc[d] \in DocRow /\ disk[d] # None
    BY DEF ReadDocument, Readable, TypeInv, TypeOK
  <2> QED
    BY <2>1 DEF DocRow
<1>2. EntitySound(p)' /\ ExtractionSound(p)'
  BY <1>1 DEF ReadDocument, Goto, Keep, NoDocs, EntitySound, ExtractionSound, HasEntity, Holds,
              TypeInv, TypeOK
<1>3. RunSound(p)'
  BY DEF ReadDocument, Goto, RunSound, Retiring, MetadataInv, Sound, db, TypeInv, TypeOK
<1>4. UNCHANGED <<tender, meta, result>> /\ UNCHANGED tx
  BY DEF ReadDocument, db
<1>5. \A q \in Procs \ {p} : /\ pc'[q] = pc[q] /\ at'[q] = at[q] /\ ent'[q] = ent[q]
                            /\ held'[q] = held[q] /\ todo'[q] = todo[q]
  BY DEF ReadDocument, Goto, Keep, TypeInv, TypeOK
<1> QED
  BY <1>2, <1>3, <1>4, <1>5, ReadSound

\* A retirement step that only moves p along its run.
LEMMA RetireSound ==
  ASSUME TypeInv, MetadataInv, NEW p \in Requests, NEW where, Goto(p, where),
         where \in {"retire_next", "retire_purge", "retire_mark"},
         \/ UNCHANGED <<at, todo>> /\ (where # "retire_next" => Retiring(p))
         \/ where = "retire_next" /\ UNCHANGED at /\ todo' = [todo EXCEPT ![p] = @ \ {at[p]}]
         \/ \E t \in todo[p] : at' = [at EXCEPT ![p] = t] /\ UNCHANGED todo,
         UNCHANGED <<tender, meta, result, txMeta, ent>>,
         \A q \in Procs \ {p} : held'[q] = held[q] /\ txTender'[q] = txTender[q],
         Supported(p, txTender'[p])
  PROVE  MetadataInv'
<1>0. p \in Procs
  BY DEF Procs
<1>1. RunSound(p)'
  BY <1>0 DEF Goto, RunSound, Retiring, MetadataInv, Sound, TypeInv, TypeOK
<1>2. EntitySound(p)' /\ ExtractionSound(p)'
  BY <1>0 DEF Goto, EntitySound, ExtractionSound, HasEntity, TypeInv, TypeOK
<1>3. DraftsSound(p)'
  BY DEF Supported, DraftsSound, Exists
<1>4. Apart(p)
  BY <1>0 DEF Apart, Goto, TypeInv, TypeOK
<1> QED
  BY <1>0, <1>1, <1>2, <1>3, <1>4, RowsKept, StepSound DEF Sound

LEMMA RequestSound == ASSUME TypeInv, MetadataInv, NEW p \in Requests, RequestStep(p) PROVE MetadataInv'
<1>0. p \in Procs
  BY DEF Procs
<1>a. Sound(p) /\ Supported(p, txTender[p])
  BY <1>0 DEF MetadataInv, Sound, DraftsSound, Supported
<1>b. CASE Fail(p)
  BY <1>0, <1>b, FailSound DEF Fail
<1>1. ASSUME NEW t \in Tenders, NEW c \in Closings, PatchRead(p, t, c) PROVE MetadataInv'
  <2>1. [tender[t] EXCEPT !.closing = c].status = tender[t].status
    BY DEF TypeInv, TypeOK, TenderRow
  <2>2. EntitySound(p)' /\ ExtractionSound(p)' /\ RunSound(p)'
    BY <1>0, <1>1, <1>a, <2>1
       DEF PatchRead, Goto, EntitySound, ExtractionSound, RunSound, Sound, HasEntity, HasMetadata,
           Retiring, Exists, MetadataInv, ParsedHasMetadata, db, TypeInv, TypeOK
  <2>3. UNCHANGED <<tender, meta, result>> /\ UNCHANGED tx
        /\ \A q \in Procs \ {p} : /\ pc'[q] = pc[q] /\ at'[q] = at[q] /\ ent'[q] = ent[q]
                                /\ held'[q] = held[q] /\ todo'[q] = todo[q]
    BY <1>0, <1>1 DEF PatchRead, Goto, db, TypeInv, TypeOK
  <2> QED
    BY <1>0, <2>2, <2>3, ReadSound
<1>2. CASE PatchWrite(p) /\ ~Fail(p)
  <2>1. /\ at[p] \in Tenders /\ ent[p] \in TenderRow /\ Exists(ent[p]) /\ Exists(tender[at[p]])
        /\ ent[p].status \in Extracted => HasMetadata(p, at[p])
    BY <1>0, <1>2, <1>a
       DEF PatchWrite, Sound, EntitySound, HasEntity, HasTender, TypeInv, HandInv
  <2>2. Supported(p, PutTender(p, at[p], ent[p]))
    BY <1>0, <2>1, PutSound
  <2>3. UNCHANGED result /\ Finish(p)
        /\ CommitDrafts(p, PutTender(p, at[p], ent[p]), txDoc[p], txMeta[p])
    BY <1>2 DEF PatchWrite
  <2> QED
    BY <1>0, <2>2, <2>3, CommitSound
<1>3. ASSUME NEW t \in Tenders, NEW d \in Docs, NEW c \in Contents, UploadStore(p, t, d, c)
      PROVE MetadataInv'
  <2>1. EntitySound(p)' /\ ExtractionSound(p)' /\ RunSound(p)'
    BY <1>0, <1>3, <1>a
       DEF UploadStore, Goto, EntitySound, ExtractionSound, RunSound, Sound, HasEntity, Retiring,
           db, TypeInv, TypeOK
  <2>2. UNCHANGED <<tender, meta, result>> /\ UNCHANGED tx
        /\ \A q \in Procs \ {p} : /\ pc'[q] = pc[q] /\ at'[q] = at[q] /\ ent'[q] = ent[q]
                                /\ held'[q] = held[q] /\ todo'[q] = todo[q]
    BY <1>0, <1>3 DEF UploadStore, Goto, Keep, db, TypeInv, TypeOK
  <2> QED
    BY <1>0, <2>1, <2>2, ReadSound
<1>4. ASSUME NEW d \in Docs, UploadAdd(p, d), ~Fail(p) PROVE MetadataInv'
  <2>1. /\ UNCHANGED <<tender, meta, result, txTender, txMeta>> /\ UNCHANGED <<at, todo, held>>
        /\ pc' = [pc EXCEPT ![p] = "upload_advance"] /\ ent' = [ent EXCEPT ![p] = tender[at[p]]]
        /\ at[p] \in Tenders
    BY <1>0, <1>4 DEF UploadAdd, Goto, db, TypeInv, HandInv, HasTender
  <2>2. Sound(p)'
    BY <1>0, <1>a, <2>1
       DEF Sound, DraftsSound, EntitySound, ExtractionSound, RunSound, HasEntity, HasMetadata,
           Retiring, Exists, MetadataInv, ParsedHasMetadata, TypeInv, TypeOK
  <2>3. Apart(p)
    BY <1>0, <2>1 DEF Apart, TypeInv, TypeOK
  <2> QED
    BY <1>0, <2>1, <2>2, <2>3, RowsKept, StepSound
<1>5. CASE UploadAdvance(p)
  <2> DEFINE e == [ent[p] EXCEPT !.status = "DOWNLOADED"]
  <2>1. Finish(p) /\ UNCHANGED result
    BY <1>5 DEF UploadAdvance
  <2>2. CASE Rollback(p)
    BY <1>0, <2>1, <2>2, FailSound
  <2>3. CASE Commit(p)
    BY <1>0, <1>a, <2>1, <2>3, CommitSound DEF Commit
  <2>4. CASE Exists(tender[at[p]]) /\ CommitDrafts(p, PutTender(p, at[p], e), txDoc[p], txMeta[p])
    <3>1. at[p] \in Tenders /\ ent[p] \in TenderRow
      BY <1>0, <1>5 DEF UploadAdvance, HasEntity, HasTender, TypeInv, HandInv
    <3>2. e \in TenderRow /\ Exists(e) /\ e.status \notin Extracted
      BY <3>1 DEF TenderRow, TenderStatuses, Exists, NoRow, Extracted
    <3>3. Supported(p, PutTender(p, at[p], e))
      BY <1>0, <2>4, <3>1, <3>2, PutSound
    <3> QED
      BY <1>0, <2>1, <2>4, <3>3, CommitSound
  <2> QED
    BY <1>5, <2>2, <2>3, <2>4 DEF UploadAdvance
<1>6. ASSUME NEW d \in Docs, RetriggerRead(p, d) PROVE MetadataInv'
  <2>1. EntitySound(p)' /\ ExtractionSound(p)' /\ RunSound(p)'
    BY <1>0, <1>6, <1>a
       DEF RetriggerRead, Goto, EntitySound, ExtractionSound, RunSound, Sound, HasEntity, Retiring,
           db, TypeInv, TypeOK
  <2>2. UNCHANGED <<tender, meta, result>> /\ UNCHANGED tx
        /\ \A q \in Procs \ {p} : /\ pc'[q] = pc[q] /\ at'[q] = at[q] /\ ent'[q] = ent[q]
                                /\ held'[q] = held[q] /\ todo'[q] = todo[q]
    BY <1>0, <1>6 DEF RetriggerRead, Goto, Keep, db, TypeInv, TypeOK
  <2> QED
    BY <1>0, <2>1, <2>2, ReadSound
<1>7. ASSUME NEW d \in Docs, RetriggerWrite(p, d), ~Fail(p) PROVE MetadataInv'
  BY <1>0, <1>7, <1>a, CommitSound DEF RetriggerWrite
<1>8. ASSUME NEW t \in Tenders, NEW d \in Docs, Extract(p, t, d) PROVE MetadataInv'
  BY <1>0, <1>8, ReadDocumentSound DEF Extract
<1>9. ASSUME NEW W \in SUBSET Tenders, NEW S \in SUBSET Tenders, RetirePlan(p, W, S) PROVE MetadataInv'
  <2>1. \A t \in S : meta[t] # None
    BY <1>9 DEF RetirePlan, Retirable, PURGEABLE_STATUSES, Extracted, MetadataInv, ParsedHasMetadata
  <2>2. EntitySound(p)' /\ ExtractionSound(p)' /\ RunSound(p)'
    BY <1>0, <1>9, <2>1
       DEF RetirePlan, Goto, EntitySound, ExtractionSound, RunSound, HasEntity, Retiring, db,
           TypeInv, TypeOK
  <2>3. UNCHANGED <<tender, meta, result>> /\ UNCHANGED tx
        /\ \A q \in Procs \ {p} : /\ pc'[q] = pc[q] /\ at'[q] = at[q] /\ ent'[q] = ent[q]
                                /\ held'[q] = held[q] /\ todo'[q] = todo[q]
    BY <1>0, <1>9 DEF RetirePlan, Goto, db, TypeInv, TypeOK
  <2> QED
    BY <1>0, <2>2, <2>3, ReadSound
<1>10. ASSUME NEW t \in Tenders, RetireList(p, t) PROVE MetadataInv'
  <2>1. \A q \in Procs \ {p} : held'[q] = held[q]
    BY <1>10 DEF RetireList
  <2> QED
    BY <1>10, <1>a, <2>1, RetireSound DEF RetireList, db, tx
<1>11. ASSUME NEW d \in Docs, RetireUnlink(p, d) PROVE MetadataInv'
  BY <1>11, <1>a, RetireSound DEF RetireUnlink, Retiring, db, tx
<1>12. ASSUME NEW d \in Docs, RetireUnlinkFails(p, d) PROVE MetadataInv'
  <2>1. EntitySound(p)' /\ ExtractionSound(p)' /\ RunSound(p)'
    BY <1>0, <1>12, <1>a
       DEF RetireUnlinkFails, Drop, Sound, EntitySound, ExtractionSound, RunSound, HasEntity,
           Retiring, db
  <2>2. \A q \in Procs \ {p} : held'[q] = held[q]
    BY <1>12 DEF RetireUnlinkFails, Drop, TypeInv, TypeOK
  <2> QED
    BY <1>0, <1>12, <2>1, <2>2, ReadSound DEF RetireUnlinkFails, db
<1>13. ASSUME NEW d \in Docs, RetireMark(p, d), ~Fail(p) PROVE MetadataInv'
  <2>1. \A q \in Procs \ {p} : held'[q] = held[q]
    BY <1>0, <1>13 DEF RetireMark, Drop, TypeInv, TypeOK
  <2> QED
    BY <1>13, <1>a, <2>1, RetireSound DEF RetireMark, Retiring, db
<1>14. CASE RetireRead(p)
  <2>1. CASE pc' = [pc EXCEPT ![p] = "retire_archive"] /\ UNCHANGED todo
             /\ ent' = [ent EXCEPT ![p] = SeenTender(p, at[p])]
    <3>1. at[p] \in Tenders /\ at[p] \in todo[p]
      BY <1>0, <1>14, <1>a DEF RetireRead, HasTender, Retiring, RunSound, Sound, TypeInv, HandInv
    <3>2. EntitySound(p)' /\ ExtractionSound(p)' /\ RunSound(p)'
      <4>1. UNCHANGED <<tender, meta, at>> /\ UNCHANGED txMeta
        BY <1>14 DEF RetireRead, db, tx
      <4> QED
        BY <1>0, <1>a, <2>1, <3>1, <4>1, SeenSound
           DEF EntitySound, ExtractionSound, RunSound, Sound, HasEntity, HasMetadata, Retiring,
               TypeInv, TypeOK
    <3>3. UNCHANGED <<tender, meta, result>> /\ UNCHANGED tx
          /\ \A q \in Procs \ {p} : /\ pc'[q] = pc[q] /\ at'[q] = at[q] /\ ent'[q] = ent[q]
                                  /\ held'[q] = held[q] /\ todo'[q] = todo[q]
      BY <1>0, <1>14, <2>1 DEF RetireRead, db, TypeInv, TypeOK
    <3> QED
      BY <1>0, <3>2, <3>3, ReadSound
  <2>2. CASE Goto(p, "retire_next") /\ todo' = [todo EXCEPT ![p] = @ \ {at[p]}] /\ UNCHANGED ent
    BY <1>14, <1>a, <2>2, RetireSound DEF RetireRead, db, tx
  <2> QED
    BY <1>14, <2>1, <2>2 DEF RetireRead, Goto
<1>15. CASE RetireArchive(p) /\ ~Fail(p)
  <2> DEFINE e == [ent[p] EXCEPT !.status = "ARCHIVED"]
  <2>1. /\ at[p] \in Tenders /\ ent[p] \in TenderRow /\ at[p] \in todo[p]
        /\ Exists(tender[at[p]])
    BY <1>0, <1>15, <1>a
       DEF RetireArchive, HasEntity, HasTender, Retiring, RunSound, Sound, TypeInv, HandInv
  <2>2. e \in TenderRow /\ Exists(e)
    BY <2>1 DEF TenderRow, TenderStatuses, Exists, NoRow
  <2>3. HasMetadata(p, at[p])
    BY <1>a, <2>1 DEF RunSound, Sound, HasMetadata
  <2>4. Supported(p, PutTender(p, at[p], e))
    BY <1>0, <2>1, <2>2, <2>3, PutSound
  <2>5. /\ txTender' = [txTender EXCEPT ![p] = PutTender(p, at[p], e)]
        /\ Goto(p, "retire_next") /\ todo' = [todo EXCEPT ![p] = @ \ {at[p]}]
        /\ UNCHANGED <<tender, meta, result, txMeta, at, ent, held>>
    BY <1>15 DEF RetireArchive, UpdateTender, db
  <2> HIDE DEF e
  <2>6. \A q \in Procs \ {p} : txTender'[q] = txTender[q]
    BY <2>5 DEF TypeInv, TypeOK
  <2>7. Supported(p, txTender'[p])
    BY <1>0, <2>4, <2>5 DEF TypeInv, TypeOK
  <2> QED
    BY <2>5, <2>6, <2>7, RetireSound
<1>16. CASE RetireCommit(p)
  BY <1>0, <1>16, <1>a, CommitSound DEF RetireCommit, Commit
<1> QED
  BY <1>b, <1>1, <1>2, <1>3, <1>4, <1>5, <1>6, <1>7, <1>8, <1>9, <1>10, <1>11, <1>12, <1>13,
     <1>14, <1>15, <1>16 DEF RequestStep

LEMMA ExtractSound ==
  ASSUME TypeInv, MetadataInv, NEW p \in Requests \cup {Workflow}, ExtractStep(p)
  PROVE  MetadataInv'
<1>0. p \in Procs
  BY DEF Procs
<1>a. Sound(p) /\ Supported(p, txTender[p])
  BY <1>0 DEF MetadataInv, Sound, DraftsSound, Supported
<1>1. CASE Fail(p)
  BY <1>0, <1>1, FailSound DEF Fail
<1>2. ASSUME NEW d \in Docs, ExtractStore(p, d), ~Fail(p) PROVE MetadataInv'
  <2> DEFINE t == at[p]
  <2>1. t \in Tenders /\ held[p][d].text # None
    BY <1>0, <1>2, <1>a
       DEF ExtractStore, HasTender, ExtractionSound, Sound, TypeInv, HandInv
  <2>2. /\ txMeta' = IF meta[t] = held[p][d].text THEN txMeta
                     ELSE [txMeta EXCEPT ![p][t] = held[p][d].text]
        /\ ent' = [ent EXCEPT ![p] = SeenTender(p, t)]
        /\ pc' = [pc EXCEPT ![p] = "extract_advance"]
        /\ UNCHANGED <<tender, meta, result, txTender, at, held, todo>>
    BY <1>2 DEF ExtractStore, Goto, db
  <2>3. /\ \A s \in Tenders : txMeta[p][s] # None => txMeta'[p][s] # None
        /\ meta'[t] # None \/ txMeta'[p][t] # None
    BY <1>0, <2>1, <2>2 DEF TypeInv, TypeOK
  <2>4. DraftsSound(p)'
    BY <1>0, <1>a, <2>2, <2>3 DEF Sound, DraftsSound, Exists
  <2>5. EntitySound(p)' /\ ExtractionSound(p)' /\ RunSound(p)'
    BY <1>0, <1>a, <2>1, <2>2, <2>3
       DEF EntitySound, ExtractionSound, RunSound, Sound, HasEntity, HasMetadata, Retiring,
           TypeInv, TypeOK
  <2>6. Apart(p)
    BY <1>0, <2>2 DEF Apart, TypeInv, TypeOK
  <2> QED
    BY <1>0, <2>2, <2>4, <2>5, <2>6, RowsKept, StepSound DEF Sound
<1>3. CASE ExtractAdvance(p)
  <2> DEFINE t == at[p]
             advances == Exists(ent[p]) /\ CanTransition(ent[p].status, "PARSED")
             parsed == [ent[p] EXCEPT !.status = "PARSED"]
             tw == IF advances THEN PutTender(p, t, parsed) ELSE txTender[p]
  <2>1. t \in Tenders /\ ent[p] \in TenderRow /\ HasMetadata(p, t)
    BY <1>0, <1>3, <1>a
       DEF ExtractAdvance, HasEntity, HasTender, ExtractionSound, Sound, TypeInv, HandInv
  <2>2. CASE Rollback(p) /\ UNCHANGED result
    BY <1>0, <1>3, <2>2, FailSound DEF ExtractAdvance
  <2>3. CASE ~(Rollback(p) /\ UNCHANGED result)
    <3>1. /\ CommitDrafts(p, tw, txDoc[p], txMeta[p]) /\ Finish(p)
          /\ advances => Exists(tender[t])
          /\ \/ UNCHANGED result
             \/ /\ result' = [result EXCEPT ![t] = TRUE]
                /\ advances \/ tender[t].status \in SCREENABLE
      BY <1>3, <2>3 DEF ExtractAdvance
    <3>2. parsed \in TenderRow /\ Exists(parsed)
      BY <2>1 DEF TenderRow, TenderStatuses, Exists, NoRow
    <3>3. Supported(p, tw)
      BY <1>0, <1>a, <2>1, <3>1, <3>2, PutSound
    <3>4. Exists(tender[t]) \/ UNCHANGED result
      BY <3>1 DEF SCREENABLE, Exists, NoRow
    <3>5. UNCHANGED result \/ result' = [result EXCEPT ![t] = TRUE]
      BY <3>1
    <3> HIDE DEF tw, advances
    <3>6. \A s \in Tenders \ {t} : result'[s] = result[s]
      BY <3>5 DEF TypeInv, TypeOK
    <3>7. \A s \in Tenders : result'[s] => result[s] \/ (Exists(tender[s]) /\ HasMetadata(p, s))
      BY <2>1, <3>4, <3>6
    <3> QED
      BY <1>0, <3>1, <3>3, <3>7, CommitSound
  <2> QED
    BY <2>2, <2>3
<1> QED
  BY <1>1, <1>2, <1>3 DEF ExtractStep

LEMMA WorkflowSound == ASSUME TypeInv, MetadataInv, WorkflowStep PROVE MetadataInv'
<1>0. Workflow \in Procs /\ Workflow \notin Requests
  BY PipelineAssumption DEF Procs
<1>1. ASSUME NEW t \in Tenders, NEW d \in Docs, WorkflowExtract(t, d) PROVE MetadataInv'
  BY <1>0, <1>1, ReadDocumentSound DEF WorkflowExtract
<1>2. CASE WorkflowFetch \/ WorkflowDone \/ \E t \in Tenders : WorkflowSkip(t)
  <2>1. pc'[Workflow] \in {"queue", "idle"} /\ RunSound(Workflow)'
    BY <1>0, <1>2 DEF WorkflowFetch, WorkflowDone, WorkflowSkip, Goto, RunSound, TypeInv, TypeOK
  <2>2. EntitySound(Workflow)' /\ ExtractionSound(Workflow)'
    BY <2>1 DEF EntitySound, ExtractionSound, HasEntity
  <2>3. UNCHANGED <<tender, meta, result>> /\ UNCHANGED tx
        /\ \A q \in Procs \ {Workflow} :
              /\ pc'[q] = pc[q] /\ at'[q] = at[q] /\ ent'[q] = ent[q]
              /\ held'[q] = held[q] /\ todo'[q] = todo[q]
    BY <1>0, <1>2 DEF WorkflowFetch, WorkflowDone, WorkflowSkip, Goto, db, TypeInv, TypeOK
  <2> QED
    BY <1>0, <2>1, <2>2, <2>3, ReadSound
<1> QED
  BY <1>1, <1>2 DEF WorkflowStep

LEMMA DownloadSound == ASSUME TypeInv, MetadataInv, DownloadStep PROVE MetadataInv'
<1> PICK p : p = Downloader /\ p \in Procs /\ p \notin Requests
  BY PipelineAssumption DEF Procs
<1>a. Sound(p) /\ Supported(p, txTender[p])
  BY DEF MetadataInv, Sound, DraftsSound, Supported
<1>1. ASSUME UNCHANGED <<tender, meta, result, txTender, txMeta>>, NEW where, Goto(p, where),
             where \in {"batch", "download"},
             \A q \in Procs \ {p} : /\ at'[q] = at[q] /\ ent'[q] = ent[q]
                                    /\ held'[q] = held[q] /\ todo'[q] = todo[q]
      PROVE  MetadataInv'
  <2>1. Apart(p)
    BY <1>1 DEF Apart, Goto, TypeInv, TypeOK
  <2>2. Sound(p)'
    BY <1>1, <1>a DEF Sound, DraftsSound, EntitySound, ExtractionSound, RunSound, HasEntity, Goto,
                      Exists, TypeInv, TypeOK
  <2> QED
    BY <1>1, <2>1, <2>2, RowsKept, StepSound
<1>2. CASE Fail(p)
  BY <1>2, FailSound DEF Fail
<1>3. CASE DownloadFetch
  BY <1>1, <1>3 DEF DownloadFetch, db, tx, TypeInv, TypeOK
<1>4. ASSUME NEW d \in Docs, DownloadStart(d), ~Fail(p) PROVE MetadataInv'
  <2>1. \/ Goto(p, "download") /\ UNCHANGED held
        \/ Goto(p, "batch") /\ Drop(p, d)
    BY <1>4 DEF DownloadStart
  <2>2. UNCHANGED <<tender, meta, result, txTender, txMeta, at, ent, todo>>
    BY <1>4 DEF DownloadStart, db
  <2>3. \A q \in Procs \ {p} : held'[q] = held[q]
    BY <2>1 DEF Drop, TypeInv, TypeOK
  <2> QED
    BY <1>1, <2>1, <2>2, <2>3
<1>5. ASSUME NEW d \in Docs, DownloadFail(d) PROVE MetadataInv'
  <2>1. \A q \in Procs \ {p} : held'[q] = held[q]
    BY <1>5 DEF DownloadFail, Drop, TypeInv, TypeOK
  <2> QED
    BY <1>1, <1>5, <2>1 DEF DownloadFail, db
<1>6. ASSUME NEW d \in Docs, NEW c \in Contents, DownloadSave(d, c) PROVE MetadataInv'
  <2> DEFINE t == held[p][d].tender
  <2>1. t \in Tenders
    BY <1>6, HeldFields DEF DownloadSave, First
  <2>2. /\ UNCHANGED <<tender, meta, result, txTender, txMeta, todo>>
        /\ at' = [at EXCEPT ![p] = t] /\ ent' = [ent EXCEPT ![p] = SeenTender(p, t)]
        /\ pc' = [pc EXCEPT ![p] = "advance"]
        /\ \A q \in Procs \ {p} : held'[q] = held[q]
    BY <1>6 DEF DownloadSave, Goto, db, TypeInv, TypeOK
  <2> HIDE DEF t
  <2>3. Apart(p)
    BY <2>2 DEF Apart, TypeInv, TypeOK
  <2>4. Sound(p)'
    BY <1>a, <2>1, <2>2, SeenSound
       DEF Sound, DraftsSound, EntitySound, ExtractionSound, RunSound, HasEntity, HasMetadata,
           Exists, TypeInv, TypeOK
  <2> QED
    BY <2>2, <2>3, <2>4, RowsKept, StepSound
<1>7. ASSUME NEW d \in Docs, DownloadAdvance(d) PROVE MetadataInv'
  <2> DEFINE e == [ent[p] EXCEPT !.status = "DOWNLOADED"]
  <2>1. /\ UNCHANGED <<tender, meta, result, txMeta, at, ent, todo>>
        /\ pc' = [pc EXCEPT ![p] = "batch"]
        /\ \A q \in Procs \ {p} : held'[q] = held[q]
    BY <1>7 DEF DownloadAdvance, Goto, Drop, db, TypeInv, TypeOK
  <2>2. Supported(p, txTender'[p]) /\ \A q \in Procs \ {p} : txTender'[q] = txTender[q]
    <3>1. at[p] \in Tenders /\ ent[p] \in TenderRow
      BY <1>7 DEF DownloadAdvance, HasEntity, HasTender, TypeInv, HandInv
    <3>2. e \in TenderRow /\ Exists(e) /\ e.status \notin Extracted
      BY <3>1 DEF TenderRow, TenderStatuses, Exists, NoRow, Extracted
    <3>3. \/ Exists(tender[at[p]]) /\ txTender' = [txTender EXCEPT ![p] = PutTender(p, at[p], e)]
          \/ UNCHANGED txTender
      BY <1>7 DEF DownloadAdvance, UpdateTender
    <3>4. Exists(tender[at[p]]) => Supported(p, PutTender(p, at[p], e))
      BY <3>1, <3>2, PutSound
    <3> HIDE DEF e
    <3> QED
      BY <1>a, <3>3, <3>4 DEF TypeInv, TypeOK
  <2>3. Apart(p)
    BY <2>1, <2>2 DEF Apart, TypeInv, TypeOK
  <2>4. Sound(p)'
    BY <2>1, <2>2 DEF Supported, Sound, DraftsSound, EntitySound, ExtractionSound, RunSound,
                      HasEntity, Exists, TypeInv, TypeOK
  <2> QED
    BY <2>1, <2>3, <2>4, RowsKept, StepSound
<1>8. CASE DownloadCommit
  BY <1>8, <1>a, CommitSound DEF DownloadCommit, Commit
<1> QED
  BY <1>2, <1>3, <1>4, <1>5, <1>6, <1>7, <1>8 DEF DownloadStep

LEMMA WaitSound ==
  ASSUME TypeInv, MetadataInv, NEW p \in Procs,
         WaitTender(p) \/ (\E d \in Docs : WaitDoc(p, d)) \/ Crash(p)
  PROVE  MetadataInv'
<1>1. CASE UNCHANGED <<tender, meta, result, txTender, txMeta, pc, at, ent, held, todo>>
  BY <1>1 DEF MetadataInv, ParsedHasMetadata, Sound, DraftsSound, EntitySound, ExtractionSound,
              RunSound, HasEntity, HasMetadata, Retiring, Holds, Exists
<1>2. CASE Crash(p)
  <2>1. Grows /\ ParsedHasMetadata'
    BY <1>2, RowsKept DEF Crash, Rollback
  <2>2. Apart(p)
    BY <1>2 DEF Crash, Rollback, Goto, Apart, TypeInv, TypeOK
  <2>3. Sound(p)'
    BY <1>2 DEF Crash, Rollback, Goto, Sound, DraftsSound, EntitySound, ExtractionSound, RunSound,
                HasEntity, Retiring, NoTenders, TypeInv, TypeOK
  <2> QED
    BY <2>1, <2>2, <2>3, StepSound
<1> QED
  BY <1>1, <1>2 DEF WaitTender, WaitDoc, db, tx

-----------------------------------------------------------------------------
LEMMA InitSound == Init => MetadataInv
  BY DEF Init, MetadataInv, ParsedHasMetadata, Sound, DraftsSound, EntitySound, ExtractionSound,
         RunSound, HasEntity, Retiring, NoTenders, Extracted

LEMMA NextSound == TypeInv /\ MetadataInv /\ [Next]_vars => MetadataInv'
<1> SUFFICES ASSUME TypeInv, MetadataInv, [Next]_vars PROVE MetadataInv'
  OBVIOUS
<1>1. CASE UNCHANGED vars
  BY <1>1 DEF vars, MetadataInv, ParsedHasMetadata, Sound, DraftsSound, EntitySound,
              ExtractionSound, RunSound, HasEntity, HasMetadata, Retiring, Holds, Exists
<1> QED
  BY <1>1, DirectSound, RequestSound, ExtractSound, WorkflowSound, DownloadSound, WaitSound DEF Next

\* Whatever requests, workers and crashes interleave, and however many stale
\* entities are written back, a tender at or past PARSED and a tender with a
\* screening result has its extracted metadata.
THEOREM ParsedTendersHaveMetadata == Spec => []ParsedHasMetadata
  BY InitSound, NextSound, TypesHold, PTL DEF Spec, MetadataInv

-----------------------------------------------------------------------------
(***************************************************************************)
(* No tender loses the only copy of a document before it was extracted,    *)
(* for any tenders, documents, requests and batch size.  A file is removed *)
(* by retirement alone, from a document of a tender that was extracted; so *)
(* it is enough that every row, draft and entity of a document names the   *)
(* same tender, and that each that says DOWNLOADED was DOWNLOADED in one   *)
(* of the others or was made so by storing the file.                       *)
(***************************************************************************)

\* t is the tender some row, draft or entity of d names.
Owner(d, t) ==
  \/ doc[d].tender = t
  \/ \E p \in Procs : \/ held[p][d] # None /\ held[p][d].tender = t
                      \/ txDoc[p][d] # None /\ txDoc[p][d].tender = t

OneOwner == \A d \in Docs : \A s, t \in Tenders : Owner(d, s) /\ Owner(d, t) => s = t

\* d's file is in storage, or t was extracted or deleted.
Secured(d, t) == disk[d] # None \/ meta[t] # None \/ tender[t].status = "DELETED"
SecuredNext(d, t) == disk'[d] # None \/ meta'[t] # None \/ tender'[t].status = "DELETED"

\* A row of no document has no tender; one that says DOWNLOADED is secured.
RowKept(d, row) == row # None =>
  /\ row.status = "ABSENT" => row.tender = None
  /\ row.status = "DOWNLOADED" => Secured(d, row.tender)

FilesKept ==
  \A d \in Docs : /\ RowKept(d, doc[d])
                  /\ \A p \in Procs : RowKept(d, held[p][d]) /\ RowKept(d, txDoc[p][d])

\* A document that exists, and one in a draft, is of a tender that exists.
LiveRows ==
  \A d \in Docs : /\ Exists(doc[d]) => Exists(tender[doc[d].tender])
                  /\ \A p \in Procs : txDoc[p][d] # None => Exists(tender[txDoc[p][d].tender])

\* What p has in hand is of the tender it is at, the document in transfer has
\* a draft, and no update waits on a row that is DOWNLOADING.
PlaceOK(p) ==
  /\ pc[p] \in {"upload_add", "retire_purge", "retire_mark"} =>
       \A d \in Docs : Holds(p, d) => held[p][d].tender = at[p]
  /\ \A d \in Docs : InTransfer(p, d) => txDoc[p][d] # None
  /\ base[p] # None => base[p].status # "DOWNLOADING"

FilesInv == OneOwner /\ FilesKept /\ LiveRows /\ \A p \in Procs : PlaceOK(p)

-----------------------------------------------------------------------------
(* What a step of p must show.  u is the tender a new document belongs to. *)

\* row is a row of d's tender, if it is one, DOWNLOADED only if d will be secured.
Follows(d, row, u) == row # None =>
  /\ row.tender \in Tenders =>
       Owner(d, row.tender) \/ (row.tender = u /\ \A s \in Tenders : ~Owner(d, s))
  /\ row.status = "ABSENT" => row.tender = None
  /\ row.status = "DOWNLOADED" => SecuredNext(d, row.tender)

\* Nothing is deleted and only what is no loss is unlinked.
KeepsRows ==
  /\ \A t \in Tenders : Exists(tender[t]) => Exists(tender'[t])
  /\ \A d \in Docs, t \in Tenders : Owner(d, t) /\ Secured(d, t) => SecuredNext(d, t)

\* The other processes are where they were.
Alone(p) == \A q \in Procs \ {p} :
  /\ pc'[q] = pc[q] /\ at'[q] = at[q] /\ held'[q] = held[q]
  /\ txDoc'[q] = txDoc[q] /\ base'[q] = base[q]

\* What a step must show of the row of d, and of p's draft of it.
RowNext(d, u) ==
  Follows(d, doc'[d], u) /\ (Exists(doc'[d]) => Exists(tender'[doc'[d].tender]))

DraftNext(p, d, u) ==
  Follows(d, txDoc'[p][d], u) /\ (txDoc'[p][d] # None => Exists(tender'[txDoc'[p][d].tender]))

LEMMA StepKeeps ==
  ASSUME TypeInv, TypeInv', FilesInv, NEW p \in Procs, NEW u, Alone(p), KeepsRows, PlaceOK(p)',
         \A d \in Docs : RowNext(d, u) /\ Follows(d, held'[p][d], u) /\ DraftNext(p, d, u)
  PROVE  FilesInv'
<1>1. \A d \in Docs, t \in Tenders :
        Owner(d, t)' => Owner(d, t) \/ (t = u /\ \A s \in Tenders : ~Owner(d, s))
  <2> SUFFICES ASSUME NEW d \in Docs, NEW t \in Tenders, Owner(d, t)'
               PROVE  Owner(d, t) \/ (t = u /\ \A s \in Tenders : ~Owner(d, s))
    OBVIOUS
  <2>1. CASE doc'[d].tender = t
    <3>1. doc'[d] # None
      BY NoneApart DEF TypeInv, TypeOK
    <3> QED
      BY <2>1, <3>1 DEF RowNext, Follows
  <2>2. ASSUME NEW q \in Procs, held'[q][d] # None /\ held'[q][d].tender = t
        PROVE  Owner(d, t) \/ (t = u /\ \A s \in Tenders : ~Owner(d, s))
    BY <2>2 DEF Follows, Alone, Owner
  <2>3. ASSUME NEW q \in Procs, txDoc'[q][d] # None /\ txDoc'[q][d].tender = t
        PROVE  Owner(d, t) \/ (t = u /\ \A s \in Tenders : ~Owner(d, s))
    BY <2>3 DEF DraftNext, Follows, Alone, Owner
  <2> QED
    BY <2>1, <2>2, <2>3 DEF Owner
<1>2. OneOwner'
  BY <1>1 DEF OneOwner, FilesInv
<1>3. \A q \in Procs, d \in Docs : q # p =>
        RowKept(d, held[q][d])' /\ RowKept(d, txDoc[q][d])'
  <2> SUFFICES ASSUME NEW q \in Procs \ {p}, NEW d \in Docs
               PROVE  RowKept(d, held[q][d])' /\ RowKept(d, txDoc[q][d])'
    OBVIOUS
  <2>1. held'[q] = held[q] /\ txDoc'[q] = txDoc[q]
    BY DEF Alone
  <2>2. RowKept(d, held[q][d])'
    BY <2>1 DEF RowKept, FilesInv, FilesKept, KeepsRows, Owner, Secured, SecuredNext, TypeInv, HandInv, Owned
  <2>3. RowKept(d, txDoc[q][d])'
    BY <2>1 DEF RowKept, FilesInv, FilesKept, KeepsRows, Owner, Secured, SecuredNext, TypeInv, HandInv, Owned
  <2> QED
    BY <2>2, <2>3
<1>4. FilesKept'
  BY <1>3 DEF FilesKept, RowKept, RowNext, DraftNext, Follows, Secured, SecuredNext
<1>5. LiveRows'
  BY DEF LiveRows, RowNext, DraftNext, FilesInv, Alone, KeepsRows, TypeInv, HandInv, Owned
<1>6. \A q \in Procs : PlaceOK(q)'
  BY DEF PlaceOK, Alone, FilesInv, Holds, InTransfer, First
<1> QED
  BY <1>2, <1>4, <1>5, <1>6 DEF FilesInv

-----------------------------------------------------------------------------
(* The calls several actions make. *)

\* A row any process has of d is a row of d's tender.
LEMMA OldRows ==
  ASSUME TypeInv, FilesInv, NEW p \in Procs, NEW d \in Docs
  PROVE  /\ doc[d].status # "ABSENT" => doc[d] \in DocRow /\ doc[d].tender \in Tenders
         /\ Owner(d, doc[d].tender) /\ RowKept(d, doc[d])
         /\ held[p][d] # None => held[p][d].tender \in Tenders /\ Owner(d, held[p][d].tender)
         /\ txDoc[p][d] # None => txDoc[p][d].tender \in Tenders /\ Owner(d, txDoc[p][d].tender)
         /\ RowKept(d, held[p][d]) /\ RowKept(d, txDoc[p][d])
<1>1. doc[d] \in DocRow /\ doc[d] # None
  BY NoneApart DEF TypeInv, TypeOK
<1> QED
  BY <1>1 DEF TypeInv, HandInv, Owned, Owner, FilesInv, FilesKept

\* What p reads of a document that exists, or that it drafted, is such a row.
LEMMA SeenRows ==
  ASSUME TypeInv, FilesInv, NEW p \in Procs, NEW d \in Docs, Exists(doc[d]) \/ txDoc[p][d] # None
  PROVE  LET row == SeenDoc(p, d) IN
         /\ row \in DocRow /\ row.tender \in Tenders /\ Owner(d, row.tender)
         /\ RowKept(d, row) /\ Exists(tender[row.tender])
<1>1. SeenDoc(p, d) \in DocRow
  BY SeenTypes DEF TypeInv
<1> QED
  BY <1>1, OldRows DEF SeenDoc, FilesInv, LiveRows, Exists, NoRow

\* update() drafts a row of d's tender, DOWNLOADED if the entity or the row was.
LEMMA PutFollows ==
  ASSUME TypeInv, FilesInv, NEW p \in Procs, NEW d \in Docs, Exists(doc[d]) \/ txDoc[p][d] # None,
         NEW e \in DocRow, e.tender \in Tenders, Owner(d, e.tender), e.status # "ABSENT"
  PROVE  \A f \in Docs : LET w == PutDoc(p, d, e)[f] IN w # None =>
           /\ w \in DocRow /\ w.tender \in Tenders /\ Owner(f, w.tender)
           /\ w.status # "ABSENT" /\ Exists(tender[w.tender])
           /\ w.status = "DOWNLOADED" =>
                Secured(f, w.tender) \/ (f = d /\ e.status = "DOWNLOADED" /\ e.tender = w.tender)
<1> DEFINE row == SeenDoc(p, d)
           m == Merge(e, Selected(p, row), row)
<1>1. /\ row \in DocRow /\ row.tender \in Tenders /\ Owner(d, row.tender)
      /\ RowKept(d, row) /\ Exists(tender[row.tender])
  BY SeenRows
<1>2. m \in DocRow /\ m.status \in {e.status, row.status} /\ m.tender \in {e.tender, row.tender}
  BY <1>1, MergeDoc
<1>3. m.tender = e.tender /\ m.tender = row.tender
  BY <1>1, <1>2 DEF FilesInv, OneOwner
<1>4. row # None
  BY <1>1, NoneApart
<1> HIDE DEF m, row
<1>5. /\ m.status # "ABSENT" /\ Exists(tender[m.tender])
      /\ m.status = "DOWNLOADED" => Secured(d, m.tender) \/ e.status = "DOWNLOADED"
  BY <1>1, <1>2, <1>3, <1>4, NoneApart DEF RowKept
<1>6. PutDoc(p, d, e) \in {txDoc[p], [txDoc[p] EXCEPT ![d] = m]}
  BY DEF PutDoc, m, row
<1>7. ASSUME NEW f \in Docs, txDoc[p][f] # None
      PROVE  /\ txDoc[p][f] \in DocRow /\ txDoc[p][f].tender \in Tenders /\ Owner(f, txDoc[p][f].tender)
             /\ txDoc[p][f].status # "ABSENT" /\ Exists(tender[txDoc[p][f].tender])
             /\ txDoc[p][f].status = "DOWNLOADED" => Secured(f, txDoc[p][f].tender)
  BY <1>7, OldRows, NoneApart DEF RowKept, FilesInv, LiveRows, TypeInv, TypeOK
<1> QED
  BY <1>1, <1>2, <1>3, <1>5, <1>6, <1>7 DEF TypeInv, TypeOK

\* Nothing is lost by a step that leaves tenders, metadata and files alone.
LEMMA NothingLost ==
  ASSUME UNCHANGED <<tender, meta, disk>>
  PROVE  KeepsRows /\ \A d \in Docs, t \in Tenders : Secured(d, t) => SecuredNext(d, t)
  BY DEF KeepsRows, Exists, Secured, SecuredNext

\* A process that has nothing left in hand.
LEMMA RestKeeps ==
  ASSUME TypeInv, NEW p \in Procs, pc'[p] \in {"idle", "queue"}, base'[p] = None
  PROVE  PlaceOK(p)'
  BY DEF PlaceOK, InTransfer

LEMMA FailKeeps ==
  ASSUME TypeInv, TypeInv', FilesInv, NEW p \in Procs, Rollback(p), UNCHANGED disk,
         \A q \in Procs \ {p} : pc'[q] = pc[q] /\ at'[q] = at[q],
         held' = [held EXCEPT ![p] = NoDocs], base' = [base EXCEPT ![p] = None],
         pc'[p] \in {"idle", "queue"}
  PROVE  FilesInv'
<1>1. Alone(p) /\ PlaceOK(p)'
  BY RestKeeps DEF Rollback, Alone, PlaceOK, InTransfer, TypeInv, TypeOK
<1>2. \A d \in Docs : held'[p][d] = None /\ txDoc'[p][d] = None
  BY DEF Rollback, NoDocs, TypeInv, TypeOK
<1>3. UNCHANGED <<tender, doc, meta>>
  BY DEF Rollback
<1>4. \A d \in Docs : RowNext(d, None) /\ Follows(d, held'[p][d], None) /\ DraftNext(p, d, None)
  BY <1>2, <1>3, NothingLost, OldRows, NoneApart
     DEF RowNext, DraftNext, Follows, RowKept, Exists, Secured, SecuredNext, FilesInv, LiveRows,
         TypeInv, TypeOK
<1> QED
  BY <1>1, <1>3, <1>4, NothingLost, StepKeeps

\* What p may publish as the row of d.
Publishable(d, w) == w # None =>
  /\ w \in DocRow /\ w.tender \in Tenders /\ Owner(d, w.tender)
  /\ w.status # "ABSENT" /\ Exists(tender[w.tender])
  /\ w.status = "DOWNLOADED" => Secured(d, w.tender)

LEMMA DraftsPublishable ==
  ASSUME TypeInv, FilesInv, NEW p \in Procs, NEW d \in Docs
  PROVE  Publishable(d, txDoc[p][d])
  BY OldRows, NoneApart DEF Publishable, RowKept, FilesInv, LiveRows, TypeInv, TypeOK

LEMMA CommitKeeps ==
  ASSUME TypeInv, TypeInv', FilesInv, NEW p \in Procs, NEW tw, NEW dw, Supported(p, tw),
         \A d \in Docs : Publishable(d, dw[d]),
         CommitDrafts(p, tw, dw, txMeta[p]), Finish(p), UNCHANGED disk
  PROVE  FilesInv'
<1>1. Alone(p) /\ PlaceOK(p)'
  <2>1. pc'[p] \in {"idle", "queue"} /\ base'[p] = None
    BY DEF Finish, TypeInv, TypeOK
  <2> QED
    BY <2>1, RestKeeps DEF CommitDrafts, Finish, Alone, TypeInv, TypeOK
<1>2. \A d \in Docs : held'[p][d] = None /\ txDoc'[p][d] = None
  BY DEF CommitDrafts, Finish, NoDocs, TypeInv, TypeOK
<1>3. /\ \A t \in Tenders : Exists(tender[t]) => Exists(tender'[t])
      /\ \A t \in Tenders : tender[t].status = "DELETED" => tender'[t].status = "DELETED"
      /\ \A t \in Tenders : meta[t] # None => meta'[t] # None
  BY DEF Supported, CommitDrafts, Exists, NoRow, TypeInv, TypeOK
<1>4. KeepsRows /\ \A d \in Docs, t \in Tenders : Secured(d, t) => SecuredNext(d, t)
  BY <1>3 DEF KeepsRows, Secured, SecuredNext
<1>5. \A d \in Docs : doc'[d] = IF dw[d] # None THEN dw[d] ELSE doc[d]
  BY DEF CommitDrafts
<1>6. ASSUME NEW d \in Docs PROVE RowNext(d, None)
  <2>1. CASE dw[d] # None
    BY <1>3, <1>4, <1>5, <2>1 DEF RowNext, Follows, Publishable
  <2>2. CASE dw[d] = None
    <3>1. doc'[d] = doc[d] /\ doc[d] # None /\ doc[d] \in DocRow
      BY <1>5, <2>2, NoneApart DEF TypeInv, TypeOK
    <3>2. Exists(doc[d]) => doc[d].tender \in Tenders
      BY OldRows DEF Exists, NoRow
    <3>3. doc[d].status = "DOWNLOADED" => doc[d].tender \in Tenders
      BY OldRows
    <3> QED
      BY <1>3, <1>4, <3>1, <3>2, <3>3, OldRows DEF RowNext, Follows, RowKept, FilesInv, LiveRows
  <2> QED
    BY <2>1, <2>2
<1>7. \A d \in Docs : Follows(d, held'[p][d], None) /\ DraftNext(p, d, None)
  BY <1>2 DEF DraftNext, Follows
<1> QED
  BY <1>1, <1>4, <1>6, <1>7, StepKeeps

\* A step of p that changes no row, draft or file.
LEMMA ReadKeeps ==
  ASSUME TypeInv, TypeInv', FilesInv, NEW p \in Procs, UNCHANGED <<tender, doc, meta, txDoc, disk>>,
         Alone(p), PlaceOK(p)', \A d \in Docs : Follows(d, held'[p][d], None)
  PROVE  FilesInv'
<1>1. ASSUME NEW d \in Docs PROVE RowNext(d, None) /\ DraftNext(p, d, None)
  <2>1. doc[d].status # "ABSENT" => doc[d].tender \in Tenders
    BY OldRows
  <2>2. /\ RowKept(d, doc[d]) /\ Owner(d, doc[d].tender) /\ Publishable(d, txDoc[p][d])
        /\ Exists(doc[d]) => Exists(tender[doc[d].tender])
    BY OldRows, DraftsPublishable DEF FilesInv, LiveRows
  <2>3. RowNext(d, None)
    BY <2>1, <2>2, NothingLost DEF RowNext, Follows, RowKept, Exists, NoRow, Secured, SecuredNext
  <2>4. DraftNext(p, d, None)
    BY <2>2, NothingLost DEF DraftNext, Follows, Publishable, Exists
  <2> QED
    BY <2>3, <2>4
<1> QED
  BY <1>1, NothingLost, StepKeeps

\* What p held it may go on holding.
LEMMA HeldFollows ==
  ASSUME TypeInv, FilesInv, NEW p \in Procs, NEW d \in Docs, KeepsRows
  PROVE  Follows(d, held[p][d], None)
  BY OldRows DEF Follows, RowKept, KeepsRows

\* A step of p that updates the document d with e, and loses no file.
LEMMA UpdateKeeps ==
  ASSUME TypeInv, TypeInv', FilesInv, NEW p \in Procs, NEW d \in Docs,
         Exists(doc[d]) \/ txDoc[p][d] # None,
         NEW e \in DocRow, e.tender \in Tenders, Owner(d, e.tender), e.status # "ABSENT",
         e.status = "DOWNLOADED" => SecuredNext(d, e.tender),
         UpdateDoc(p, d, e), UNCHANGED <<tender, doc, meta>>,
         \A f \in Docs : disk[f] # None => disk'[f] # None,
         \A q \in Procs \ {p} : /\ pc'[q] = pc[q] /\ at'[q] = at[q]
                                /\ held'[q] = held[q] /\ base'[q] = base[q],
         PlaceOK(p)', \A f \in Docs : Follows(f, held'[p][f], None)
  PROVE  FilesInv'
<1>1. KeepsRows /\ \A f \in Docs, t \in Tenders : Secured(f, t) => SecuredNext(f, t)
  BY DEF KeepsRows, Secured, SecuredNext, Exists
<1>2. txDoc'[p] = PutDoc(p, d, e) /\ Alone(p)
  BY DEF UpdateDoc, Alone, TypeInv, TypeOK
<1>3. ASSUME NEW f \in Docs PROVE RowNext(f, None)
  <2>1. doc[f].status # "ABSENT" => doc[f].tender \in Tenders
    BY OldRows
  <2>2. /\ RowKept(f, doc[f]) /\ Owner(f, doc[f].tender)
        /\ Exists(doc[f]) => Exists(tender[doc[f].tender])
    BY OldRows DEF FilesInv, LiveRows
  <2> QED
    BY <1>1, <2>1, <2>2 DEF RowNext, Follows, RowKept, Exists, NoRow
<1>4. ASSUME NEW f \in Docs PROVE DraftNext(p, f, None)
  <2>1. LET w == PutDoc(p, d, e)[f] IN w # None =>
           /\ w \in DocRow /\ w.tender \in Tenders /\ Owner(f, w.tender)
           /\ w.status # "ABSENT" /\ Exists(tender[w.tender])
           /\ w.status = "DOWNLOADED" =>
                Secured(f, w.tender) \/ (f = d /\ e.status = "DOWNLOADED" /\ e.tender = w.tender)
    BY PutFollows
  <2> QED
    BY <1>1, <1>2, <2>1 DEF DraftNext, Follows, Exists
<1> QED
  BY <1>1, <1>2, <1>3, <1>4, StepKeeps

-----------------------------------------------------------------------------
(* Each action. *)

LEMMA DirectKeeps ==
  ASSUME TypeInv, TypeInv', FilesInv, DirectStep
  PROVE  FilesInv'
<1>0. UNCHANGED <<tx, local, disk>> /\ UNCHANGED <<txDoc, held>> /\ \A p \in Procs : PlaceOK(p)'
  <2>1. UNCHANGED <<tx, local, disk>>
    BY DEF DirectStep, CreateTender, AddFromUrl, DeleteTender, Screen
  <2> QED
    BY <2>1 DEF FilesInv, PlaceOK, Holds, InTransfer, First, tx, local
<1>a. ASSUME \A d \in Docs, t \in Tenders : Secured(d, t) => Secured(d, t)',
             \A d \in Docs, t \in Tenders : Owner(d, t)' => Owner(d, t),
             \A d \in Docs : RowKept(d, doc[d])',
             \A d \in Docs : Exists(doc'[d]) => Exists(tender'[doc'[d].tender]),
             \A p \in Procs, d \in Docs :
                txDoc[p][d] # None => Exists(tender'[txDoc[p][d].tender])
      PROVE  FilesInv'
  <2>1. OneOwner'
    BY <1>a DEF FilesInv, OneOwner
  <2>2. ASSUME NEW d \in Docs, NEW p \in Procs PROVE RowKept(d, held[p][d])' /\ RowKept(d, txDoc[p][d])'
    <3>1. /\ RowKept(d, held[p][d]) /\ RowKept(d, txDoc[p][d])
          /\ held[p][d] # None => held[p][d].tender \in Tenders
          /\ txDoc[p][d] # None => txDoc[p][d].tender \in Tenders
      BY OldRows
    <3> QED
      BY <1>0, <1>a, <3>1 DEF RowKept
  <2>3. FilesKept'
    BY <1>a, <2>2 DEF FilesKept
  <2>4. LiveRows'
    BY <1>0, <1>a DEF LiveRows, Exists
  <2> QED
    BY <1>0, <2>1, <2>3, <2>4 DEF FilesInv
<1>b. \A d \in Docs : /\ doc[d] # None /\ RowKept(d, doc[d])
                      /\ doc[d].status # "ABSENT" => doc[d].tender \in Tenders
                      /\ Exists(doc[d]) => doc[d].tender \in Tenders /\ Exists(tender[doc[d].tender])
  <2>1. \A d \in Docs : doc[d] # None /\ RowKept(d, doc[d])
    BY NoneApart DEF FilesInv, FilesKept, TypeInv, TypeOK
  <2>2. \A d \in Docs : /\ doc[d].status # "ABSENT" => doc[d].tender \in Tenders
                        /\ Exists(doc[d]) => Exists(tender[doc[d].tender])
    BY <2>1 DEF FilesInv, LiveRows, TypeInv, HandInv, Owned
  <2> QED
    BY <2>1, <2>2 DEF Exists, NoRow
<1>c. \A p \in Procs, d \in Docs :
        txDoc[p][d] # None => txDoc[p][d].tender \in Tenders /\ Exists(tender[txDoc[p][d].tender])
  BY DEF FilesInv, LiveRows, TypeInv, HandInv, Owned
<1>1. ASSUME UNCHANGED <<doc, meta>>, \A t \in Tenders : Exists(tender[t]) => Exists(tender'[t]),
             \A t \in Tenders : tender[t].status = "DELETED" => tender'[t].status = "DELETED"
      PROVE  FilesInv'
  <2>1. \A d \in Docs, t \in Tenders : Secured(d, t) => Secured(d, t)'
    BY <1>0, <1>1 DEF Secured
  <2>2. \A d \in Docs, t \in Tenders : Owner(d, t)' => Owner(d, t)
    BY <1>0, <1>1 DEF Owner
  <2>3. \A d \in Docs : RowKept(d, doc[d])'
    BY <1>1, <1>b, <2>1 DEF RowKept
  <2> QED
    BY <1>1, <1>a, <1>b, <1>c, <2>1, <2>2, <2>3 DEF Exists
<1>2. ASSUME NEW t \in Tenders, NEW c \in Closings, CreateTender(t, c) PROVE FilesInv'
  BY <1>1, <1>2 DEF CreateTender, Exists, NoRow, TypeInv, TypeOK
<1>3. ASSUME NEW t \in Tenders, Screen(t) PROVE FilesInv'
  BY <1>1, <1>3 DEF Screen
<1>4. ASSUME NEW t \in Tenders, NEW d \in Docs, AddFromUrl(t, d) PROVE FilesInv'
  <2>1. UNCHANGED <<tender, meta>> /\ Exists(tender[t]) /\ FreshDoc(d)
        /\ doc' = [doc EXCEPT ![d] = [tender |-> t, url |-> TRUE, status |-> "PENDING",
                                      file |-> None, text |-> None, purged |-> FALSE]]
    BY <1>4 DEF AddFromUrl
  <2>2. /\ doc'[d].tender = t /\ doc'[d].status = "PENDING"
        /\ \A f \in Docs \ {d} : doc'[f] = doc[f]
    BY <2>1 DEF TypeInv, TypeOK
  <2>3. /\ doc[d].tender = None
        /\ \A p \in Procs : held[p][d] = None /\ txDoc[p][d] = None
    BY <1>b, <2>1 DEF FreshDoc, RowKept
  <2>4. OneOwner'
    <3>1. \A s \in Tenders : Owner(d, s)' => s = t
      BY <1>0, <2>2, <2>3, NoneApart DEF Owner
    <3>2. \A f \in Docs \ {d}, s \in Tenders : Owner(f, s)' => Owner(f, s)
      BY <1>0, <2>2 DEF Owner
    <3> QED
      BY <3>1, <3>2 DEF FilesInv, OneOwner
  <2>5. FilesKept'
    BY <1>0, <2>1, <2>2 DEF FilesInv, FilesKept, RowKept, Secured
  <2>6. LiveRows'
    BY <1>0, <2>1, <2>2 DEF FilesInv, LiveRows, Exists
  <2> QED
    BY <1>0, <2>4, <2>5, <2>6 DEF FilesInv
<1>5. ASSUME NEW t \in Tenders, DeleteTender(t) PROVE FilesInv'
  <2>1. /\ tender'[t].status = "DELETED"
        /\ \A s \in Tenders \ {t} : tender'[s] = tender[s] /\ meta'[s] = meta[s]
        /\ \A p \in Procs, d \in Docs : txDoc[p][d] # None => txDoc[p][d].tender # t
    <3>1. [tender[t] EXCEPT !.status = "DELETED"].status = "DELETED"
      BY DEF TypeInv, TypeOK, TenderRow
    <3> QED
      BY <1>5, <3>1 DEF DeleteTender, TypeInv, TypeOK
  <2>2. \A d \in Docs : IF doc[d].tender = t
                        THEN doc'[d].tender = t /\ doc'[d].status = "DELETED"
                        ELSE doc'[d] = doc[d]
    BY <1>5 DEF DeleteTender, DocRow, TypeInv, TypeOK
  <2>3. \A d \in Docs, s \in Tenders : Secured(d, s) => Secured(d, s)'
    BY <1>0, <2>1 DEF Secured
  <2>4. \A d \in Docs, s \in Tenders : Owner(d, s)' => Owner(d, s)
    BY <1>0, <2>2 DEF Owner
  <2>5. \A d \in Docs : RowKept(d, doc[d])'
    BY <1>b, <2>2, <2>3 DEF RowKept
  <2>6. \A d \in Docs : Exists(doc'[d]) => Exists(tender'[doc'[d].tender])
    BY <1>b, <2>1, <2>2 DEF Exists, NoRow
  <2>7. \A p \in Procs, d \in Docs :
          txDoc[p][d] # None => Exists(tender'[txDoc[p][d].tender])
    BY <1>c, <2>1 DEF Exists
  <2> QED
    BY <1>a, <2>3, <2>4, <2>5, <2>6, <2>7
<1> QED
  BY <1>2, <1>3, <1>4, <1>5 DEF DirectStep

LEMMA WaitKeeps ==
  ASSUME TypeInv, TypeInv', DownloadInv, FilesInv, NEW p \in Procs,
         WaitTender(p) \/ (\E d \in Docs : WaitDoc(p, d)) \/ Crash(p)
  PROVE  FilesInv'
<1>1. CASE Crash(p)
  BY <1>1, FailKeeps DEF Crash, Goto, TypeInv, TypeOK
<1>2. ASSUME base' = [base EXCEPT ![p] = base'[p]], base'[p].status # "DOWNLOADING",
             UNCHANGED <<db, disk, tx, pc, at, held>>
      PROVE  FilesInv'
  <2>1. Alone(p) /\ UNCHANGED <<tender, doc, meta, txDoc, disk, pc, at, held>>
    BY <1>2 DEF Alone, db, tx, TypeInv, TypeOK
  <2>2. PlaceOK(p)'
    BY <1>2, <2>1 DEF PlaceOK, FilesInv, InTransfer, First, Holds
  <2> QED
    BY <2>1, <2>2, NothingLost, HeldFollows, ReadKeeps
<1>3. CASE WaitTender(p)
  <2>1. SeenTender(p, at[p]) \in TenderRow
    BY <1>3, SeenTypes DEF WaitTender, HasTender, HasEntity, TypeInv, HandInv
  <2>2. SeenTender(p, at[p]).status # "DOWNLOADING"
    BY <2>1 DEF TenderRow, TenderStatuses, NoRow
  <2> QED
    BY <1>2, <1>3, <2>2 DEF WaitTender, TypeInv, TypeOK
<1>4. ASSUME NEW d \in Docs, WaitDoc(p, d) PROVE FilesInv'
  <2>1. SeenDoc(p, d).status # "DOWNLOADING"
    BY <1>4, NoneApart DEF WaitDoc, SeenDoc, DownloadInv, NotDownloading, InTransfer, TypeInv, TypeOK
  <2> QED
    BY <1>2, <1>4, <2>1 DEF WaitDoc, TypeInv, TypeOK
<1> QED
  BY <1>1, <1>3, <1>4

LEMMA ReadDocumentKeeps ==
  ASSUME TypeInv, TypeInv', FilesInv, NEW p \in Procs, NEW t \in Tenders, NEW d \in Docs,
         ReadDocument(p, t, d)
  PROVE  FilesInv'
<1> DEFINE e == [doc[d] EXCEPT !.text = disk[d]]
<1>1. e.tender = doc[d].tender /\ e.status = doc[d].status /\ doc[d].status = "DOWNLOADED"
  BY DEF ReadDocument, Selectable, DocRow, TypeInv, TypeOK
<1>2. UNCHANGED <<tender, doc, meta, txDoc, disk>> /\ held'[p] = [NoDocs EXCEPT ![d] = e]
      /\ Alone(p) /\ pc'[p] = "extract_store" /\ base'[p] = None
  BY DEF ReadDocument, Goto, Keep, Alone, db, tx, TypeInv, TypeOK
<1>3. PlaceOK(p)'
  BY <1>2 DEF PlaceOK, InTransfer
<1>4. RowKept(d, doc[d]) /\ Owner(d, doc[d].tender) /\ doc[d] # None
  BY OldRows, NoneApart DEF TypeInv, TypeOK
<1> HIDE DEF e
<1>5. ASSUME NEW f \in Docs PROVE Follows(f, held'[p][f], None)
  <2>1. held'[p][f] = IF f = d THEN e ELSE None
    BY <1>2 DEF NoDocs
  <2> QED
    BY <1>1, <1>2, <1>4, <2>1 DEF Follows, RowKept, Secured, SecuredNext
<1> QED
  BY <1>2, <1>3, <1>5, ReadKeeps

LEMMA WorkflowKeeps ==
  ASSUME TypeInv, TypeInv', FilesInv, WorkflowStep
  PROVE  FilesInv'
<1>0. Workflow \in Procs /\ Workflow # Downloader
  BY PipelineAssumption DEF Procs
<1>1. ASSUME NEW t \in Tenders, NEW d \in Docs, WorkflowExtract(t, d) PROVE FilesInv'
  BY <1>0, <1>1, ReadDocumentKeeps DEF WorkflowExtract
<1>2. CASE WorkflowFetch \/ WorkflowDone \/ \E t \in Tenders : WorkflowSkip(t)
  <2>1. UNCHANGED <<tender, doc, meta, txDoc, disk, held>> /\ Alone(Workflow)
        /\ pc'[Workflow] \in {"queue", "idle"} /\ base'[Workflow] \in {None, base[Workflow]}
    BY <1>0, <1>2 DEF WorkflowFetch, WorkflowDone, WorkflowSkip, Goto, Alone, db, tx, TypeInv, TypeOK
  <2>2. PlaceOK(Workflow)'
    BY <1>0, <2>1 DEF PlaceOK, InTransfer, FilesInv
  <2> QED
    BY <1>0, <2>1, <2>2, NothingLost, HeldFollows, ReadKeeps
<1> QED
  BY <1>1, <1>2 DEF WorkflowStep

LEMMA ExtractKeeps ==
  ASSUME TypeInv, TypeInv', MetadataInv, FilesInv, NEW p \in Requests \cup {Workflow}, ExtractStep(p)
  PROVE  FilesInv'
<1>0. p \in Procs /\ p # Downloader
  BY PipelineAssumption DEF Procs
<1>a. Supported(p, txTender[p]) /\ \A d \in Docs : Publishable(d, txDoc[p][d])
  BY <1>0, DraftsPublishable DEF MetadataInv, Sound, DraftsSound, Supported
<1>1. CASE Fail(p)
  BY <1>0, <1>1, FailKeeps DEF Fail, Finish, TypeInv, TypeOK
<1>2. ASSUME NEW d \in Docs, ExtractStore(p, d), ~Fail(p) PROVE FilesInv'
  <2>1. /\ held[p][d] \in DocRow /\ held[p][d].tender \in Tenders /\ held[p][d] # None
        /\ Owner(d, held[p][d].tender) /\ RowKept(d, held[p][d])
    BY <1>0, <1>2, HeldFields, OldRows DEF ExtractStore, Holds
  <2>2. /\ Exists(doc[d]) /\ UpdateDoc(p, d, held[p][d]) /\ pc' = [pc EXCEPT ![p] = "extract_advance"]
        /\ base' = [base EXCEPT ![p] = None]
        /\ UNCHANGED <<tender, doc, meta, disk, at, held>>
    BY <1>2 DEF ExtractStore, Goto, db
  <2>3. held[p][d].status # "ABSENT"
    BY <2>1, NoneApart DEF RowKept
  <2>4. /\ \A q \in Procs \ {p} : /\ pc'[q] = pc[q] /\ at'[q] = at[q]
                                  /\ held'[q] = held[q] /\ base'[q] = base[q]
        /\ PlaceOK(p)'
    BY <1>0, <2>2 DEF PlaceOK, InTransfer, TypeInv, TypeOK
  <2>5. \A f \in Docs : Follows(f, held'[p][f], None)
    BY <1>0, <2>2, NothingLost, HeldFollows
  <2>6. held[p][d].status = "DOWNLOADED" => SecuredNext(d, held[p][d].tender)
    BY <2>1, <2>2 DEF RowKept, Secured, SecuredNext
  <2> QED
    BY <1>0, <2>1, <2>2, <2>3, <2>4, <2>5, <2>6, UpdateKeeps
<1>3. CASE ExtractAdvance(p)
  <2> DEFINE t == at[p]
             advances == Exists(ent[p]) /\ CanTransition(ent[p].status, "PARSED")
             parsed == [ent[p] EXCEPT !.status = "PARSED"]
             tw == IF advances THEN PutTender(p, t, parsed) ELSE txTender[p]
  <2>1. t \in Tenders /\ ent[p] \in TenderRow /\ HasMetadata(p, t)
    BY <1>0, <1>3
       DEF ExtractAdvance, HasEntity, HasTender, ExtractionSound, Sound, MetadataInv, TypeInv, HandInv
  <2>2. CASE Rollback(p)
    BY <1>0, <1>3, <2>2, FailKeeps DEF ExtractAdvance, Finish, TypeInv, TypeOK
  <2>3. CASE ~Rollback(p)
    <3>1. /\ CommitDrafts(p, tw, txDoc[p], txMeta[p]) /\ Finish(p) /\ UNCHANGED disk
          /\ advances => Exists(tender[t])
      BY <1>3, <2>3 DEF ExtractAdvance
    <3>2. parsed \in TenderRow /\ Exists(parsed)
      BY <2>1 DEF TenderRow, TenderStatuses, Exists, NoRow
    <3>3. Supported(p, tw)
      BY <1>0, <1>a, <2>1, <3>1, <3>2, PutSound
    <3> HIDE DEF tw, advances
    <3> QED
      BY <1>0, <1>a, <3>1, <3>3, CommitKeeps
  <2> QED
    BY <2>2, <2>3
<1> QED
  BY <1>1, <1>2, <1>3 DEF ExtractStep

LEMMA DownloadKeeps ==
  ASSUME TypeInv, TypeInv', MetadataInv, DownloadInv, FilesInv, DownloadStep
  PROVE  FilesInv'
<1> PICK p : p = Downloader /\ p \in Procs
  BY DEF Procs
<1>a. Supported(p, txTender[p]) /\ \A d \in Docs : Publishable(d, txDoc[p][d])
  BY DraftsPublishable DEF MetadataInv, Sound, DraftsSound, Supported
<1>1. CASE DownloadFetch
  <2>1. /\ UNCHANGED <<tender, doc, meta, txDoc, disk>> /\ Alone(p)
        /\ pc'[p] = "batch" /\ base'[p] = None
    BY <1>1 DEF DownloadFetch, Goto, Alone, db, tx, TypeInv, TypeOK
  <2>2. \A d \in Docs : held'[p][d] # None => held'[p][d] = doc[d] /\ doc[d].status = "PENDING"
    BY <1>1 DEF DownloadFetch, PendingDocs, TypeInv, TypeOK
  <2>3. PlaceOK(p)'
    BY <2>1 DEF PlaceOK, InTransfer
  <2>4. \A d \in Docs : Follows(d, held'[p][d], None)
    BY <2>2, OldRows DEF Follows
  <2> QED
    BY <2>1, <2>3, <2>4, ReadKeeps
<1>2. ASSUME NEW d \in Docs, DownloadStart(d) PROVE FilesInv'
  <2>0. pc[p] = "batch" /\ First(p, d) /\ Holds(p, d)
    BY <1>2 DEF DownloadStart, First
  <2> DEFINE s == IF held[p][d].url THEN "DOWNLOADING" ELSE "FAILED"
             e == [held[p][d] EXCEPT !.status = s]
  <2>1. CASE Fail(p)
    BY <2>1, FailKeeps DEF Fail, Finish, TypeInv, TypeOK
  <2>2. CASE ~Fail(p)
    <3>1. /\ held[p][d] \in DocRow /\ held[p][d].tender \in Tenders /\ Owner(d, held[p][d].tender)
      BY <2>0, HeldFields, OldRows DEF Holds
    <3>2. e \in DocRow /\ e.tender = held[p][d].tender /\ e.status = s /\ e.url = held[p][d].url
      BY <3>1 DEF DocRow, DocumentStatuses
    <3>3. /\ Exists(doc[d]) /\ UpdateDoc(p, d, e) /\ UNCHANGED <<tender, doc, meta, disk, at>>
          /\ base' = [base EXCEPT ![p] = None]
          /\ \/ s = "DOWNLOADING" /\ pc' = [pc EXCEPT ![p] = "download"] /\ UNCHANGED held
             \/ pc' = [pc EXCEPT ![p] = "batch"] /\ Drop(p, d)
      BY <1>2, <2>2, <3>2 DEF DownloadStart, Goto, db
    <3>4. s \in {"DOWNLOADING", "FAILED"}
      OBVIOUS
    <3> HIDE DEF e, s
    <3>5. /\ \A q \in Procs \ {p} : /\ pc'[q] = pc[q] /\ at'[q] = at[q]
                                    /\ held'[q] = held[q] /\ base'[q] = base[q]
          /\ \A f \in Docs : held'[p][f] \in {None, held[p][f]}
          /\ base'[p] = None
      BY <3>3 DEF Drop, TypeInv, TypeOK
    <3>6. PlaceOK(p)'
      <4>1. CASE pc'[p] = "batch"
        BY <3>5, <4>1 DEF PlaceOK, InTransfer
      <4>2. CASE s = "DOWNLOADING" /\ pc'[p] = "download" /\ UNCHANGED held
        <5>1. SeenDoc(p, d).status # "DOWNLOADING"
          BY <2>0, NoneApart DEF SeenDoc, DownloadInv, NotDownloading, InTransfer, TypeInv, TypeOK
        <5>2. Selected(p, SeenDoc(p, d)) # e
          BY <3>2, <4>2, <5>1 DEF Selected, FilesInv, PlaceOK
        <5>3. Merge(e, Selected(p, SeenDoc(p, d)), SeenDoc(p, d)) # None
          <6>1. SeenDoc(p, d) \in DocRow
            BY SeenTypes DEF TypeInv
          <6> QED
            BY <3>2, <6>1, MergeDoc, NoneApart
        <5>4. txDoc'[p][d] # None
          BY <3>3, <5>2, <5>3 DEF UpdateDoc, PutDoc, TypeInv, TypeOK
        <5>5. \A f \in Docs : First(p, f)' => f = d
          BY <2>0, <4>2, PipelineAssumption DEF First, Holds
        <5> QED
          BY <3>5, <4>2, <5>4, <5>5 DEF PlaceOK, InTransfer
      <4> QED
        BY <3>3, <4>1, <4>2 DEF TypeInv, TypeOK
    <3>7. \A f \in Docs : Follows(f, held'[p][f], None)
      BY <3>3, <3>5, NothingLost, HeldFollows DEF Follows
    <3> QED
      BY <3>1, <3>2, <3>3, <3>4, <3>5, <3>6, <3>7, UpdateKeeps
  <2> QED
    BY <2>1, <2>2
<1>3. ASSUME NEW d \in Docs, NEW c \in Contents, DownloadSave(d, c) PROVE FilesInv'
  <2> DEFINE e == [held[p][d] EXCEPT !.status = "DOWNLOADED", !.file = c]
  <2>1. pc[p] = "download" /\ First(p, d) /\ Holds(p, d) /\ txDoc[p][d] # None
    BY <1>3 DEF DownloadSave, First, FilesInv, PlaceOK, InTransfer
  <2>2. held[p][d] \in DocRow /\ held[p][d].tender \in Tenders /\ Owner(d, held[p][d].tender)
    BY <2>1, HeldFields, OldRows DEF Holds
  <2>3. e \in DocRow /\ e.tender = held[p][d].tender /\ e.status = "DOWNLOADED"
    BY <2>2 DEF DocRow, DocumentStatuses
  <2>4. /\ disk' = [disk EXCEPT ![d] = c] /\ UpdateDoc(p, d, e) /\ UNCHANGED <<tender, doc, meta>>
        /\ pc' = [pc EXCEPT ![p] = "advance"] /\ base' = [base EXCEPT ![p] = None]
        /\ held' = [held EXCEPT ![p][d] = e] /\ at' = [at EXCEPT ![p] = held[p][d].tender]
    BY <1>3 DEF DownloadSave, Goto, db
  <2> HIDE DEF e
  <2>5. c # None /\ disk'[d] # None /\ \A f \in Docs : disk[f] # None => disk'[f] # None
    BY <2>4, NoneApart DEF TypeInv, TypeOK
  <2>6. /\ \A q \in Procs \ {p} : /\ pc'[q] = pc[q] /\ at'[q] = at[q]
                                  /\ held'[q] = held[q] /\ base'[q] = base[q]
        /\ \A f \in Docs : held'[p][f] = IF f = d THEN e ELSE held[p][f]
        /\ pc'[p] = "advance" /\ base'[p] = None
    BY <2>4 DEF TypeInv, TypeOK
  <2>7. PlaceOK(p)'
    BY <2>6 DEF PlaceOK, InTransfer
  <2>8. KeepsRows
    BY <2>4, <2>5 DEF KeepsRows, Secured, SecuredNext, Exists
  <2>9. \A f \in Docs : Follows(f, held'[p][f], None)
    BY <2>2, <2>3, <2>5, <2>6, <2>8, HeldFollows DEF Follows, SecuredNext
  <2> QED
    BY <2>1, <2>2, <2>3, <2>4, <2>5, <2>6, <2>7, <2>9, UpdateKeeps DEF SecuredNext
<1>4. ASSUME NEW d \in Docs, DownloadFail(d) PROVE FilesInv'
  <2> DEFINE e == [held[p][d] EXCEPT !.status = "FAILED"]
  <2>1. pc[p] = "download" /\ First(p, d) /\ Holds(p, d) /\ txDoc[p][d] # None
    BY <1>4 DEF DownloadFail, First, FilesInv, PlaceOK, InTransfer
  <2>2. held[p][d] \in DocRow /\ held[p][d].tender \in Tenders /\ Owner(d, held[p][d].tender)
    BY <2>1, HeldFields, OldRows DEF Holds
  <2>3. e \in DocRow /\ e.tender = held[p][d].tender /\ e.status = "FAILED"
    BY <2>2 DEF DocRow, DocumentStatuses
  <2>4. /\ UpdateDoc(p, d, e) /\ UNCHANGED <<tender, doc, meta, disk, at>>
        /\ pc' = [pc EXCEPT ![p] = "batch"] /\ base' = [base EXCEPT ![p] = None] /\ Drop(p, d)
    BY <1>4 DEF DownloadFail, Goto, db
  <2> HIDE DEF e
  <2>5. /\ \A q \in Procs \ {p} : /\ pc'[q] = pc[q] /\ at'[q] = at[q]
                                  /\ held'[q] = held[q] /\ base'[q] = base[q]
        /\ \A f \in Docs : held'[p][f] \in {None, held[p][f]}
        /\ pc'[p] = "batch" /\ base'[p] = None
    BY <2>4 DEF Drop, TypeInv, TypeOK
  <2>6. PlaceOK(p)'
    BY <2>5 DEF PlaceOK, InTransfer
  <2>7. \A f \in Docs : Follows(f, held'[p][f], None)
    BY <2>4, <2>5, NothingLost, HeldFollows DEF Follows
  <2> QED
    BY <2>1, <2>2, <2>3, <2>4, <2>5, <2>6, <2>7, UpdateKeeps
<1>5. ASSUME NEW d \in Docs, DownloadAdvance(d) PROVE FilesInv'
  <2>1. /\ UNCHANGED <<tender, doc, meta, txDoc, disk>> /\ Alone(p)
        /\ pc'[p] = "batch" /\ base'[p] = None
        /\ \A f \in Docs : held'[p][f] \in {None, held[p][f]}
    BY <1>5 DEF DownloadAdvance, Goto, Drop, Alone, db, TypeInv, TypeOK
  <2>2. PlaceOK(p)'
    BY <2>1 DEF PlaceOK, InTransfer
  <2>3. \A f \in Docs : Follows(f, held'[p][f], None)
    BY <2>1, NothingLost, HeldFollows DEF Follows
  <2> QED
    BY <2>1, <2>2, <2>3, ReadKeeps
<1>6. CASE DownloadCommit
  BY <1>6, <1>a, CommitKeeps DEF DownloadCommit, Commit
<1> QED
  BY <1>1, <1>2, <1>3, <1>4, <1>5, <1>6 DEF DownloadStep

\* A step of p that only moves p along, and drops some of what it holds.
LEMMA MoveKeeps ==
  ASSUME TypeInv, TypeInv', FilesInv, NEW p \in Procs \ {Downloader},
         UNCHANGED <<tender, doc, meta, txDoc, disk>>, Alone(p), base'[p] \in {None, base[p]},
         \A d \in Docs : held'[p][d] \in {None, held[p][d]},
         \/ pc'[p] \notin {"upload_add", "retire_purge", "retire_mark"}
         \/ pc[p] \in {"retire_purge", "retire_mark"} /\ at'[p] = at[p]
  PROVE  FilesInv'
<1>1. PlaceOK(p)'
  BY DEF FilesInv, PlaceOK, InTransfer, Holds
<1>2. \A d \in Docs : Follows(d, held'[p][d], None)
  BY NothingLost, HeldFollows DEF Follows
<1> QED
  BY <1>1, <1>2, ReadKeeps

LEMMA UploadStoreKeeps ==
  ASSUME TypeInv, TypeInv', FilesInv, NEW p \in Procs \ {Downloader}, NEW t \in Tenders,
         NEW d \in Docs, NEW c \in Contents, UploadStore(p, t, d, c)
  PROVE  FilesInv'
<1> DEFINE e == [tender |-> t, url |-> FALSE, status |-> "DOWNLOADED",
                 file |-> c, text |-> None, purged |-> FALSE]
<1>1. /\ FreshDoc(d) /\ disk' = [disk EXCEPT ![d] = c] /\ UNCHANGED <<tender, doc, meta, txDoc>>
      /\ pc' = [pc EXCEPT ![p] = "upload_add"] /\ base' = [base EXCEPT ![p] = None]
      /\ at' = [at EXCEPT ![p] = t] /\ held' = [held EXCEPT ![p] = [NoDocs EXCEPT ![d] = e]]
  BY DEF UploadStore, Goto, Keep, db, tx
<1>2. e.tender = t /\ e.status = "DOWNLOADED"
  OBVIOUS
<1> HIDE DEF e
<1>3. /\ Alone(p) /\ pc'[p] = "upload_add" /\ at'[p] = t /\ base'[p] = None
      /\ \A f \in Docs : held'[p][f] = IF f = d THEN e ELSE None
  BY <1>1 DEF Alone, NoDocs, TypeInv, TypeOK
<1>4. PlaceOK(p)'
  BY <1>2, <1>3 DEF PlaceOK, InTransfer, Holds
<1>5. disk'[d] # None /\ \A f \in Docs : disk[f] # None => disk'[f] # None
  BY <1>1, NoneApart DEF TypeInv, TypeOK
<1>6. KeepsRows /\ \A f \in Docs, s \in Tenders : Secured(f, s) => SecuredNext(f, s)
  BY <1>1, <1>5 DEF KeepsRows, Secured, SecuredNext, Exists
<1>7. \A s \in Tenders : ~Owner(d, s)
  <2>1. doc[d].tender = None
    BY <1>1, NoneApart DEF FreshDoc, FilesInv, FilesKept, RowKept, TypeInv, TypeOK
  <2> QED
    BY <1>1, <2>1, NoneApart DEF FreshDoc, Owner
<1>8. \A f \in Docs : Follows(f, held'[p][f], t)
  BY <1>2, <1>3, <1>5, <1>7 DEF Follows, SecuredNext
<1>9. ASSUME NEW f \in Docs PROVE RowNext(f, t) /\ DraftNext(p, f, t)
  <2>1. doc[f].status # "ABSENT" => doc[f].tender \in Tenders
    BY OldRows
  <2>2. /\ RowKept(f, doc[f]) /\ Owner(f, doc[f].tender) /\ Publishable(f, txDoc[p][f])
        /\ Exists(doc[f]) => Exists(tender[doc[f].tender])
    BY OldRows, DraftsPublishable DEF FilesInv, LiveRows
  <2>3. RowNext(f, t)
    BY <1>1, <1>6, <2>1, <2>2 DEF RowNext, Follows, RowKept, Exists, NoRow
  <2>4. DraftNext(p, f, t)
    BY <1>1, <1>6, <2>2 DEF DraftNext, Follows, Publishable, Exists
  <2> QED
    BY <2>3, <2>4
<1> QED
  BY <1>3, <1>4, <1>6, <1>8, <1>9, StepKeeps

\* Retirement takes the file of a document only from an extracted tender.
LEMMA RetireUnlinkKeeps ==
  ASSUME TypeInv, TypeInv', MetadataInv, FilesInv, NEW p \in Requests, p # Downloader,
         NEW d \in Docs, RetireUnlink(p, d)
  PROVE  FilesInv'
<1>0. p \in Procs
  BY DEF Procs
<1>1. /\ disk' = [disk EXCEPT ![d] = None] /\ UNCHANGED <<tender, doc, meta, txDoc, held, at>>
      /\ pc' = [pc EXCEPT ![p] = "retire_mark"] /\ base' = [base EXCEPT ![p] = None]
      /\ pc[p] = "retire_purge" /\ held[p][d] # None
  BY DEF RetireUnlink, Goto, First, Holds, db, tx
<1>2. Alone(p) /\ pc'[p] = "retire_mark" /\ base'[p] = None
  BY <1>0, <1>1 DEF Alone, TypeInv, TypeOK
<1>3. held[p][d].tender = at[p] /\ at[p] \in Tenders /\ Owner(d, at[p])
  BY <1>0, <1>1, OldRows DEF FilesInv, PlaceOK, Holds
<1>4. meta[at[p]] # None \/ tender[at[p]].status = "DELETED"
  BY <1>0, <1>1, <1>3 DEF MetadataInv, Sound, RunSound, Retiring
<1>5. \A t \in Tenders : Owner(d, t) => meta[t] # None \/ tender[t].status = "DELETED"
  BY <1>3, <1>4 DEF FilesInv, OneOwner
<1>6. KeepsRows /\ \A f \in Docs, t \in Tenders : Owner(f, t) /\ Secured(f, t) => SecuredNext(f, t)
  BY <1>1, <1>5 DEF KeepsRows, Secured, SecuredNext, Exists, TypeInv, TypeOK
<1>7. PlaceOK(p)'
  BY <1>0, <1>1, <1>2 DEF FilesInv, PlaceOK, InTransfer, Holds
<1>8. ASSUME NEW f \in Docs
      PROVE  RowNext(f, None) /\ DraftNext(p, f, None) /\ Follows(f, held'[p][f], None)
  <2>1. doc[f].status # "ABSENT" => doc[f].tender \in Tenders
    BY <1>0, OldRows
  <2>2. /\ RowKept(f, doc[f]) /\ Owner(f, doc[f].tender) /\ Publishable(f, txDoc[p][f])
        /\ Exists(doc[f]) => Exists(tender[doc[f].tender])
    BY <1>0, OldRows, DraftsPublishable DEF FilesInv, LiveRows
  <2>3. RowNext(f, None)
    BY <1>1, <1>6, <2>1, <2>2 DEF RowNext, Follows, RowKept, Exists, NoRow
  <2>4. DraftNext(p, f, None)
    BY <1>1, <1>6, <2>2 DEF DraftNext, Follows, Publishable, Exists
  <2>5. Follows(f, held'[p][f], None)
    BY <1>0, <1>1, <1>6, HeldFollows
  <2> QED
    BY <2>3, <2>4, <2>5
<1> QED
  BY <1>0, <1>2, <1>6, <1>7, <1>8, StepKeeps

LEMMA RequestKeeps ==
  ASSUME TypeInv, TypeInv', MetadataInv, FilesInv, NEW p \in Requests, RequestStep(p)
  PROVE  FilesInv'
<1>0. p \in Procs /\ p # Downloader
  BY PipelineAssumption DEF Procs
<1>a. Supported(p, txTender[p]) /\ \A d \in Docs : Publishable(d, txDoc[p][d])
  BY <1>0, DraftsPublishable DEF MetadataInv, Sound, DraftsSound, Supported
<1>b. CASE Fail(p)
  BY <1>0, <1>b, FailKeeps DEF Fail, Finish, TypeInv, TypeOK
<1>c. ASSUME Rollback(p), Finish(p), UNCHANGED disk PROVE FilesInv'
  BY <1>0, <1>c, FailKeeps DEF Finish, TypeInv, TypeOK
<1>1. ASSUME NEW t \in Tenders, NEW c \in Closings, PatchRead(p, t, c) PROVE FilesInv'
  <2>1. /\ UNCHANGED <<tender, doc, meta, txDoc, disk, held>> /\ Alone(p)
        /\ pc'[p] = "patch" /\ base'[p] = None
    BY <1>0, <1>1 DEF PatchRead, Goto, Alone, db, tx, TypeInv, TypeOK
  <2> QED
    BY <1>0, <2>1, MoveKeeps
<1>2. CASE PatchWrite(p) /\ ~Fail(p)
  <2>1. /\ at[p] \in Tenders /\ ent[p] \in TenderRow /\ Exists(ent[p]) /\ Exists(tender[at[p]])
        /\ ent[p].status \in Extracted => HasMetadata(p, at[p])
    BY <1>0, <1>2
       DEF PatchWrite, MetadataInv, Sound, EntitySound, HasEntity, HasTender, TypeInv, HandInv
  <2>2. Supported(p, PutTender(p, at[p], ent[p]))
    BY <1>0, <2>1, PutSound
  <2>3. UNCHANGED disk /\ Finish(p)
        /\ CommitDrafts(p, PutTender(p, at[p], ent[p]), txDoc[p], txMeta[p])
    BY <1>2 DEF PatchWrite
  <2> QED
    BY <1>0, <1>a, <2>2, <2>3, CommitKeeps
<1>3. ASSUME NEW t \in Tenders, NEW d \in Docs, NEW c \in Contents, UploadStore(p, t, d, c)
      PROVE  FilesInv'
  BY <1>0, <1>3, UploadStoreKeeps
<1>4. ASSUME NEW d \in Docs, UploadAdd(p, d), ~Fail(p) PROVE FilesInv'
  <2>1. /\ Exists(tender[at[p]]) /\ txDoc' = [txDoc EXCEPT ![p][d] = held[p][d]]
        /\ UNCHANGED <<tender, doc, meta, disk, at, held>>
        /\ pc' = [pc EXCEPT ![p] = "upload_advance"] /\ base' = [base EXCEPT ![p] = None]
        /\ pc[p] = "upload_add" /\ Holds(p, d)
    BY <1>4 DEF UploadAdd, Goto, db
  <2>2. /\ Alone(p) /\ pc'[p] = "upload_advance" /\ base'[p] = None
        /\ \A f \in Docs : txDoc'[p][f] = IF f = d THEN held[p][d] ELSE txDoc[p][f]
    BY <1>0, <2>1 DEF Alone, TypeInv, TypeOK
  <2>3. PlaceOK(p)'
    BY <1>0, <2>2 DEF PlaceOK, InTransfer
  <2>4. held[p][d].tender = at[p]
    BY <1>0, <2>1 DEF FilesInv, PlaceOK
  <2>5. \A f \in Docs : Follows(f, held'[p][f], None)
    BY <1>0, <2>1, NothingLost, HeldFollows
  <2>6. ASSUME NEW f \in Docs PROVE RowNext(f, None)
    <3>1. doc[f].status # "ABSENT" => doc[f].tender \in Tenders
      BY <1>0, OldRows
    <3>2. /\ RowKept(f, doc[f]) /\ Owner(f, doc[f].tender)
          /\ Exists(doc[f]) => Exists(tender[doc[f].tender])
      BY <1>0, OldRows DEF FilesInv, LiveRows
    <3> QED
      BY <2>1, <3>1, <3>2, NothingLost DEF RowNext, Follows, RowKept, Exists, NoRow, Secured, SecuredNext
  <2>7. ASSUME NEW f \in Docs PROVE DraftNext(p, f, None)
    <3>1. Publishable(f, txDoc[p][f])
      BY <1>a
    <3> QED
      BY <2>1, <2>2, <2>4, <2>5, <3>1, NothingLost DEF DraftNext, Follows, Publishable, Exists
  <2> QED
    BY <1>0, <2>1, <2>2, <2>3, <2>5, <2>6, <2>7, NothingLost, StepKeeps
<1>5. CASE UploadAdvance(p)
  <2> DEFINE e == [ent[p] EXCEPT !.status = "DOWNLOADED"]
  <2>1. Finish(p) /\ UNCHANGED disk
    BY <1>5 DEF UploadAdvance
  <2>2. CASE Rollback(p)
    BY <1>c, <2>1, <2>2
  <2>3. CASE Commit(p)
    BY <1>0, <1>a, <2>1, <2>3, CommitKeeps DEF Commit
  <2>4. CASE Exists(tender[at[p]]) /\ CommitDrafts(p, PutTender(p, at[p], e), txDoc[p], txMeta[p])
    <3>1. at[p] \in Tenders /\ ent[p] \in TenderRow
      BY <1>0, <1>5 DEF UploadAdvance, HasEntity, HasTender, TypeInv, HandInv
    <3>2. e \in TenderRow /\ Exists(e) /\ e.status \notin Extracted
      BY <3>1 DEF TenderRow, TenderStatuses, Exists, NoRow, Extracted
    <3>3. Supported(p, PutTender(p, at[p], e))
      BY <1>0, <2>4, <3>1, <3>2, PutSound
    <3> QED
      BY <1>0, <1>a, <2>1, <2>4, <3>3, CommitKeeps
  <2> QED
    BY <1>5, <2>2, <2>3, <2>4 DEF UploadAdvance
<1>6. ASSUME NEW d \in Docs, RetriggerRead(p, d) PROVE FilesInv'
  <2> DEFINE e == [doc[d] EXCEPT !.status = "PENDING"]
  <2>1. /\ UNCHANGED <<tender, doc, meta, txDoc, disk>> /\ Alone(p)
        /\ pc'[p] = "retrigger" /\ base'[p] = None /\ held'[p] = [NoDocs EXCEPT ![d] = e]
    BY <1>0, <1>6 DEF RetriggerRead, Goto, Keep, Alone, db, tx, TypeInv, TypeOK
  <2>2. e.tender = doc[d].tender /\ e.status = "PENDING"
    BY DEF TypeInv, TypeOK, DocRow
  <2> HIDE DEF e
  <2>3. \A f \in Docs : held'[p][f] = IF f = d THEN e ELSE None
    BY <2>1 DEF NoDocs
  <2>4. \A f \in Docs : Follows(f, held'[p][f], None)
    BY <1>0, <2>2, <2>3, OldRows DEF Follows
  <2>5. PlaceOK(p)'
    BY <1>0, <2>1 DEF PlaceOK, InTransfer
  <2> QED
    BY <1>0, <2>1, <2>4, <2>5, ReadKeeps
<1>7. ASSUME NEW d \in Docs, RetriggerWrite(p, d), ~Fail(p) PROVE FilesInv'
  <2>1. /\ held[p][d] \in DocRow /\ held[p][d].tender \in Tenders /\ held[p][d] # None
        /\ Owner(d, held[p][d].tender) /\ RowKept(d, held[p][d])
    BY <1>0, <1>7, HeldFields, OldRows DEF RetriggerWrite, Holds
  <2>2. /\ Exists(doc[d]) /\ Finish(p) /\ UNCHANGED disk
        /\ CommitDrafts(p, txTender[p], PutDoc(p, d, held[p][d]), txMeta[p])
    BY <1>7 DEF RetriggerWrite
  <2>3. held[p][d].status # "ABSENT"
    BY <2>1, NoneApart DEF RowKept
  <2>4. \A f \in Docs : Publishable(f, PutDoc(p, d, held[p][d])[f])
    BY <1>0, <2>1, <2>2, <2>3, PutFollows DEF Publishable, RowKept
  <2> QED
    BY <1>0, <1>a, <2>2, <2>4, CommitKeeps
<1>8. ASSUME NEW t \in Tenders, NEW d \in Docs, Extract(p, t, d) PROVE FilesInv'
  BY <1>0, <1>8, ReadDocumentKeeps DEF Extract
<1>9. ASSUME NEW W \in SUBSET Tenders, NEW S \in SUBSET Tenders, RetirePlan(p, W, S) PROVE FilesInv'
  <2>1. /\ UNCHANGED <<tender, doc, meta, txDoc, disk, held>> /\ Alone(p)
        /\ pc'[p] = "retire_next" /\ base'[p] = None
    BY <1>0, <1>9 DEF RetirePlan, Goto, Alone, db, tx, TypeInv, TypeOK
  <2> QED
    BY <1>0, <2>1, MoveKeeps
<1>10. ASSUME NEW t \in Tenders, RetireList(p, t) PROVE FilesInv'
  <2>1. /\ UNCHANGED <<tender, doc, meta, txDoc, disk>> /\ Alone(p)
        /\ pc'[p] = "retire_purge" /\ base'[p] = None /\ at'[p] = t
        /\ \A d \in Docs : held'[p][d] # None =>
             held'[p][d] = SeenDoc(p, d) /\ doc[d].tender = t /\ Purgeable(SeenDoc(p, d))
    BY <1>0, <1>10 DEF RetireList, Goto, Alone, db, tx, TypeInv, TypeOK
  <2>2. ASSUME NEW d \in Docs, held'[p][d] # None
        PROVE  held'[p][d].tender = t /\ Follows(d, held'[p][d], None)
    <3>1. doc[d].status # "ABSENT"
      BY <1>0, <2>1, <2>2, NoneApart DEF FilesInv, FilesKept, RowKept, TypeInv, TypeOK
    <3>2. /\ SeenDoc(p, d).tender \in Tenders /\ Owner(d, SeenDoc(p, d).tender)
          /\ RowKept(d, SeenDoc(p, d)) /\ Owner(d, t)
      BY <1>0, <2>1, <2>2, <3>1, OldRows DEF SeenDoc
    <3>3. SeenDoc(p, d).tender = t
      BY <3>2 DEF FilesInv, OneOwner
    <3> QED
      BY <2>1, <2>2, <3>2, <3>3, NothingLost DEF Follows, RowKept
  <2>3. PlaceOK(p)'
    BY <1>0, <2>1, <2>2 DEF PlaceOK, InTransfer, Holds
  <2> QED
    BY <1>0, <2>1, <2>2, <2>3, ReadKeeps DEF Follows
<1>11. ASSUME NEW d \in Docs, RetireUnlink(p, d) PROVE FilesInv'
  BY <1>0, <1>11, RetireUnlinkKeeps
<1>12. ASSUME NEW d \in Docs, RetireUnlinkFails(p, d) PROVE FilesInv'
  <2>1. /\ UNCHANGED <<tender, doc, meta, txDoc, disk, pc, at, base>> /\ Alone(p)
        /\ pc[p] = "retire_purge" /\ \A f \in Docs : held'[p][f] \in {None, held[p][f]}
    BY <1>0, <1>12 DEF RetireUnlinkFails, Drop, Alone, db, tx, TypeInv, TypeOK
  <2> QED
    BY <1>0, <2>1, MoveKeeps
<1>13. ASSUME NEW d \in Docs, RetireMark(p, d), ~Fail(p) PROVE FilesInv'
  <2> DEFINE e == [held[p][d] EXCEPT !.file = None, !.purged = TRUE]
  <2>1. /\ held[p][d] \in DocRow /\ held[p][d].tender \in Tenders /\ held[p][d] # None
        /\ Owner(d, held[p][d].tender) /\ RowKept(d, held[p][d])
    BY <1>0, <1>13, HeldFields, OldRows DEF RetireMark, First, Holds
  <2>2. e \in DocRow /\ e.tender = held[p][d].tender /\ e.status = held[p][d].status
    BY <2>1, DocFields DEF DocRow
  <2>3. /\ Exists(doc[d]) /\ UpdateDoc(p, d, e) /\ UNCHANGED <<tender, doc, meta, disk, at>>
        /\ pc' = [pc EXCEPT ![p] = "retire_purge"] /\ base' = [base EXCEPT ![p] = None]
        /\ pc[p] = "retire_mark" /\ Drop(p, d)
    BY <1>13 DEF RetireMark, Goto, db
  <2> HIDE DEF e
  <2>4. /\ \A q \in Procs \ {p} : /\ pc'[q] = pc[q] /\ at'[q] = at[q]
                                  /\ held'[q] = held[q] /\ base'[q] = base[q]
        /\ \A f \in Docs : held'[p][f] \in {None, held[p][f]}
        /\ pc'[p] = "retire_purge" /\ base'[p] = None
    BY <1>0, <2>3 DEF Drop, TypeInv, TypeOK
  <2>5. PlaceOK(p)'
    BY <1>0, <2>3, <2>4 DEF FilesInv, PlaceOK, InTransfer, Holds
  <2>6. \A f \in Docs : Follows(f, held'[p][f], None)
    BY <1>0, <2>3, <2>4, NothingLost, HeldFollows DEF Follows
  <2>7. e.status # "ABSENT" /\ (e.status = "DOWNLOADED" => SecuredNext(d, e.tender))
    BY <2>1, <2>2, <2>3, NoneApart DEF RowKept, Secured, SecuredNext
  <2> QED
    BY <1>0, <2>1, <2>2, <2>3, <2>4, <2>5, <2>6, <2>7, UpdateKeeps
<1>14. CASE RetireRead(p) \/ (RetireArchive(p) /\ ~Fail(p))
  <2>1. /\ UNCHANGED <<tender, doc, meta, txDoc, disk, held>> /\ Alone(p)
        /\ pc'[p] \in {"retire_archive", "retire_next"} /\ base'[p] = None
    BY <1>0, <1>14 DEF RetireRead, RetireArchive, Goto, Alone, db, tx, TypeInv, TypeOK
  <2> QED
    BY <1>0, <2>1, MoveKeeps
<1>15. CASE RetireCommit(p)
  BY <1>0, <1>15, <1>a, CommitKeeps DEF RetireCommit, Commit
<1> QED
  BY <1>b, <1>1, <1>2, <1>3, <1>4, <1>5, <1>6, <1>7, <1>8, <1>9, <1>10, <1>11, <1>12, <1>13,
     <1>14, <1>15 DEF RequestStep

-----------------------------------------------------------------------------
LEMMA InitFiles == Init => FilesInv
<1> SUFFICES ASSUME Init PROVE FilesInv
  OBVIOUS
<1>1. /\ \A d \in Docs : doc[d].tender = None /\ doc[d].status = "ABSENT"
      /\ \A p \in Procs, d \in Docs : held[p][d] = None /\ txDoc[p][d] = None
      /\ \A p \in Procs : pc[p] = "idle" /\ base[p] = None
  BY DEF Init, NoDocs
<1>2. OneOwner
  BY <1>1, NoneApart DEF OneOwner, Owner
<1> QED
  BY <1>1, <1>2 DEF FilesInv, FilesKept, RowKept, LiveRows, Exists, NoRow, PlaceOK, InTransfer

LEMMA NextFiles ==
  TypeInv /\ TypeInv' /\ MetadataInv /\ DownloadInv /\ FilesInv /\ [Next]_vars => FilesInv'
<1> SUFFICES ASSUME TypeInv, TypeInv', MetadataInv, DownloadInv, FilesInv, [Next]_vars
             PROVE  FilesInv'
  OBVIOUS
<1>1. CASE UNCHANGED vars
  BY <1>1 DEF vars, FilesInv, OneOwner, Owner, FilesKept, RowKept, Secured, LiveRows, Exists,
              PlaceOK, Holds, InTransfer, First
<1> QED
  BY <1>1, DirectKeeps, RequestKeeps, ExtractKeeps, WorkflowKeeps, DownloadKeeps, WaitKeeps DEF Next

LEMMA AllHold == Spec => [](TypeInv /\ MetadataInv /\ DownloadInv /\ FilesInv)
<1>1. Init => TypeInv /\ MetadataInv /\ DownloadInv /\ FilesInv
  BY InitTypes, InitSound, InitClear, InitFiles
<1>2. TypeInv /\ MetadataInv /\ DownloadInv /\ FilesInv /\ [Next]_vars
        => (TypeInv /\ MetadataInv /\ DownloadInv /\ FilesInv)'
  BY NextTypes, NextSound, NextClear, NextFiles
<1> QED
  BY <1>1, <1>2, PTL DEF Spec

LEMMA BytesHeld == TypeInv /\ FilesInv => BytesOrMetadata
<1> SUFFICES ASSUME TypeInv, FilesInv, NEW d \in Docs, doc[d].status = "DOWNLOADED"
             PROVE  disk[d] # None \/ meta[doc[d].tender] # None
  BY DEF BytesOrMetadata
<1>1. doc[d] # None
  BY NoneApart DEF TypeInv, TypeOK
<1>2. Exists(tender[doc[d].tender])
  BY DEF FilesInv, LiveRows, Exists, NoRow
<1> QED
  BY <1>1, <1>2 DEF FilesInv, FilesKept, RowKept, Secured, Exists, NoRow

\* Crashes, races and refused deletions included, the bytes of a downloaded
\* document are in storage unless its tender's metadata was extracted.
THEOREM NoOnlyCopyLost == Spec => []BytesOrMetadata
BY BytesHeld, AllHold, PTL

-----------------------------------------------------------------------------
(***************************************************************************)
(* The pipeline does what TenderLifecycle promises, for any tenders,       *)
(* documents, requests and batch size, as long as no stale status is       *)
(* written back: nothing is patched or uploaded, or nothing starts while   *)
(* anything is in flight.  Then every status is written over the one it    *)
(* was decided on: whoever drafts a tender holds its lock, a tender in its *)
(* first extraction is locked by the metadata row being inserted, and only *)
(* the download worker takes a tender out of REGISTERED.                   *)
(*                                                                         *)
(* When nothing starts while anything is in flight, moreover, the file of  *)
(* a downloaded document is the one its row has the hash of, and text that *)
(* was extracted stays.                                                    *)
(***************************************************************************)

Unmixed == Serial \/ Ops \cap {"patch", "upload"} = {}

\* Tenders nothing was extracted from, tenders something was.
Unparsed == {"ABSENT", "REGISTERED", "DOWNLOADED"}
Parsed   == {"PARSED", "ARCHIVED", "DELETED"}

\* t is past REGISTERED.
Left(t) == tender[t].status \notin {"ABSENT", "REGISTERED"}

\* Statuses the people who analyse and review would set; no operation here does.
Unwritten == {"ANALYZED", "REVIEWED"}

RetirePlaces == {"retire_next", "retire_purge", "retire_mark", "retire_archive"}

\* Under Serial at most one process is at work.
Solo == Serial => \A p, q \in Procs : pc[p] # "idle" /\ pc[q] # "idle" => p = q

RowsLife ==
  \A t \in Tenders : /\ tender[t].status \notin Unwritten
                     /\ tender[t].status \in Unparsed => meta[t] = None

DocsLife == \A d \in Docs : doc[d].status = "DOWNLOADED" => Left(doc[d].tender)

\* A draft is a lock.
Locks == \A p, q \in Procs, t \in Tenders : p # q =>
  /\ txTender[p][t] = None \/ txTender[q][t] = None
  /\ txMeta[p][t] = None \/ txMeta[q][t] = None

\* p's draft of t is a legal move of t.
TenderDraft(p, t) == txTender[p][t] # None =>
  \/ /\ p = Downloader /\ pc[p] # "idle" /\ tender[t].status = "REGISTERED"
     /\ txTender[p][t].status \in {"REGISTERED", "DOWNLOADED"}
  \/ /\ p \in Requests /\ pc[p] \in RetirePlaces
     /\ tender[t].status \in {"PARSED", "ARCHIVED"}
     /\ txTender[p][t].status \in {tender[t].status, "ARCHIVED"}

MetaDraft(p, t) == txMeta[p][t] # None => pc[p] = "extract_advance" /\ t = at[p]

\* t will be past REGISTERED when p commits.
Covered(p, t) ==
  \/ Left(t)
  \/ txTender[p][t] # None /\ txTender[p][t].status = "DOWNLOADED"
  \/ pc[p] \in {"advance", "upload_advance"} /\ at[p] = t /\ ent[p].status = "REGISTERED"

DocDraft(p, d) ==
  txDoc[p][d] # None /\ txDoc[p][d].status = "DOWNLOADED" => Covered(p, txDoc[p][d].tender)

\* The entity in hand says of the tender what its row says, unless whoever
\* wrote the row since left nothing for p to do.
EntityLife(p) ==
  /\ HasEntity(p) => ent[p].status \notin Unwritten
  /\ pc[p] \in {"patch", "upload_add", "upload_advance"} => Serial
  /\ pc[p] = "patch" => ent[p].status = tender[at[p]].status
  /\ pc[p] = "upload_advance" => base[p] = None /\ ent[p].status = tender[at[p]].status
  /\ pc[p] = "advance" => p = Downloader
  /\ pc[p] = "advance" /\ ent[p].status = "REGISTERED" =>
       base[p] = None /\ tender[at[p]].status \in {"REGISTERED", "DELETED"}
  /\ pc[p] = "extract_advance" =>
       \/ /\ ent[p].status = "DOWNLOADED" /\ tender[at[p]].status = "DOWNLOADED"
          /\ txMeta[p][at[p]] # None /\ base[p] = None
       \/ ent[p].status # "DOWNLOADED" /\ tender[at[p]].status \in Parsed

\* So do the tenders and the documents it is about to go to.
WorkLife(p) ==
  /\ pc[p] = "extract_store" => Left(at[p])
  /\ p \in Requests => \A t \in todo[p] : tender[t].status \in Parsed
  /\ pc[p] \in {"retrigger", "extract_store", "retire_purge", "retire_mark"} =>
       \A d \in Docs : Holds(p, d) /\ held[p][d].status = "DOWNLOADED" => Left(held[p][d].tender)
  /\ pc[p] \in {"retire_purge", "retire_mark"} =>
       \A d \in Docs : Holds(p, d) => doc[d].tender = at[p]

DraftLife(p) ==
  /\ \A t \in Tenders : TenderDraft(p, t) /\ MetaDraft(p, t)
  /\ \A d \in Docs : DocDraft(p, d)

OwnLife(p) == DraftLife(p) /\ EntityLife(p) /\ WorkLife(p)

LifeInv == Solo /\ RowsLife /\ DocsLife /\ Locks /\ \A p \in Procs : OwnLife(p)

-----------------------------------------------------------------------------
(* What a step of p must show; the other processes are where they were. *)

Others(p) == \A q \in Procs \ {p} :
  /\ pc'[q] = pc[q] /\ at'[q] = at[q] /\ ent'[q] = ent[q] /\ held'[q] = held[q]
  /\ base'[q] = base[q] /\ todo'[q] = todo[q]
  /\ txTender'[q] = txTender[q] /\ txDoc'[q] = txDoc[q] /\ txMeta'[q] = txMeta[q]

\* p is at work, or may begin.
Entered(p) == pc[p] # "idle" \/ Quiet

\* A step of p moves t from status s to status n.
MayMove(p, t, s, n) ==
  \/ s = n
  \/ /\ pc[p] # "idle" /\ \A q \in Procs \ {p} : txTender[q][t] = None
     /\ \/ s = "REGISTERED" /\ n = "DOWNLOADED" /\ (p = Downloader \/ Serial)
        \/ s = "DOWNLOADED" /\ n = "PARSED" /\ txMeta[p][t] # None
        \/ s = "PARSED" /\ n = "ARCHIVED"

Moves(p) == \A t \in Tenders : MayMove(p, t, tender[t].status, tender'[t].status)

\* Documents keep their tender and tenders their metadata.
Keeps ==
  /\ \A d \in Docs : doc[d].tender \in Tenders => doc'[d].tender = doc[d].tender
  /\ \A t \in Tenders : meta[t] # None => meta'[t] # None

\* p drafts only what it had a draft of or nobody else has.
Locking(p) == \A t \in Tenders :
  /\ txTender'[p][t] # None => txTender[p][t] # None \/ FreeTender(p, t)
  /\ txMeta'[p][t] # None => txMeta[p][t] # None \/ FreeMeta(p, t)

\* The invariant holds next, and the step is one TenderLifecycle publishes.
LifeNext ==
  /\ LifeInv'
  /\ Keeps
  /\ \A t \in Tenders : Lifecycle!LegalMove(tender[t].status, tender'[t].status)

\* A process at work on something is at work on a tender.
LEMMA InHand ==
  ASSUME TypeInv, NEW p \in Procs
  PROVE  /\ HasEntity(p) \/ pc[p] \in {"extract_store", "upload_add"} \/ Retiring(p) => at[p] \in Tenders
         /\ pc[p] \in {"patch", "upload_advance", "extract_advance", "advance", "extract_store",
                       "upload_add", "retire_purge", "retire_mark", "retire_archive"} => at[p] \in Tenders
         /\ HasEntity(p) => ent[p] \in TenderRow
         /\ \A d \in Docs : held[p][d] # None => held[p][d] \in DocRow /\ held[p][d].tender \in Tenders
         /\ \A d \in Docs : txDoc[p][d] # None => txDoc[p][d] \in DocRow /\ txDoc[p][d].tender \in Tenders
<1>1. HasEntity(p) \/ pc[p] \in {"extract_store", "upload_add"} \/ Retiring(p) => at[p] \in Tenders
  BY DEF TypeInv, HandInv, HasTender
<1>2. pc[p] \in {"patch", "upload_advance", "extract_advance", "advance", "extract_store",
                 "upload_add", "retire_purge", "retire_mark", "retire_archive"} => at[p] \in Tenders
  BY <1>1 DEF HasEntity, Retiring
<1> QED
  BY <1>1, <1>2 DEF TypeInv, TypeOK, HandInv, Owned

LEMMA RowTender ==
  ASSUME TypeInv
  PROVE  \A d \in Docs : doc[d].status # "ABSENT" => doc[d].tender \in Tenders
  BY NoneApart DEF TypeInv, TypeOK, HandInv, Owned

LEMMA StepLife ==
  ASSUME TypeInv, LifeInv, NEW p \in Procs, Others(p), Entered(p), Moves(p), Keeps, Locking(p),
         RowsLife', DocsLife', OwnLife(p)'
  PROVE  LifeNext
<1>1. Solo'
  BY DEF LifeInv, Solo, Others, Entered, Quiet
<1>2. Locks'
  BY DEF LifeInv, Locks, Locking, Others, FreeTender, FreeMeta
<1>0. \A t \in Tenders : Lifecycle!LegalMove(tender[t].status, tender'[t].status)
  BY DEF Moves, MayMove, Lifecycle!LegalMove, CanTransition, Lifecycle!CanTransition, Transitions,
         Lifecycle!Transitions, TenderStatuses, Lifecycle!TenderStatuses
<1> SUFFICES ASSUME NEW q \in Procs \ {p} PROVE OwnLife(q)'
  BY <1>0, <1>1, <1>2 DEF LifeNext, LifeInv
<1>a. /\ pc'[q] = pc[q] /\ at'[q] = at[q] /\ ent'[q] = ent[q] /\ held'[q] = held[q]
      /\ base'[q] = base[q] /\ todo'[q] = todo[q]
      /\ txTender'[q] = txTender[q] /\ txDoc'[q] = txDoc[q] /\ txMeta'[q] = txMeta[q]
  BY DEF Others
<1>b. OwnLife(q)
  BY DEF LifeInv
<1>c. /\ \A t \in Tenders : Left(t) => Left(t)'
      /\ \A t \in Tenders : tender[t].status \in Parsed => tender'[t].status \in Parsed
      /\ \A t \in Tenders : txTender[q][t] # None => tender'[t].status = tender[t].status
  BY DEF Moves, MayMove, Left, Parsed
<1>d. Serial /\ pc[q] # "idle" => pc[p] = "idle"
  BY DEF LifeInv, Solo
<1>3. \A t \in Tenders : TenderDraft(q, t)' /\ MetaDraft(q, t)'
  BY <1>a, <1>b, <1>c DEF OwnLife, DraftLife, TenderDraft, MetaDraft
<1>4. \A t \in Tenders : Covered(q, t) => Covered(q, t)'
  BY <1>a, <1>c DEF Covered
<1>5. \A d \in Docs : DocDraft(q, d)'
  BY <1>a, <1>b, <1>4, InHand DEF OwnLife, DraftLife, DocDraft
<1>6. WorkLife(q)'
  <2>1. pc[q] = "extract_store" => Left(at[q])'
    BY <1>a, <1>b, <1>c, InHand DEF OwnLife, WorkLife, Left
  <2>2. q \in Requests => \A t \in todo[q] : tender'[t].status \in Parsed
    BY <1>b, <1>c DEF OwnLife, WorkLife, TypeInv, TypeOK
  <2>3. pc[q] \in {"retrigger", "extract_store", "retire_purge", "retire_mark"} =>
         \A d \in Docs : Holds(q, d) /\ held[q][d].status = "DOWNLOADED" => Left(held[q][d].tender)'
    BY <1>a, <1>b, <1>c, InHand DEF OwnLife, WorkLife, Holds, Left
  <2>4. pc[q] \in {"retire_purge", "retire_mark"} =>
         \A d \in Docs : Holds(q, d) => doc'[d].tender = at[q]
    BY <1>b, InHand DEF OwnLife, WorkLife, Keeps
  <2> QED
    BY <1>a, <2>1, <2>2, <2>3, <2>4 DEF WorkLife, Holds, Left
<1>7. EntityLife(q)'
  <2>0. EntityLife(q) /\ (pc[q] \in {"patch", "upload_advance", "advance", "extract_advance"} => at[q] \in Tenders)
    BY <1>b, InHand DEF OwnLife
  <2>1. HasEntity(q) => ent[q].status \notin Unwritten
    BY <2>0 DEF EntityLife
  <2>2. pc[q] \in {"patch", "upload_advance"} => tender'[at[q]].status = tender[at[q]].status
    <3>1. pc[q] \in {"patch", "upload_advance"} => pc[p] = "idle"
      BY <1>d, <2>0 DEF EntityLife
    <3> QED
      BY <2>0, <3>1 DEF Moves, MayMove
  <2>3. pc[q] = "advance" /\ ent[q].status = "REGISTERED" => tender'[at[q]].status \in {"REGISTERED", "DELETED"}
    <3> SUFFICES ASSUME pc[q] = "advance", ent[q].status = "REGISTERED"
                 PROVE  tender'[at[q]].status \in {"REGISTERED", "DELETED"}
      OBVIOUS
    <3>1. q = Downloader
      BY <2>0 DEF EntityLife
    <3> QED
      BY <1>d, <2>0, <3>1 DEF EntityLife, Moves, MayMove
  <2>4. pc[q] = "extract_advance" =>
       \/ /\ ent[q].status = "DOWNLOADED" /\ tender'[at[q]].status = "DOWNLOADED"
          /\ txMeta[q][at[q]] # None /\ base[q] = None
       \/ ent[q].status # "DOWNLOADED" /\ tender'[at[q]].status \in Parsed
    <3> SUFFICES ASSUME pc[q] = "extract_advance", at[q] \in Tenders
                 PROVE  \/ /\ ent[q].status = "DOWNLOADED" /\ tender'[at[q]].status = "DOWNLOADED"
                           /\ txMeta[q][at[q]] # None /\ base[q] = None
                        \/ ent[q].status # "DOWNLOADED" /\ tender'[at[q]].status \in Parsed
      BY <2>0
    <3>1. txMeta[q][at[q]] # None => txMeta[p][at[q]] = None
      BY DEF LifeInv, Locks
    <3> QED
      BY <1>c, <2>0, <3>1 DEF EntityLife, Moves, MayMove
  <2> QED
    BY <1>a, <2>0, <2>1, <2>2, <2>3, <2>4 DEF EntityLife, HasEntity
<1> QED
  BY <1>3, <1>5, <1>6, <1>7 DEF OwnLife, DraftLife

-----------------------------------------------------------------------------
(* The calls several actions make. *)

\* What the other processes have in hand they keep.
Elsewhere(p) == \A q \in Procs \ {p} :
  /\ pc'[q] = pc[q] /\ at'[q] = at[q] /\ ent'[q] = ent[q]
  /\ held'[q] = held[q] /\ base'[q] = base[q] /\ todo'[q] = todo[q]

\* A step that leaves the committed rows alone.
LEMMA SameRows ==
  ASSUME LifeInv, UNCHANGED <<tender, doc, meta>>
  PROVE  /\ RowsLife' /\ DocsLife' /\ Keeps /\ \A p \in Procs : Moves(p)
         /\ \A t \in Tenders : Left(t) => Left(t)'
  BY DEF LifeInv, RowsLife, DocsLife, Keeps, Moves, MayMove, Left

\* A process that has nothing in hand and no draft.
LEMMA RestLife ==
  ASSUME TypeInv, NEW p \in Procs, pc'[p] \in {"idle", "queue"}, p \in Requests => todo'[p] = {},
         \A t \in Tenders : txTender'[p][t] = None /\ txMeta'[p][t] = None,
         \A d \in Docs : txDoc'[p][d] = None
  PROVE  OwnLife(p)' /\ Locking(p)
  BY DEF OwnLife, DraftLife, TenderDraft, MetaDraft, DocDraft, EntityLife, WorkLife, HasEntity, Locking

LEMMA FailLife ==
  ASSUME TypeInv, LifeInv, NEW p \in Procs, pc[p] # "idle", Rollback(p), pc'[p] \in {"idle", "queue"},
         p \in Requests => todo'[p] = {},
         Elsewhere(p)
  PROVE  LifeNext
<1>1. /\ \A t \in Tenders : txTender'[p][t] = None /\ txMeta'[p][t] = None
      /\ \A d \in Docs : txDoc'[p][d] = None
  BY DEF Rollback, NoTenders, NoDocs, TypeInv, TypeOK
<1>2. Others(p) /\ UNCHANGED <<tender, doc, meta>>
  BY DEF Rollback, Others, Elsewhere, TypeInv, TypeOK
<1> QED
  BY <1>1, <1>2, RestLife, SameRows, StepLife DEF Entered

LEMMA EndLife ==
  ASSUME TypeInv, NEW p \in Procs, Finish(p)
  PROVE  /\ pc'[p] \in {"idle", "queue"} /\ (p \in Requests => todo'[p] = {})
         /\ Elsewhere(p)
  BY PipelineAssumption DEF Finish, Elsewhere, TypeInv, TypeOK

\* What the row of t says once p has committed the drafts tw.
After(tw, t) == IF tw[t] # None THEN tw[t].status ELSE tender[t].status

\* The drafts tw and dw of p, and its draft of metadata, may be committed together.
Committable(p, tw, dw) ==
  /\ \A t \in Tenders : /\ MayMove(p, t, tender[t].status, After(tw, t))
                        /\ txMeta[p][t] # None => After(tw, t) \notin Unparsed
  /\ \A d \in Docs : /\ Publishable(d, dw[d])
                     /\ dw[d] # None /\ dw[d].status = "DOWNLOADED" =>
                          After(tw, dw[d].tender) \notin {"ABSENT", "REGISTERED"}

LEMMA CommitLife ==
  ASSUME TypeInv, FilesInv, LifeInv, NEW p \in Procs, pc[p] # "idle", NEW tw, NEW dw,
         Committable(p, tw, dw), CommitDrafts(p, tw, dw, txMeta[p]), Finish(p)
  PROVE  LifeNext
<1>1. \A t \in Tenders : tender'[t].status = After(tw, t)
  BY DEF CommitDrafts, After
<1>2. Moves(p)
  BY <1>1 DEF Committable, Moves
<1>3. RowsLife'
  <2>1. \A t \in Tenders : meta'[t] = IF txMeta[p][t] # None THEN txMeta[p][t] ELSE meta[t]
    BY DEF CommitDrafts
  <2> QED
    BY <1>1, <2>1 DEF Committable, MayMove, LifeInv, RowsLife, Unparsed, Unwritten
<1>4. \A d \in Docs : doc'[d] = IF dw[d] # None THEN dw[d] ELSE doc[d]
  BY DEF CommitDrafts
<1>5. DocsLife'
  <2> SUFFICES ASSUME NEW d \in Docs, doc'[d].status = "DOWNLOADED" PROVE Left(doc[d].tender)'
    BY DEF DocsLife
  <2>1. CASE dw[d] # None
    BY <1>1, <1>4, <2>1 DEF Committable, Publishable, Left
  <2>2. CASE dw[d] = None
    <3>1. doc[d].tender \in Tenders /\ Left(doc[d].tender) /\ doc'[d] = doc[d]
      BY <1>4, <2>2, OldRows DEF LifeInv, DocsLife
    <3> QED
      BY <1>2, <3>1 DEF Moves, MayMove, Left
  <2> QED
    BY <2>1, <2>2
<1>6. Keeps
  <2>1. \A d \in Docs : doc[d].tender \in Tenders => doc'[d].tender = doc[d].tender
    BY <1>4, OldRows DEF Committable, Publishable, FilesInv, OneOwner
  <2>2. \A t \in Tenders : meta[t] # None => meta'[t] # None
    BY DEF CommitDrafts
  <2> QED
    BY <2>1, <2>2 DEF Keeps
<1>7. /\ \A t \in Tenders : txTender'[p][t] = None /\ txMeta'[p][t] = None
      /\ \A d \in Docs : txDoc'[p][d] = None
  BY DEF CommitDrafts, NoTenders, NoDocs, TypeInv, TypeOK
<1>8. Others(p)
  BY EndLife DEF CommitDrafts, Others, Elsewhere, TypeInv, TypeOK
<1> QED
  BY <1>2, <1>3, <1>5, <1>6, <1>7, <1>8, EndLife, RestLife, StepLife DEF Entered

\* A step by which p goes on to its next call and writes nothing.
LEMMA MoveLife ==
  ASSUME TypeInv, LifeInv, NEW p \in Procs, Entered(p), UNCHANGED <<tender, doc, meta>>, UNCHANGED tx,
         Elsewhere(p), pc[p] \notin {"advance", "upload_advance", "extract_advance"},
         pc[p] \in RetirePlaces => pc'[p] \in RetirePlaces,
         pc'[p] # "idle" \/ p = Workflow, EntityLife(p)', WorkLife(p)'
  PROVE  LifeNext
<1>1. Others(p) /\ Locking(p)
  BY DEF Others, Elsewhere, Locking, tx
<1>2. DraftLife(p)
  BY DEF LifeInv, OwnLife
<1>3. \A t \in Tenders : TenderDraft(p, t)' /\ MetaDraft(p, t)'
  BY <1>2, PipelineAssumption DEF DraftLife, TenderDraft, MetaDraft, tx
<1>4. \A t \in Tenders : Covered(p, t) => Covered(p, t)'
  BY DEF Covered, Left, tx
<1>5. \A d \in Docs : DocDraft(p, d)'
  BY <1>2, <1>4, InHand DEF DraftLife, DocDraft, tx
<1> QED
  BY <1>1, <1>3, <1>5, SameRows, StepLife DEF OwnLife, DraftLife

\* update() drafts a DOWNLOADED row only of a tender that is covered, or for an
\* entity that says DOWNLOADED.
LEMMA PutCovered ==
  ASSUME TypeInv, FilesInv, LifeInv, NEW p \in Procs, NEW d \in Docs,
         Exists(doc[d]) \/ txDoc[p][d] # None,
         NEW e \in DocRow, e.tender \in Tenders, Owner(d, e.tender), e.status # "ABSENT"
  PROVE  \A f \in Docs : LET w == PutDoc(p, d, e)[f] IN w # None /\ w.status = "DOWNLOADED" =>
           w.tender \in Tenders /\ (Covered(p, w.tender) \/ (e.status = "DOWNLOADED" /\ w.tender = e.tender))
<1> DEFINE row == SeenDoc(p, d)
           m == Merge(e, Selected(p, row), row)
<1>1. row \in DocRow /\ row.tender \in Tenders /\ Owner(d, row.tender)
  BY SeenRows
<1>2. m \in DocRow /\ m.status \in {e.status, row.status} /\ m.tender \in {e.tender, row.tender}
  BY <1>1, MergeDoc
<1>3. m.tender = e.tender /\ m.tender = row.tender
  BY <1>1, <1>2 DEF FilesInv, OneOwner
<1>4. \A f \in Docs : txDoc[p][f] # None /\ txDoc[p][f].status = "DOWNLOADED" =>
        Covered(p, txDoc[p][f].tender) /\ txDoc[p][f].tender \in Tenders
  BY InHand DEF LifeInv, OwnLife, DraftLife, DocDraft
<1>5. row.status = "DOWNLOADED" => Covered(p, row.tender)
  BY <1>4 DEF SeenDoc, LifeInv, DocsLife, Covered
<1> HIDE DEF m, row
<1>6. PutDoc(p, d, e) \in {txDoc[p], [txDoc[p] EXCEPT ![d] = m]}
  BY DEF PutDoc, m, row
<1>7. \A f \in Docs : PutDoc(p, d, e)[f] \in {txDoc[p][f], m} /\ (f # d => PutDoc(p, d, e)[f] = txDoc[p][f])
  BY <1>6 DEF TypeInv, TypeOK
<1> QED
  BY <1>1, <1>2, <1>3, <1>4, <1>5, <1>7

\* A step of p that updates the document d with e, and drafts nothing else
\* but metadata.
LEMMA UpdateLife ==
  ASSUME TypeInv, FilesInv, LifeInv, NEW p \in Procs, pc[p] # "idle", NEW d \in Docs,
         Exists(doc[d]) \/ txDoc[p][d] # None,
         NEW e \in DocRow, e.tender \in Tenders, Owner(d, e.tender), e.status # "ABSENT",
         e.status = "DOWNLOADED" => Covered(p, e.tender)',
         UpdateDoc(p, d, e), UNCHANGED <<tender, doc, meta, txTender>>,
         Elsewhere(p), \A q \in Procs \ {p} : txMeta'[q] = txMeta[q],
         pc[p] \notin {"advance", "upload_advance"},
         pc[p] \in RetirePlaces => pc'[p] \in RetirePlaces, pc'[p] # "idle",
         \A t \in Tenders : MetaDraft(p, t)' /\ (txMeta'[p][t] # None => txMeta[p][t] # None \/ FreeMeta(p, t)),
         EntityLife(p)', WorkLife(p)'
  PROVE  LifeNext
<1>1. txDoc'[p] = PutDoc(p, d, e) /\ \A q \in Procs \ {p} : txDoc'[q] = txDoc[q]
  BY DEF UpdateDoc, TypeInv, TypeOK
<1>2. Others(p) /\ Locking(p)
  BY <1>1 DEF Others, Elsewhere, Locking
<1>3. \A t \in Tenders : TenderDraft(p, t)'
  BY DEF LifeInv, OwnLife, DraftLife, TenderDraft
<1>4. \A t \in Tenders : Covered(p, t) => Covered(p, t)'
  BY DEF Covered, Left
<1>5. ASSUME NEW f \in Docs PROVE DocDraft(p, f)'
  <2> DEFINE w == PutDoc(p, d, e)[f]
  <2>1. w # None /\ w.status = "DOWNLOADED" =>
           w.tender \in Tenders /\ (Covered(p, w.tender) \/ (e.status = "DOWNLOADED" /\ w.tender = e.tender))
    BY PutCovered
  <2>2. txDoc'[p][f] = w
    BY <1>1
  <2> HIDE DEF w
  <2>3. w # None /\ w.status = "DOWNLOADED" => Covered(p, txDoc[p][f].tender)'
    BY <1>4, <2>1, <2>2 DEF Covered, Left
  <2> QED
    BY <2>2, <2>3 DEF DocDraft
<1> QED
  BY <1>2, <1>3, <1>5, SameRows, StepLife DEF OwnLife, DraftLife, Entered

-----------------------------------------------------------------------------
(* Each action. *)

LEMMA DirectLife == ASSUME TypeInv, LifeInv, DirectStep PROVE LifeInv'
<1>0. UNCHANGED <<tx, local>> /\ Quiet
  BY DEF DirectStep, CreateTender, AddFromUrl, DeleteTender, Screen, Begins
<1>1. ASSUME RowsLife', DocsLife',
             \A t \in Tenders :
               LET s == tender[t].status  n == tender'[t].status IN
               \/ n = s
               \/ s = "ABSENT" /\ n = "REGISTERED"
               \/ n = "DELETED" /\ \A q \in Procs : txTender[q][t] = None /\ txMeta[q][t] = None,
             \A q \in Procs, d \in Docs : Holds(q, d) => doc'[d] = doc[d] \/ doc'[d].tender = doc[d].tender
      PROVE  LifeInv'
  <2>1. Solo' /\ Locks'
    BY <1>0 DEF LifeInv, Solo, Locks, tx, local
  <2> SUFFICES ASSUME NEW q \in Procs PROVE OwnLife(q)'
    BY <1>1, <2>1 DEF LifeInv
  <2>2. OwnLife(q)
    BY DEF LifeInv
  <2>3. /\ \A t \in Tenders : Left(t) => Left(t)'
        /\ \A t \in Tenders : tender[t].status \in Parsed => tender'[t].status \in Parsed
    BY <1>1 DEF Left, Parsed
  <2>4. \A t \in Tenders : TenderDraft(q, t)' /\ MetaDraft(q, t)'
    BY <1>0, <1>1, <2>2 DEF OwnLife, DraftLife, TenderDraft, MetaDraft, tx, local
  <2>5. \A t \in Tenders : Covered(q, t) => Covered(q, t)'
    BY <1>0, <2>3 DEF Covered, tx, local
  <2>6. \A d \in Docs : DocDraft(q, d)'
    BY <1>0, <2>2, <2>5, InHand DEF OwnLife, DraftLife, DocDraft, tx
  <2>7. WorkLife(q)'
    <3>1. pc[q] = "extract_store" => Left(at[q])'
      BY <1>0, <2>2, <2>3, InHand DEF OwnLife, WorkLife, Left, local
    <3>2. q \in Requests => \A t \in todo[q] : tender'[t].status \in Parsed
      BY <2>2, <2>3 DEF OwnLife, WorkLife, TypeInv, TypeOK
    <3>3. pc[q] \in {"retrigger", "extract_store", "retire_purge", "retire_mark"} =>
            \A d \in Docs : Holds(q, d) /\ held[q][d].status = "DOWNLOADED" => Left(held[q][d].tender)'
      BY <1>0, <2>2, <2>3, InHand DEF OwnLife, WorkLife, Holds, Left, local
    <3>4. pc[q] \in {"retire_purge", "retire_mark"} =>
            \A d \in Docs : Holds(q, d) => doc'[d].tender = at[q]
      BY <1>1, <2>2 DEF OwnLife, WorkLife
    <3> QED
      BY <1>0, <3>1, <3>2, <3>3, <3>4 DEF WorkLife, Holds, Left, local
  <2>8. EntityLife(q)'
    <3>0. EntityLife(q) /\ (pc[q] \in {"patch", "upload_advance", "advance", "extract_advance"} => at[q] \in Tenders)
      BY <2>2, InHand DEF OwnLife
    <3>1. pc[q] \notin {"patch", "upload_advance"}
      BY <1>0, <3>0 DEF EntityLife, Quiet
    <3>2. pc[q] = "advance" /\ ent[q].status = "REGISTERED" => tender'[at[q]].status \in {"REGISTERED", "DELETED"}
      BY <1>1, <3>0 DEF EntityLife
    <3>3. pc[q] = "extract_advance" =>
         \/ /\ ent[q].status = "DOWNLOADED" /\ tender'[at[q]].status = "DOWNLOADED"
            /\ txMeta[q][at[q]] # None /\ base[q] = None
         \/ ent[q].status # "DOWNLOADED" /\ tender'[at[q]].status \in Parsed
      BY <1>1, <2>3, <3>0 DEF EntityLife
    <3> QED
      BY <1>0, <3>0, <3>1, <3>2, <3>3 DEF EntityLife, HasEntity, tx, local
  <2> QED
    BY <2>4, <2>6, <2>7, <2>8 DEF OwnLife, DraftLife
<1>2. ASSUME NEW t \in Tenders, NEW c \in Closings, CreateTender(t, c) PROVE LifeInv'
  <2>1. /\ tender[t].status = "ABSENT" /\ tender'[t].status = "REGISTERED"
        /\ \A s \in Tenders \ {t} : tender'[s] = tender[s]
        /\ UNCHANGED <<doc, meta>>
    BY <1>2 DEF CreateTender, TypeInv, TypeOK
  <2>2. RowsLife' /\ DocsLife'
    BY <2>1, RowTender DEF LifeInv, RowsLife, DocsLife, Left, Unparsed, Unwritten
  <2> QED
    BY <1>1, <2>1, <2>2
<1>3. ASSUME NEW t \in Tenders, NEW d \in Docs, AddFromUrl(t, d) PROVE LifeInv'
  <2>1. /\ UNCHANGED <<tender, meta>> /\ FreshDoc(d)
        /\ doc'[d].status = "PENDING" /\ \A f \in Docs \ {d} : doc'[f] = doc[f]
    BY <1>3 DEF AddFromUrl, TypeInv, TypeOK
  <2>2. RowsLife' /\ DocsLife'
    BY <2>1 DEF LifeInv, RowsLife, DocsLife, Left
  <2>3. \A q \in Procs : ~Holds(q, d)
    BY <2>1 DEF FreshDoc, Holds
  <2> QED
    BY <1>1, <2>1, <2>2, <2>3
<1>4. ASSUME NEW t \in Tenders, Screen(t) PROVE LifeInv'
  <2>1. UNCHANGED <<tender, doc, meta>>
    BY <1>4 DEF Screen
  <2> QED
    BY <1>1, <2>1, SameRows
<1>5. ASSUME NEW t \in Tenders, DeleteTender(t) PROVE LifeInv'
  <2>1. /\ tender'[t].status = "DELETED" /\ \A s \in Tenders \ {t} : tender'[s] = tender[s]
        /\ \A q \in Procs : txTender[q][t] = None /\ txMeta[q][t] = None
        /\ \A s \in Tenders : s # t => meta'[s] = meta[s]
    <3>1. [tender[t] EXCEPT !.status = "DELETED"].status = "DELETED"
      BY DEF TypeInv, TypeOK, TenderRow
    <3> QED
      BY <1>5, <3>1 DEF DeleteTender, TypeInv, TypeOK
  <2>2. \A d \in Docs : \/ doc'[d] = doc[d]
                        \/ doc'[d].tender = doc[d].tender /\ doc'[d].status = "DELETED"
    BY <1>5 DEF DeleteTender, TypeInv, TypeOK, DocRow
  <2>3. RowsLife' /\ DocsLife'
    <3>1. RowsLife'
      BY <2>1 DEF LifeInv, RowsLife, Unparsed, Unwritten
    <3>2. \A s \in Tenders : Left(s) => Left(s)'
      BY <2>1 DEF Left
    <3>3. DocsLife'
      <4> SUFFICES ASSUME NEW d \in Docs, doc'[d].status = "DOWNLOADED" PROVE Left(doc[d].tender)'
        BY DEF DocsLife
      <4>1. doc'[d] = doc[d]
        BY <2>2
      <4>2. doc[d].tender \in Tenders
        BY <4>1, RowTender
      <4> QED
        BY <3>2, <4>1, <4>2 DEF LifeInv, DocsLife, Left
    <3> QED
      BY <3>1, <3>3
  <2> QED
    BY <1>1, <2>1, <2>2, <2>3
<1> QED
  BY <1>2, <1>3, <1>4, <1>5 DEF DirectStep

LEMMA WaitLife ==
  ASSUME TypeInv, LifeInv, NEW p \in Procs,
         WaitTender(p) \/ (\E d \in Docs : WaitDoc(p, d)) \/ Crash(p)
  PROVE  LifeNext
<1>1. CASE Crash(p)
  <2>1. Elsewhere(p) /\ pc'[p] = "idle" /\ todo'[p] = {}
    BY <1>1 DEF Crash, Goto, Elsewhere, TypeInv, TypeOK
  <2> QED
    BY <1>1, <2>1, FailLife DEF Crash
<1>2. CASE WaitTender(p) \/ \E d \in Docs : WaitDoc(p, d)
  <2>1. /\ UNCHANGED <<tender, doc, meta, txTender, txDoc, txMeta, pc, at, ent, held, todo>>
        /\ \A q \in Procs \ {p} : base'[q] = base[q] /\ pc[p] # "idle"
    BY <1>2 DEF WaitTender, WaitDoc, db, tx, TypeInv, TypeOK
  <2>2. Others(p) /\ Locking(p) /\ Entered(p)
    BY <1>2, <2>1 DEF Others, Locking, Entered, WaitTender, WaitDoc
  <2>3. DraftLife(p)' /\ WorkLife(p)'
    BY <2>1 DEF LifeInv, OwnLife, DraftLife, TenderDraft, MetaDraft, DocDraft, Covered, Left, WorkLife, Holds
  <2>4. EntityLife(p)'
    <3>0. EntityLife(p)
      BY DEF LifeInv, OwnLife
    <3>1. CASE WaitTender(p)
      <4>1. at[p] \in Tenders
        BY <3>1, InHand DEF WaitTender
      <4> PICK q \in Procs \ {p} : txTender[q][at[p]] # None
        BY <3>1 DEF WaitTender, FreeTender
      <4>2. /\ TenderDraft(q, at[p])
            /\ tender[at[p]].status = "REGISTERED" => q = Downloader
            /\ tender[at[p]].status \in {"REGISTERED", "PARSED", "ARCHIVED"} /\ pc[q] # "idle"
        BY <4>1 DEF LifeInv, OwnLife, DraftLife, TenderDraft, RetirePlaces
      <4>3. ~Serial
        BY <3>1, <4>2 DEF LifeInv, Solo, WaitTender
      <4> QED
        BY <2>1, <3>0, <4>2, <4>3 DEF EntityLife, HasEntity
    <3>2. CASE \E d \in Docs : WaitDoc(p, d)
      <4>1. pc[p] \in {"retrigger", "extract_store", "batch", "retire_mark"}
        BY <3>2 DEF WaitDoc
      <4> QED
        BY <2>1, <4>1 DEF EntityLife, HasEntity
    <3> QED
      BY <1>2, <3>1, <3>2
  <2> QED
    BY <2>1, <2>2, <2>3, <2>4, SameRows, StepLife DEF OwnLife
<1> QED
  BY <1>1, <1>2

LEMMA ReadDocumentLife ==
  ASSUME TypeInv, LifeInv, NEW p \in Procs, NEW t \in Tenders, NEW d \in Docs, ReadDocument(p, t, d),
         Entered(p), pc[p] \in {"idle", "queue"}
  PROVE  LifeNext
<1>1. /\ UNCHANGED <<tender, doc, meta>> /\ UNCHANGED <<txTender, txDoc, txMeta>> /\ Elsewhere(p)
      /\ pc'[p] = "extract_store" /\ at'[p] = t /\ UNCHANGED todo
      /\ \A f \in Docs : held'[p][f] # None => f = d
      /\ held'[p][d] = [doc[d] EXCEPT !.text = disk[d]]
  BY DEF ReadDocument, Goto, Keep, NoDocs, Elsewhere, db, tx, TypeInv, TypeOK
<1>2. doc[d].status = "DOWNLOADED" /\ doc[d].tender = t /\ held'[p][d].tender = t
  BY <1>1 DEF ReadDocument, Selectable, TypeInv, TypeOK, DocRow
<1>3. Left(t)
  BY <1>2 DEF LifeInv, DocsLife
<1>4. WorkLife(p)'
  BY <1>1, <1>2, <1>3 DEF WorkLife, Left, Holds, LifeInv, OwnLife
<1>5. EntityLife(p)'
  BY <1>1 DEF EntityLife, HasEntity
<1> QED
  BY <1>1, <1>4, <1>5, MoveLife DEF RetirePlaces, tx

LEMMA WorkflowLife == ASSUME TypeInv, LifeInv, WorkflowStep PROVE LifeNext
<1>0. Workflow \in Procs /\ Workflow \notin Requests
  BY PipelineAssumption DEF Procs
<1>1. ASSUME NEW t \in Tenders, NEW d \in Docs, WorkflowExtract(t, d) PROVE LifeNext
  BY <1>0, <1>1, ReadDocumentLife DEF WorkflowExtract, Entered
<1>2. CASE WorkflowFetch \/ WorkflowDone \/ \E t \in Tenders : WorkflowSkip(t)
  <2>1. /\ UNCHANGED <<tender, doc, meta>> /\ UNCHANGED tx /\ Elsewhere(Workflow) /\ Entered(Workflow)
        /\ pc[Workflow] \in {"idle", "queue"} /\ pc'[Workflow] \in {"queue", "idle"}
    BY <1>0, <1>2
       DEF WorkflowFetch, WorkflowDone, WorkflowSkip, Starts, Begins, Entered, Goto, Elsewhere, db,
           TypeInv, TypeOK
  <2>2. EntityLife(Workflow)' /\ WorkLife(Workflow)'
    BY <1>0, <2>1 DEF EntityLife, WorkLife, HasEntity
  <2> QED
    BY <1>0, <2>1, <2>2, MoveLife DEF RetirePlaces
<1> QED
  BY <1>1, <1>2 DEF WorkflowStep

\* The drafts of a process that is not advancing a tender may be committed.
LEMMA OwnCommittable ==
  ASSUME TypeInv, FilesInv, LifeInv, NEW p \in Procs, pc[p] # "idle",
         pc[p] \notin {"advance", "upload_advance", "extract_advance"}
  PROVE  Committable(p, txTender[p], txDoc[p])
<1>1. DraftLife(p)
  BY DEF LifeInv, OwnLife
<1>2. ASSUME NEW t \in Tenders
      PROVE  /\ MayMove(p, t, tender[t].status, After(txTender[p], t)) /\ txMeta[p][t] = None
             /\ Covered(p, t) => After(txTender[p], t) \notin {"ABSENT", "REGISTERED"}
  <2>1. TenderDraft(p, t) /\ MetaDraft(p, t)
    BY <1>1 DEF DraftLife
  <2>2. txTender[p][t] # None => \A q \in Procs \ {p} : txTender[q][t] = None
    BY DEF LifeInv, Locks
  <2>3. MayMove(p, t, tender[t].status, After(txTender[p], t))
    BY <2>1, <2>2 DEF MayMove, TenderDraft, After
  <2> QED
    BY <2>1, <2>3 DEF MetaDraft, Covered, Left, After, TenderDraft
<1> QED
  BY <1>1, <1>2, DraftsPublishable, InHand DEF Committable, DraftLife, DocDraft

LEMMA ExtractLife ==
  ASSUME TypeInv, MetadataInv, FilesInv, LifeInv, NEW p \in Requests \cup {Workflow}, ExtractStep(p)
  PROVE  LifeNext
<1>0. p \in Procs /\ p # Downloader
  BY PipelineAssumption DEF Procs
<1>a. OwnLife(p) /\ EntityLife(p) /\ WorkLife(p)
  BY <1>0 DEF LifeInv, OwnLife
<1>b. pc[p] \in {"extract_store", "extract_advance"} => \A t \in Tenders : txTender[p][t] = None
  BY <1>0, <1>a DEF OwnLife, DraftLife, TenderDraft, RetirePlaces
<1>1. ASSUME Rollback(p), Finish(p), pc[p] # "idle" PROVE LifeNext
  BY <1>0, <1>1, EndLife, FailLife
<1>2. ASSUME NEW d \in Docs, ExtractStore(p, d), ~Fail(p) PROVE LifeNext
  <2> PICK t, e : t = at[p] /\ e = held[p][d]
    OBVIOUS
  <2>1. /\ pc[p] = "extract_store" /\ Holds(p, d) /\ t \in Tenders
        /\ Exists(tender[t]) /\ Exists(doc[d])
        /\ meta[t] # e.text => FreeMeta(p, t)
        /\ txMeta' = IF meta[t] = e.text THEN txMeta ELSE [txMeta EXCEPT ![p][t] = e.text]
        /\ UpdateDoc(p, d, e)
        /\ ent' = [ent EXCEPT ![p] = SeenTender(p, t)]
        /\ Goto(p, "extract_advance")
        /\ UNCHANGED <<tender, doc, meta, txTender, at, held, todo>>
    BY <1>0, <1>2, InHand DEF ExtractStore, db
  <2>2. /\ e \in DocRow /\ e.tender \in Tenders /\ Owner(d, e.tender) /\ e.status # "ABSENT"
        /\ e.text # None /\ (e.status = "DOWNLOADED" => Left(e.tender)) /\ Left(t)
    <3>1. /\ e # None /\ e \in DocRow /\ e.tender \in Tenders /\ Owner(d, e.tender) /\ RowKept(d, e)
      BY <1>0, <2>1, HeldFields, OldRows DEF Holds
    <3>2. e.text # None
      BY <1>0, <2>1 DEF MetadataInv, Sound, ExtractionSound
    <3>3. (e.status = "DOWNLOADED" => Left(e.tender)) /\ Left(t)
      BY <1>a, <2>1 DEF WorkLife
    <3> QED
      BY <3>1, <3>2, <3>3, NoneApart DEF RowKept
  <2>3. /\ Elsewhere(p) /\ pc'[p] = "extract_advance" /\ base'[p] = None /\ at'[p] = t
        /\ ent'[p] = tender[t]
        /\ \A q \in Procs \ {p} : txMeta'[q] = txMeta[q]
        /\ \A s \in Tenders : txMeta'[p][s] # None => s = t /\ FreeMeta(p, s)
        /\ meta[t] # e.text => txMeta'[p][t] = e.text
    <3>1. \A s \in Tenders : txMeta[p][s] = None
      BY <1>a, <2>1 DEF OwnLife, DraftLife, MetaDraft
    <3>2. SeenTender(p, t) = tender[t]
      BY <1>b, <2>1 DEF SeenTender
    <3>3. Elsewhere(p) /\ pc'[p] = "extract_advance" /\ base'[p] = None /\ at'[p] = t
          /\ ent'[p] = tender[t]
      BY <1>0, <2>1, <3>2 DEF Goto, Elsewhere, TypeInv, TypeOK
    <3>4. txMeta' = txMeta \/ (meta[t] # e.text /\ txMeta' = [txMeta EXCEPT ![p][t] = e.text])
      BY <2>1
    <3>5. /\ \A q \in Procs \ {p} : txMeta'[q] = txMeta[q]
          /\ \A s \in Tenders : txMeta'[p][s] # None => s = t /\ FreeMeta(p, s)
      BY <1>0, <2>1, <3>1, <3>4 DEF TypeInv, TypeOK
    <3>6. meta[t] # e.text => txMeta'[p][t] = e.text
      BY <1>0, <2>1 DEF TypeInv, TypeOK
    <3> QED
      BY <3>3, <3>5, <3>6
  <2>4. /\ tender[t].status = "DOWNLOADED" => txMeta'[p][t] # None
        /\ tender[t].status \in {"DOWNLOADED", "PARSED", "ARCHIVED"}
    <3>1. tender[t].status = "DOWNLOADED" => meta[t] = None
      BY <2>1 DEF LifeInv, RowsLife, Unparsed
    <3>2. tender[t].status \in {"DOWNLOADED", "PARSED", "ARCHIVED"}
      BY <2>1, <2>2
         DEF LifeInv, RowsLife, Unwritten, Left, Exists, NoRow, TypeInv, TypeOK, TenderRow, TenderStatuses
    <3> QED
      BY <2>2, <2>3, <3>1, <3>2
  <2>5. EntityLife(p)'
    BY <2>1, <2>3, <2>4 DEF EntityLife, HasEntity, Parsed, LifeInv, RowsLife
  <2>6. WorkLife(p)'
    BY <1>a, <2>1, <2>3 DEF WorkLife
  <2>7. Covered(p, e.tender)' \/ e.status # "DOWNLOADED"
    BY <2>1, <2>2 DEF Covered, Left
  <2>8. \A s \in Tenders : MetaDraft(p, s)' /\ (txMeta'[p][s] # None => txMeta[p][s] # None \/ FreeMeta(p, s))
    BY <2>3 DEF MetaDraft
  <2> QED
    BY <1>0, <2>1, <2>2, <2>3, <2>5, <2>6, <2>7, <2>8, UpdateLife DEF RetirePlaces
<1>3. CASE ExtractAdvance(p)
  <2> DEFINE t == at[p]
             advances == Exists(ent[p]) /\ CanTransition(ent[p].status, "PARSED")
             parsed == [ent[p] EXCEPT !.status = "PARSED"]
             tw == IF advances THEN PutTender(p, t, parsed) ELSE txTender[p]
  <2>1. t \in Tenders /\ ent[p] \in TenderRow /\ pc[p] = "extract_advance"
    BY <1>0, <1>3, InHand DEF ExtractAdvance, HasEntity
  <2>2. CASE Rollback(p)
    BY <1>1, <1>3, <2>1, <2>2 DEF ExtractAdvance
  <2>3. CASE ~Rollback(p)
    <3>1. CommitDrafts(p, tw, txDoc[p], txMeta[p]) /\ Finish(p)
      BY <1>3, <2>3 DEF ExtractAdvance
    <3>2. /\ \A s \in Tenders : txMeta[p][s] # None => s = t
          /\ \A d \in Docs : txDoc[p][d] # None /\ txDoc[p][d].status = "DOWNLOADED" =>
               txDoc[p][d].tender \in Tenders /\ Left(txDoc[p][d].tender)
      BY <1>0, <1>a, <1>b, <2>1, InHand DEF OwnLife, DraftLife, MetaDraft, DocDraft, Covered
    <3>3. /\ advances => ent[p].status = "DOWNLOADED"
          /\ ~advances => ent[p].status # "DOWNLOADED"
      <4>1. ent[p].status \in (TenderStatuses \cup NoRow) \ Unwritten
        BY <1>a, <2>1 DEF EntityLife, HasEntity, TenderRow
      <4> QED
        BY <4>1 DEF Exists, NoRow, CanTransition, Transitions, TenderStatuses, Unwritten
    <3>4. ASSUME NEW s \in Tenders
          PROVE  /\ MayMove(p, s, tender[s].status, After(tw, s))
                 /\ txMeta[p][s] # None => After(tw, s) \notin Unparsed
                 /\ Left(s) => After(tw, s) \notin {"ABSENT", "REGISTERED"}
      <4>1. CASE ~advances
        <5>1. After(tw, s) = tender[s].status
          BY <1>b, <2>1, <4>1 DEF After
        <5> QED
          BY <1>a, <2>1, <3>2, <3>3, <4>1, <5>1 DEF MayMove, EntityLife, Left, Parsed, Unparsed
      <4>2. CASE advances
        <5>1. ent[p].status = "DOWNLOADED" /\ tender[t].status = "DOWNLOADED"
              /\ txMeta[p][t] # None /\ base[p] = None
          BY <1>a, <2>1, <3>3, <4>2 DEF EntityLife
        <5>2. SeenTender(p, t) = tender[t] /\ Selected(p, tender[t]) = tender[t]
          BY <1>b, <2>1, <5>1 DEF SeenTender, Selected
        <5>3. parsed \in TenderRow /\ parsed.status = "PARSED"
          BY <2>1 DEF TenderRow, TenderStatuses
        <5>4. Merge(parsed, tender[t], tender[t]).status = "PARSED"
          BY <5>1, <5>3, <2>1 DEF Merge, TypeInv, TypeOK, TenderRow
        <5>5. tw = [txTender[p] EXCEPT ![t] = Merge(parsed, tender[t], tender[t])]
          BY <4>2, <5>1, <5>2, <5>3 DEF PutTender
        <5>6. Merge(parsed, tender[t], tender[t]) # None
          <6>1. Merge(parsed, tender[t], tender[t]) \in TenderRow
            BY <2>1, <5>3, MergeTender DEF TypeInv, TypeOK
          <6> QED
            BY <6>1, NoneApart
        <5>7. After(tw, s) = IF s = t THEN "PARSED" ELSE tender[s].status
          BY <1>0, <1>b, <2>1, <5>4, <5>5, <5>6 DEF After, TypeInv, TypeOK
        <5>8. \A q \in Procs : txTender[q][t] = None
          BY <2>1, <5>1 DEF LifeInv, OwnLife, DraftLife, TenderDraft
        <5> QED
          BY <2>1, <3>2, <5>1, <5>7, <5>8 DEF MayMove, Left, Unparsed
      <4> QED
        BY <4>1, <4>2
    <3>5. Committable(p, tw, txDoc[p])
      BY <1>0, <3>2, <3>4, DraftsPublishable DEF Committable
    <3> HIDE DEF tw
    <3> QED
      BY <1>0, <2>1, <3>1, <3>5, CommitLife
  <2> QED
    BY <2>2, <2>3
<1> QED
  BY <1>1, <1>2, <1>3 DEF ExtractStep, ExtractStore, Fail
LEMMA DownloadLife == ASSUME TypeInv, FilesInv, LifeInv, DownloadStep PROVE LifeNext
<1> PICK p : p = Downloader /\ p \in Procs /\ p \notin Requests /\ p # Workflow
  BY PipelineAssumption DEF Procs
<1>a. DraftLife(p) /\ EntityLife(p)
  BY DEF LifeInv, OwnLife
<1>b. pc[p] # "extract_advance" => \A t \in Tenders : txMeta[p][t] = None
  BY <1>a DEF DraftLife, MetaDraft
\* An update of a document on the way from one place to another.
<1>c. ASSUME NEW d \in Docs, NEW e \in DocRow, pc[p] \in {"batch", "download"}, Holds(p, d),
             e.tender = held[p][d].tender, e.status # "ABSENT",
             Exists(doc[d]) \/ txDoc[p][d] # None,
             e.status = "DOWNLOADED" => Covered(p, e.tender)',
             UpdateDoc(p, d, e), UNCHANGED <<tender, doc, meta, txTender, txMeta>>,
             Elsewhere(p), pc'[p] \in {"batch", "download", "advance"}, EntityLife(p)'
      PROVE  LifeNext
  <2>1. e.tender \in Tenders /\ Owner(d, e.tender)
    BY <1>c, OldRows DEF Holds
  <2>2. \A t \in Tenders : MetaDraft(p, t)' /\ (txMeta'[p][t] # None => txMeta[p][t] # None \/ FreeMeta(p, t))
    BY <1>b, <1>c DEF MetaDraft
  <2>3. WorkLife(p)'
    BY <1>c DEF WorkLife
  <2> QED
    BY <1>c, <2>1, <2>2, <2>3, UpdateLife DEF RetirePlaces
<1>1. CASE DownloadFetch
  <2>1. /\ UNCHANGED <<tender, doc, meta>> /\ UNCHANGED tx /\ Elsewhere(p)
        /\ pc[p] = "idle" /\ pc'[p] = "batch" /\ Entered(p)
    BY <1>1 DEF DownloadFetch, Goto, Elsewhere, Starts, Begins, Entered, db, TypeInv, TypeOK
  <2>2. EntityLife(p)' /\ WorkLife(p)'
    BY <2>1 DEF EntityLife, WorkLife, HasEntity
  <2> QED
    BY <2>1, <2>2, MoveLife DEF RetirePlaces
<1>2. ASSUME NEW d \in Docs, DownloadStart(d) PROVE LifeNext
  <2>0. pc[p] = "batch" /\ First(p, d) /\ Holds(p, d)
    BY <1>2 DEF DownloadStart, First
  <2>1. CASE Fail(p)
    BY <2>0, <2>1, EndLife, FailLife DEF Fail
  <2>2. CASE ~Fail(p)
    <3> PICK s, e : /\ s = IF held[p][d].url THEN "DOWNLOADING" ELSE "FAILED"
                    /\ e = [held[p][d] EXCEPT !.status = s]
      OBVIOUS
    <3>1. e \in DocRow /\ e.tender = held[p][d].tender /\ e.status = s /\ s \in {"DOWNLOADING", "FAILED"}
      BY <2>0, HeldFields DEF DocRow, DocumentStatuses
    <3>2. /\ Exists(doc[d]) /\ UpdateDoc(p, d, e) /\ UNCHANGED <<tender, doc, meta, txTender, txMeta>>
          /\ UNCHANGED <<at, ent, todo>>
          /\ base' = [base EXCEPT ![p] = None]
          /\ \/ pc' = [pc EXCEPT ![p] = "download"] /\ UNCHANGED held
             \/ pc' = [pc EXCEPT ![p] = "batch"] /\ Drop(p, d)
      BY <1>2, <2>2 DEF DownloadStart, Goto, db
    <3>3. Elsewhere(p) /\ pc'[p] \in {"batch", "download"}
      BY <3>2 DEF Elsewhere, Drop, TypeInv, TypeOK
    <3>4. EntityLife(p)'
      BY <3>3 DEF EntityLife, HasEntity
    <3> QED
      BY <1>c, <2>0, <3>1, <3>2, <3>3, <3>4
  <2> QED
    BY <2>1, <2>2
<1>3. ASSUME NEW d \in Docs, NEW c \in Contents, DownloadSave(d, c) PROVE LifeNext
  <2> PICK t, e : t = held[p][d].tender /\ e = [held[p][d] EXCEPT !.status = "DOWNLOADED", !.file = c]
    OBVIOUS
  <2>1. pc[p] = "download" /\ First(p, d) /\ Holds(p, d) /\ txDoc[p][d] # None
    BY <1>3 DEF DownloadSave, First, FilesInv, PlaceOK, InTransfer
  <2>2. e \in DocRow /\ e.tender = t /\ t \in Tenders /\ e.status = "DOWNLOADED"
    BY <2>1, HeldFields DEF DocRow, DocumentStatuses
  <2>3. /\ UpdateDoc(p, d, e) /\ UNCHANGED <<tender, doc, meta, txTender, txMeta, todo>>
        /\ pc' = [pc EXCEPT ![p] = "advance"] /\ base' = [base EXCEPT ![p] = None]
        /\ held' = [held EXCEPT ![p][d] = e] /\ at' = [at EXCEPT ![p] = t]
        /\ ent' = [ent EXCEPT ![p] = SeenTender(p, t)]
    BY <1>3 DEF DownloadSave, Goto, db
  <2>4. /\ Elsewhere(p) /\ pc'[p] = "advance" /\ base'[p] = None /\ at'[p] = t
        /\ ent'[p] = SeenTender(p, t)
    BY <2>3 DEF Elsewhere, TypeInv, TypeOK
  <2>5. Exists(tender[t])
    <3>1. Owner(d, t) /\ Owner(d, txDoc[p][d].tender) /\ txDoc[p][d].tender \in Tenders
      BY <2>1, OldRows DEF Holds
    <3> QED
      BY <2>1, <2>2, <3>1 DEF FilesInv, OneOwner, LiveRows
  <2>6. /\ tender[t].status = "REGISTERED" =>
             \/ txTender[p][t] # None /\ txTender[p][t].status = "DOWNLOADED"
             \/ SeenTender(p, t).status = "REGISTERED"
        /\ SeenTender(p, t).status = "REGISTERED" => tender[t].status = "REGISTERED"
        /\ SeenTender(p, t).status \notin Unwritten
    BY <1>a, <2>2 DEF SeenTender, DraftLife, TenderDraft, LifeInv, RowsLife, Unwritten
  <2>7. Covered(p, t)'
    BY <2>2, <2>3, <2>4, <2>5, <2>6 DEF Covered, Left, Exists, NoRow
  <2>8. EntityLife(p)'
    BY <2>3, <2>4, <2>6 DEF EntityLife, HasEntity
  <2> QED
    BY <1>c, <2>1, <2>2, <2>3, <2>4, <2>7, <2>8
<1>4. ASSUME NEW d \in Docs, DownloadFail(d) PROVE LifeNext
  <2> PICK e : e = [held[p][d] EXCEPT !.status = "FAILED"]
    OBVIOUS
  <2>1. pc[p] = "download" /\ First(p, d) /\ Holds(p, d) /\ txDoc[p][d] # None
    BY <1>4 DEF DownloadFail, First, FilesInv, PlaceOK, InTransfer
  <2>2. e \in DocRow /\ e.tender = held[p][d].tender /\ e.status = "FAILED"
    BY <2>1, HeldFields DEF DocRow, DocumentStatuses
  <2>3. /\ UpdateDoc(p, d, e) /\ UNCHANGED <<tender, doc, meta, txTender, txMeta>>
        /\ Elsewhere(p) /\ pc'[p] = "batch"
    BY <1>4 DEF DownloadFail, Goto, Drop, Elsewhere, db, TypeInv, TypeOK
  <2>4. EntityLife(p)'
    BY <2>3 DEF EntityLife, HasEntity
  <2> QED
    BY <1>c, <2>1, <2>2, <2>3, <2>4
<1>5. ASSUME NEW d \in Docs, DownloadAdvance(d) PROVE LifeNext
  <2> PICK t, e : t = at[p] /\ e = [ent[p] EXCEPT !.status = "DOWNLOADED"]
    OBVIOUS
  <2>1. pc[p] = "advance" /\ t \in Tenders /\ ent[p] \in TenderRow
    BY <1>5, InHand DEF DownloadAdvance, HasEntity
  <2>2. /\ UNCHANGED <<tender, doc, meta, txDoc, txMeta>> /\ Elsewhere(p) /\ pc'[p] = "batch"
        /\ IF ent[p].status = "REGISTERED"
           THEN Exists(tender[t]) /\ UpdateTender(p, t, e)
           ELSE UNCHANGED txTender
    BY <1>5 DEF DownloadAdvance, Goto, Drop, Elsewhere, db, TypeInv, TypeOK
  <2>3. /\ Others(p) /\ (\A s \in Tenders : txTender'[p][s] # None => txTender[p][s] # None \/ FreeTender(p, s))
        /\ \A s \in Tenders : TenderDraft(p, s)' /\ (Covered(p, s) => Covered(p, s)')
    <3>1. CASE ent[p].status # "REGISTERED"
      BY <1>a, <2>1, <2>2, <3>1
         DEF Others, Elsewhere, DraftLife, TenderDraft, Covered, Left
    <3>2. CASE ent[p].status = "REGISTERED"
      <4>1. base[p] = None /\ tender[t].status = "REGISTERED"
        BY <1>a, <2>1, <2>2, <3>2 DEF EntityLife, Exists, NoRow
      <4> PICK row, m : row = SeenTender(p, t) /\ m = Merge(e, row, row)
        OBVIOUS
      <4>2. /\ row \in TenderRow
            /\ txTender[p][t] # None => txTender[p][t] = row
            /\ row.status = "DOWNLOADED" => txTender[p][t] # None
        BY <2>1, <4>1, SeenTypes DEF SeenTender, TypeInv
      <4>3. e \in TenderRow /\ e.status = "DOWNLOADED"
        BY <2>1 DEF TenderRow, TenderStatuses
      <4>4. m \in TenderRow /\ m # None /\ m.status = "DOWNLOADED"
        <5>1. m \in TenderRow /\ m # None
          BY <4>2, <4>3, MergeTender, NoneApart
        <5> QED
          BY <4>2, <4>3, <5>1 DEF Merge, TenderRow
      <4>5. /\ txTender' = [txTender EXCEPT ![p] = IF row = e THEN txTender[p] ELSE [txTender[p] EXCEPT ![t] = m]]
            /\ FreeTender(p, t) \/ row = e
        BY <2>2, <3>2, <4>1 DEF UpdateTender, CanPutTender, PutTender, Selected
      <4>6. /\ \A q \in Procs \ {p} : txTender'[q] = txTender[q]
            /\ \A s \in Tenders : s # t => txTender'[p][s] = txTender[p][s]
            /\ txTender'[p][t] # None /\ txTender'[p][t].status = "DOWNLOADED"
            /\ txTender[p][t] # None \/ FreeTender(p, t)
        BY <2>1, <4>2, <4>3, <4>4, <4>5 DEF TypeInv, TypeOK
      <4>7. \A s \in Tenders : TenderDraft(p, s)'
        BY <1>a, <2>2, <4>1, <4>6 DEF DraftLife, TenderDraft
      <4>8. \A s \in Tenders : Covered(p, s) => Covered(p, s)'
        BY <2>1, <2>2, <4>6 DEF Covered, Left
      <4>9. Others(p)
        BY <2>2, <4>6 DEF Others, Elsewhere
      <4> QED
        BY <4>6, <4>7, <4>8, <4>9
    <3> QED
      BY <3>1, <3>2
  <2>4. Locking(p)
    BY <2>2, <2>3 DEF Locking
  <2>5. \A s \in Tenders : MetaDraft(p, s)'
    BY <1>b, <2>1, <2>2 DEF MetaDraft
  <2>6. \A f \in Docs : DocDraft(p, f)'
    BY <1>a, <2>2, <2>3, InHand DEF DraftLife, DocDraft
  <2>7. EntityLife(p)' /\ WorkLife(p)'
    BY <2>2 DEF EntityLife, WorkLife, HasEntity
  <2> QED
    BY <2>1, <2>2, <2>3, <2>4, <2>5, <2>6, <2>7, SameRows, StepLife DEF OwnLife, DraftLife, Entered
<1>6. CASE DownloadCommit
  BY <1>6, OwnCommittable, CommitLife DEF DownloadCommit, Commit
<1> QED
  BY <1>1, <1>2, <1>3, <1>4, <1>5, <1>6 DEF DownloadStep
\* A request that reads what it will write: nothing is drafted yet.
LEMMA BeginLife ==
  ASSUME TypeInv, LifeInv, NEW p \in Requests, pc[p] = "idle", Quiet,
         UNCHANGED <<tender, doc, meta>>, UNCHANGED tx, Elsewhere(p),
         pc'[p] \in {"patch", "upload_add", "retrigger", "retire_next"},
         EntityLife(p)', \A t \in todo'[p] : tender[t].status \in Parsed,
         pc'[p] = "retrigger" =>
           \A d \in Docs : held'[p][d] # None => held'[p][d].status # "DOWNLOADED"
  PROVE  LifeNext
<1>0. p \in Procs
  BY DEF Procs
<1>1. WorkLife(p)'
  BY DEF WorkLife, Holds
<1> QED
  BY <1>0, <1>1, MoveLife DEF Entered, RetirePlaces

LEMMA PatchLife ==
  ASSUME Unmixed, TypeInv, FilesInv, LifeInv, NEW p \in Requests,
         (\E t \in Tenders, c \in Closings : PatchRead(p, t, c)) \/ PatchWrite(p)
  PROVE  LifeNext
<1>0. p \in Procs /\ p # Downloader /\ p # Workflow
  BY PipelineAssumption DEF Procs
<1>a. OwnLife(p) /\ DraftLife(p) /\ EntityLife(p) /\ WorkLife(p)
  BY <1>0 DEF LifeInv, OwnLife
<1>1. ASSUME NEW t \in Tenders, NEW c \in Closings, PatchRead(p, t, c) PROVE LifeNext
  <2>1. /\ pc[p] = "idle" /\ Quiet /\ UNCHANGED <<tender, doc, meta>> /\ UNCHANGED tx /\ Elsewhere(p)
        /\ pc'[p] = "patch" /\ at'[p] = t /\ ent'[p] = [tender[t] EXCEPT !.closing = c]
        /\ UNCHANGED todo /\ Serial
    BY <1>0, <1>1 DEF PatchRead, Goto, Elsewhere, Starts, Begins, Unmixed, db, TypeInv, TypeOK
  <2>2. ent'[p].status = tender[t].status
    BY <2>1 DEF TypeInv, TypeOK, TenderRow
  <2>3. EntityLife(p)'
    BY <2>1, <2>2 DEF EntityLife, HasEntity, LifeInv, RowsLife
  <2> QED
    BY <1>a, <2>1, <2>3, BeginLife DEF WorkLife
<1>2. CASE PatchWrite(p)
  <2>1. pc[p] = "patch" /\ at[p] \in Tenders /\ ent[p] \in TenderRow
    BY <1>0, <1>2, InHand DEF PatchWrite, HasEntity
  <2>2. CASE Fail(p)
    BY <1>0, <2>1, <2>2, EndLife, FailLife DEF Fail
  <2>3. CASE ~Fail(p)
    <3> PICK s, e, row, m, tw : /\ s = at[p] /\ e = ent[p] /\ row = SeenTender(p, s)
                                /\ m = Merge(e, Selected(p, row), row)
                                /\ tw = PutTender(p, s, e)
      OBVIOUS
    <3>1. CommitDrafts(p, tw, txDoc[p], txMeta[p]) /\ Finish(p)
      BY <1>2, <2>3 DEF PatchWrite
    <3>2. \A u \in Tenders : txTender[p][u] = None /\ txMeta[p][u] = None
      BY <1>0, <1>a, <2>1 DEF DraftLife, TenderDraft, MetaDraft, RetirePlaces
    <3>3. row = tender[s] /\ row \in TenderRow /\ e \in TenderRow /\ e.status = row.status
      BY <1>a, <2>1, <3>2 DEF SeenTender, EntityLife, TypeInv, TypeOK
    <3>4. m # None /\ m.status = tender[s].status
      BY <3>3, MergeTender, NoneApart
    <3>5. \A u \in Tenders : tw[u] # None => u = s /\ tw[u] = m
      BY <1>0, <2>1, <3>2, <3>4 DEF PutTender, TypeInv, TypeOK
    <3>6. \A u \in Tenders : After(tw, u) = tender[u].status
      BY <3>4, <3>5 DEF After
    <3>7. \A d \in Docs : txDoc[p][d] # None /\ txDoc[p][d].status = "DOWNLOADED" =>
            txDoc[p][d].tender \in Tenders /\ Left(txDoc[p][d].tender)
      BY <1>0, <1>a, <2>1, <3>2, InHand DEF DraftLife, DocDraft, Covered
    <3>8. Committable(p, tw, txDoc[p])
      BY <1>0, <3>2, <3>6, <3>7, DraftsPublishable DEF Committable, MayMove, Left
    <3> QED
      BY <1>0, <2>1, <3>1, <3>8, CommitLife
  <2> QED
    BY <2>2, <2>3
<1> QED
  BY <1>1, <1>2

LEMMA UploadLife ==
  ASSUME Unmixed, TypeInv, FilesInv, LifeInv, NEW p \in Requests,
         \/ \E t \in Tenders, d \in Docs, c \in Contents : UploadStore(p, t, d, c)
         \/ \E d \in Docs : UploadAdd(p, d)
         \/ UploadAdvance(p)
  PROVE  LifeNext
<1>0. p \in Procs /\ p # Downloader /\ p # Workflow
  BY PipelineAssumption DEF Procs
<1>a. OwnLife(p) /\ DraftLife(p) /\ EntityLife(p) /\ WorkLife(p)
  BY <1>0 DEF LifeInv, OwnLife
<1>b. pc[p] \in {"upload_add", "upload_advance"} =>
        \A u \in Tenders : txTender[p][u] = None /\ txMeta[p][u] = None
  BY <1>0, <1>a DEF DraftLife, TenderDraft, MetaDraft, RetirePlaces
<1>1. ASSUME NEW t \in Tenders, NEW d \in Docs, NEW c \in Contents, UploadStore(p, t, d, c) PROVE LifeNext
  <2>1. /\ pc[p] = "idle" /\ Quiet /\ UNCHANGED <<tender, doc, meta>> /\ UNCHANGED tx /\ Elsewhere(p)
        /\ pc'[p] = "upload_add" /\ UNCHANGED todo /\ Serial
    BY <1>0, <1>1 DEF UploadStore, Goto, Keep, Elsewhere, Starts, Begins, Unmixed, db, TypeInv, TypeOK
  <2>2. EntityLife(p)'
    BY <2>1 DEF EntityLife, HasEntity
  <2> QED
    BY <1>a, <2>1, <2>2, BeginLife DEF WorkLife
<1>2. ASSUME NEW d \in Docs, UploadAdd(p, d) PROVE LifeNext
  <2>1. pc[p] = "upload_add" /\ at[p] \in Tenders /\ Holds(p, d)
    BY <1>0, <1>2, InHand DEF UploadAdd
  <2>2. CASE Fail(p)
    BY <1>0, <2>1, <2>2, EndLife, FailLife DEF Fail
  <2>3. CASE ~Fail(p)
    <3>1. /\ Exists(tender[at[p]]) /\ UNCHANGED <<tender, doc, meta, txTender, txMeta, todo>>
          /\ txDoc' = [txDoc EXCEPT ![p][d] = held[p][d]]
          /\ Elsewhere(p) /\ pc'[p] = "upload_advance" /\ base'[p] = None /\ at'[p] = at[p]
          /\ ent'[p] = tender[at[p]]
      BY <1>0, <1>2, <2>3 DEF UploadAdd, Goto, Elsewhere, db, TypeInv, TypeOK
    <3>2. /\ \A q \in Procs \ {p} : txDoc'[q] = txDoc[q]
          /\ \A f \in Docs : txDoc'[p][f] = IF f = d THEN held[p][d] ELSE txDoc[p][f]
      BY <1>0, <3>1 DEF TypeInv, TypeOK
    <3>3. held[p][d].tender = at[p]
      BY <1>0, <2>1 DEF FilesInv, PlaceOK
    <3>4. Covered(p, at[p])'
      BY <2>1, <3>1 DEF Covered, Left, Exists, NoRow
    <3>5. \A t \in Tenders : Covered(p, t) => Covered(p, t)'
      BY <1>b, <2>1, <3>1 DEF Covered, Left
    <3>6. ASSUME NEW f \in Docs PROVE DocDraft(p, f)'
      <4>1. CASE f = d
        <5>1. txDoc'[p][f].tender = at[p] /\ at'[p] = at[p]
          BY <3>1, <3>2, <3>3, <4>1
        <5>2. Covered(p, txDoc[p][f].tender)'
          BY <3>4, <5>1 DEF Covered, Left
        <5> QED
          BY <5>2 DEF DocDraft
      <4>2. CASE f # d
        <5>1. txDoc'[p][f] = txDoc[p][f]
          BY <3>2, <4>2
        <5>2. txDoc[p][f] # None /\ txDoc[p][f].status = "DOWNLOADED" =>
                txDoc[p][f].tender \in Tenders /\ Covered(p, txDoc[p][f].tender)
          BY <1>0, <1>a, InHand DEF DraftLife, DocDraft
        <5> QED
          BY <3>5, <5>1, <5>2 DEF DocDraft, Covered, Left
      <4> QED
        BY <4>1, <4>2
    <3>7. Others(p) /\ Locking(p)
      BY <3>1, <3>2 DEF Others, Elsewhere, Locking
    <3>8. \A t \in Tenders : TenderDraft(p, t)' /\ MetaDraft(p, t)'
      BY <1>b, <2>1, <3>1 DEF TenderDraft, MetaDraft
    <3>9. EntityLife(p)'
      BY <1>a, <2>1, <3>1 DEF EntityLife, HasEntity, LifeInv, RowsLife
    <3>10. WorkLife(p)'
      BY <1>a, <3>1 DEF WorkLife
    <3> QED
      BY <1>0, <2>1, <3>1, <3>6, <3>7, <3>8, <3>9, <3>10, SameRows, StepLife
         DEF OwnLife, DraftLife, Entered
  <2> QED
    BY <2>2, <2>3
<1>3. CASE UploadAdvance(p)
  <2> PICK t, e : t = at[p] /\ e = [ent[p] EXCEPT !.status = "DOWNLOADED"]
    OBVIOUS
  <2>1. /\ pc[p] = "upload_advance" /\ t \in Tenders /\ ent[p] \in TenderRow
        /\ Serial /\ base[p] = None /\ ent[p].status = tender[t].status /\ Finish(p)
    BY <1>0, <1>3, <1>a, InHand DEF UploadAdvance, HasEntity, EntityLife
  <2>2. \A f \in Docs : txDoc[p][f] # None /\ txDoc[p][f].status = "DOWNLOADED" =>
          /\ txDoc[p][f].tender \in Tenders
          /\ Left(txDoc[p][f].tender) \/ (txDoc[p][f].tender = t /\ ent[p].status = "REGISTERED")
    BY <1>0, <1>a, <1>b, <2>1, InHand DEF DraftLife, DocDraft, Covered
  <2>3. CASE Rollback(p)
    BY <1>0, <2>1, <2>3, EndLife, FailLife
  <2>4. CASE ent[p].status # "REGISTERED" /\ Commit(p)
    <3>1. Committable(p, txTender[p], txDoc[p])
      BY <1>0, <1>b, <2>1, <2>2, <2>4, DraftsPublishable DEF Committable, MayMove, After, Left
    <3> QED
      BY <1>0, <2>1, <2>4, <3>1, CommitLife DEF Commit
  <2>5. CASE /\ ent[p].status = "REGISTERED"
             /\ CommitDrafts(p, PutTender(p, t, e), txDoc[p], txMeta[p])
    <3> PICK m, tw : m = Merge(e, tender[t], tender[t]) /\ tw = PutTender(p, t, e)
      OBVIOUS
    <3>1. SeenTender(p, t) = tender[t] /\ Selected(p, tender[t]) = tender[t] /\ tender[t] \in TenderRow
      BY <1>b, <2>1 DEF SeenTender, Selected, TypeInv, TypeOK
    <3>2. e \in TenderRow /\ e.status = "DOWNLOADED"
      BY <2>1 DEF TenderRow, TenderStatuses
    <3>3. m # None /\ m.status = "DOWNLOADED"
      <4>1. m \in TenderRow /\ m # None
        BY <3>1, <3>2, MergeTender, NoneApart
      <4> QED
        BY <3>1, <3>2, <4>1 DEF Merge, TenderRow
    <3>4. tw = [txTender[p] EXCEPT ![t] = m]
      <4>1. tender[t] # e
        BY <2>1, <2>5, <3>2
      <4> QED
        BY <3>1, <4>1 DEF PutTender
    <3>5. \A s \in Tenders : After(tw, s) = IF s = t THEN "DOWNLOADED" ELSE tender[s].status
      <4>1. txTender[p] \in [Tenders -> TenderRow \cup {None}]
        BY <1>0 DEF TypeInv, TypeOK
      <4>2. \A s \in Tenders : tw[s] = IF s = t THEN m ELSE None
        BY <1>b, <2>1, <3>4, <4>1
      <4> QED
        BY <3>3, <4>2 DEF After
    <3>6. \A q \in Procs \ {p} : txTender[q][t] = None
      BY <1>0, <2>1, <2>5 DEF LifeInv, OwnLife, DraftLife, TenderDraft, Solo
    <3>7. Committable(p, tw, txDoc[p])
      BY <1>0, <1>b, <2>1, <2>2, <2>5, <3>5, <3>6, DraftsPublishable DEF Committable, MayMove, Left
    <3> QED
      BY <1>0, <2>1, <2>5, <3>7, CommitLife
  <2> QED
    BY <1>3, <2>3, <2>4, <2>5 DEF UploadAdvance
<1> QED
  BY <1>1, <1>2, <1>3

LEMMA RetriggerLife ==
  ASSUME TypeInv, FilesInv, LifeInv, NEW p \in Requests, NEW d \in Docs,
         RetriggerRead(p, d) \/ RetriggerWrite(p, d)
  PROVE  LifeNext
<1>0. p \in Procs /\ p # Downloader /\ p # Workflow
  BY PipelineAssumption DEF Procs
<1>a. OwnLife(p) /\ DraftLife(p) /\ EntityLife(p) /\ WorkLife(p)
  BY <1>0 DEF LifeInv, OwnLife
<1>1. CASE RetriggerRead(p, d)
  <2> PICK e : e = [doc[d] EXCEPT !.status = "PENDING"]
    OBVIOUS
  <2>1. /\ pc[p] = "idle" /\ Quiet /\ UNCHANGED <<tender, doc, meta>> /\ UNCHANGED tx /\ Elsewhere(p)
        /\ pc'[p] = "retrigger" /\ UNCHANGED todo /\ held'[p] = [NoDocs EXCEPT ![d] = e]
    BY <1>0, <1>1 DEF RetriggerRead, Goto, Keep, Elsewhere, Starts, Begins, db, TypeInv, TypeOK
  <2>2. e.status = "PENDING"
    BY DEF TypeInv, TypeOK, DocRow
  <2>3. \A f \in Docs : held'[p][f] # None => held'[p][f].status # "DOWNLOADED"
    BY <2>1, <2>2 DEF NoDocs
  <2>4. EntityLife(p)'
    BY <2>1 DEF EntityLife, HasEntity
  <2> QED
    BY <1>a, <2>1, <2>3, <2>4, BeginLife DEF WorkLife
<1>2. CASE RetriggerWrite(p, d)
  <2>1. pc[p] = "retrigger" /\ Holds(p, d)
    BY <1>2 DEF RetriggerWrite
  <2>2. CASE Fail(p)
    BY <1>0, <2>1, <2>2, EndLife, FailLife DEF Fail
  <2>3. CASE ~Fail(p)
    <3> PICK e, dw : e = held[p][d] /\ dw = PutDoc(p, d, e)
      OBVIOUS
    <3>1. Exists(doc[d]) /\ CommitDrafts(p, txTender[p], dw, txMeta[p]) /\ Finish(p)
      BY <1>2, <2>3 DEF RetriggerWrite
    <3>2. /\ e \in DocRow /\ e.tender \in Tenders /\ e # None /\ Owner(d, e.tender) /\ RowKept(d, e)
          /\ e.status # "ABSENT" /\ (e.status = "DOWNLOADED" => Left(e.tender))
      BY <1>0, <1>a, <2>1, HeldFields, OldRows, NoneApart DEF Holds, WorkLife, RowKept
    <3>3. \A f \in Docs : Publishable(f, dw[f])
      BY <1>0, <3>1, <3>2, PutFollows DEF Publishable, RowKept
    <3>4. \A u \in Tenders : txTender[p][u] = None /\ txMeta[p][u] = None
      BY <1>0, <1>a, <2>1 DEF DraftLife, TenderDraft, MetaDraft, RetirePlaces
    <3>5. \A f \in Docs : dw[f] # None /\ dw[f].status = "DOWNLOADED" =>
            dw[f].tender \in Tenders /\ Left(dw[f].tender)
      <4>1. \A f \in Docs : dw[f] # None /\ dw[f].status = "DOWNLOADED" =>
              dw[f].tender \in Tenders /\ (Covered(p, dw[f].tender) \/ Left(dw[f].tender))
        BY <1>0, <3>1, <3>2, PutCovered
      <4> QED
        BY <2>1, <3>4, <4>1 DEF Covered
    <3>6. Committable(p, txTender[p], dw)
      BY <3>3, <3>4, <3>5 DEF Committable, MayMove, After, Left
    <3> QED
      BY <1>0, <2>1, <3>1, <3>6, CommitLife
  <2> QED
    BY <2>2, <2>3
<1> QED
  BY <1>1, <1>2
LEMMA RetireLife ==
  ASSUME TypeInv, MetadataInv, FilesInv, LifeInv, NEW p \in Requests,
         \/ \E W, S \in SUBSET Tenders : RetirePlan(p, W, S)
         \/ \E t \in Tenders : RetireList(p, t)
         \/ \E d \in Docs : RetireUnlink(p, d) \/ RetireUnlinkFails(p, d) \/ RetireMark(p, d)
         \/ RetireRead(p) \/ RetireArchive(p) \/ RetireCommit(p)
  PROVE  LifeNext
<1>0. p \in Procs /\ p # Downloader /\ p # Workflow
  BY PipelineAssumption DEF Procs
<1>a. OwnLife(p) /\ DraftLife(p) /\ EntityLife(p) /\ WorkLife(p)
  BY <1>0 DEF LifeInv, OwnLife
<1>b. pc[p] \in RetirePlaces => \A t \in Tenders : txMeta[p][t] = None
  BY <1>a DEF DraftLife, MetaDraft, RetirePlaces
\* What MoveLife asks of a step from one place of a run to another.
<1>c. ASSUME pc[p] \in RetirePlaces, pc'[p] \in RetirePlaces,
             UNCHANGED <<tender, doc, meta>>, UNCHANGED tx, Elsewhere(p),
             EntityLife(p)', WorkLife(p)'
      PROVE  LifeNext
  BY <1>0, <1>c, MoveLife DEF RetirePlaces, Entered
<1>d. Retiring(p) => /\ at[p] \in Tenders /\ tender[at[p]].status \in Parsed /\ Left(at[p])
                     /\ Exists(tender[at[p]]) => tender[at[p]].status \in {"PARSED", "ARCHIVED"}
  <2>1. Retiring(p) => at[p] \in todo[p] /\ at[p] \in Tenders
    BY <1>0, InHand DEF MetadataInv, Sound, RunSound
  <2> QED
    BY <1>a, <2>1 DEF WorkLife, Parsed, Left, Exists, NoRow
<1>1. ASSUME NEW W \in SUBSET Tenders, NEW S \in SUBSET Tenders, RetirePlan(p, W, S) PROVE LifeNext
  <2>1. /\ pc[p] = "idle" /\ Quiet /\ UNCHANGED <<tender, doc, meta>> /\ UNCHANGED tx /\ Elsewhere(p)
        /\ pc'[p] = "retire_next" /\ todo'[p] = S /\ S \subseteq Retirable(W)
    <3>1. /\ pc[p] = "idle" /\ Quiet /\ UNCHANGED <<tender, doc, meta, at, ent, held>> /\ UNCHANGED tx
          /\ pc' = [pc EXCEPT ![p] = "retire_next"] /\ base' = [base EXCEPT ![p] = None]
          /\ todo' = [todo EXCEPT ![p] = S] /\ S \subseteq Retirable(W)
      BY <1>1 DEF RetirePlan, Goto, Starts, Begins, db
    <3> QED
      BY <1>0, <3>1 DEF Elsewhere, TypeInv, TypeOK
  <2>2. \A t \in todo'[p] : tender[t].status \in Parsed
    BY <2>1 DEF Retirable, PURGEABLE_STATUSES, Parsed, LifeInv, RowsLife, Unwritten
  <2>3. EntityLife(p)'
    BY <2>1 DEF EntityLife, HasEntity
  <2> QED
    BY <2>1, <2>2, <2>3, BeginLife
<1>2. ASSUME NEW t \in Tenders, RetireList(p, t) PROVE LifeNext
  <2>1. /\ UNCHANGED <<tender, doc, meta>> /\ UNCHANGED tx /\ Elsewhere(p)
        /\ pc[p] = "retire_next" /\ pc'[p] = "retire_purge" /\ at'[p] = t /\ t \in todo[p] /\ UNCHANGED todo
        /\ \A d \in Docs : held'[p][d] # None => held'[p][d] = SeenDoc(p, d) /\ doc[d].tender = t
    BY <1>0, <1>2 DEF RetireList, Goto, Elsewhere, db, TypeInv, TypeOK
  <2>2. ASSUME NEW d \in Docs, held'[p][d] # None PROVE held'[p][d].tender = t
    <3>1. doc[d].status # "ABSENT"
      <4>1. doc[d].tender \in Tenders
        BY <2>1, <2>2
      <4>2. doc[d] # None /\ RowKept(d, doc[d])
        BY NoneApart DEF FilesInv, FilesKept, TypeInv, TypeOK
      <4> QED
        BY <4>1, <4>2, NoneApart DEF RowKept
    <3>2. SeenDoc(p, d).tender \in Tenders /\ Owner(d, SeenDoc(p, d).tender) /\ Owner(d, t)
      BY <1>0, <2>1, <2>2, <3>1, OldRows DEF SeenDoc
    <3> QED
      BY <2>1, <2>2, <3>2 DEF FilesInv, OneOwner
  <2>3. Left(t)
    BY <1>a, <2>1 DEF WorkLife, Left, Parsed
  <2>4. WorkLife(p)'
    BY <1>a, <2>1, <2>2, <2>3 DEF WorkLife, Holds, Left
  <2>5. EntityLife(p)'
    BY <2>1 DEF EntityLife, HasEntity
  <2> QED
    BY <1>c, <2>1, <2>4, <2>5 DEF RetirePlaces
<1>3. ASSUME NEW d \in Docs, RetireUnlink(p, d) \/ RetireUnlinkFails(p, d) PROVE LifeNext
  <2>1. /\ UNCHANGED <<tender, doc, meta>> /\ UNCHANGED tx /\ Elsewhere(p)
        /\ pc[p] = "retire_purge" /\ pc'[p] \in {"retire_purge", "retire_mark"}
        /\ UNCHANGED <<at, todo>> /\ \A f \in Docs : held'[p][f] \in {None, held[p][f]}
    BY <1>0, <1>3 DEF RetireUnlink, RetireUnlinkFails, Goto, Drop, Elsewhere, db, TypeInv, TypeOK
  <2>2. WorkLife(p)'
    BY <1>a, <2>1 DEF WorkLife, Holds, Left
  <2>3. EntityLife(p)'
    BY <2>1 DEF EntityLife, HasEntity
  <2> QED
    BY <1>c, <2>1, <2>2, <2>3 DEF RetirePlaces
<1>4. ASSUME NEW d \in Docs, RetireMark(p, d) PROVE LifeNext
  <2>1. pc[p] = "retire_mark" /\ First(p, d) /\ Holds(p, d)
    BY <1>4 DEF RetireMark, First
  <2>2. CASE Fail(p)
    BY <1>0, <2>1, <2>2, EndLife, FailLife DEF Fail
  <2>3. CASE ~Fail(p)
    <3> PICK e : e = [held[p][d] EXCEPT !.file = None, !.purged = TRUE]
      OBVIOUS
    <3>1. /\ held[p][d] \in DocRow /\ held[p][d].tender \in Tenders /\ held[p][d] # None
          /\ Owner(d, held[p][d].tender) /\ RowKept(d, held[p][d])
      BY <1>0, <2>1, HeldFields, OldRows DEF Holds
    <3>2. e \in DocRow /\ e.tender = held[p][d].tender /\ e.status = held[p][d].status
      BY <3>1, DocFields DEF DocRow
    <3>3. /\ Exists(doc[d]) /\ UpdateDoc(p, d, e) /\ UNCHANGED <<tender, doc, meta, txTender, txMeta>>
          /\ UNCHANGED <<at, todo>> /\ Elsewhere(p) /\ pc'[p] = "retire_purge"
          /\ \A f \in Docs : held'[p][f] \in {None, held[p][f]}
      <4>1. /\ Exists(doc[d]) /\ UpdateDoc(p, d, e) /\ UNCHANGED <<tender, doc, meta, txTender, txMeta>>
            /\ UNCHANGED <<at, ent, todo>>
            /\ pc' = [pc EXCEPT ![p] = "retire_purge"] /\ base' = [base EXCEPT ![p] = None] /\ Drop(p, d)
        BY <1>4, <2>3 DEF RetireMark, Goto, db
      <4> QED
        BY <1>0, <4>1 DEF Elsewhere, Drop, TypeInv, TypeOK
    <3>4. e.status # "ABSENT"
      BY <3>1, <3>2, NoneApart DEF RowKept
    <3>5. e.status = "DOWNLOADED" => Covered(p, e.tender)'
      BY <1>a, <2>1, <3>1, <3>2, <3>3 DEF WorkLife, Covered, Left
    <3>6. WorkLife(p)'
      BY <1>a, <2>1, <3>3 DEF WorkLife, Holds, Left
    <3>7. EntityLife(p)'
      BY <3>3 DEF EntityLife, HasEntity
    <3>8. \A t \in Tenders : MetaDraft(p, t)' /\ (txMeta'[p][t] # None => txMeta[p][t] # None \/ FreeMeta(p, t))
      BY <1>b, <2>1, <3>3 DEF MetaDraft, RetirePlaces
    <3> QED
      BY <1>0, <2>1, <3>1, <3>2, <3>3, <3>4, <3>5, <3>6, <3>7, <3>8, UpdateLife DEF RetirePlaces
  <2> QED
    BY <2>2, <2>3
<1>5. CASE RetireRead(p)
  <2>1. /\ UNCHANGED <<tender, doc, meta>> /\ UNCHANGED tx /\ Elsewhere(p)
        /\ pc[p] = "retire_purge" /\ UNCHANGED <<at, held>> /\ todo'[p] \subseteq todo[p]
        /\ \/ pc'[p] = "retire_archive" /\ ent'[p] = SeenTender(p, at[p])
           \/ pc'[p] = "retire_next"
    BY <1>0, <1>5 DEF RetireRead, Goto, Elsewhere, db, TypeInv, TypeOK
  <2>2. SeenTender(p, at[p]).status \notin Unwritten
    BY <1>0, <1>a, <1>d, <2>1
       DEF Retiring, SeenTender, DraftLife, TenderDraft, Unwritten, LifeInv, RowsLife
  <2>3. EntityLife(p)'
    BY <2>1, <2>2 DEF EntityLife, HasEntity
  <2>4. WorkLife(p)'
    BY <1>a, <2>1 DEF WorkLife
  <2> QED
    BY <1>c, <2>1, <2>3, <2>4 DEF RetirePlaces
<1>6. CASE RetireArchive(p)
  <2>1. pc[p] = "retire_archive" /\ at[p] \in Tenders /\ ent[p] \in TenderRow
    BY <1>0, <1>6, InHand DEF RetireArchive, HasEntity
  <2>2. CASE Fail(p)
    BY <1>0, <2>1, <2>2, EndLife, FailLife DEF Fail
  <2>3. CASE ~Fail(p)
    <3> PICK t, e, row, m : /\ t = at[p] /\ e = [ent[p] EXCEPT !.status = "ARCHIVED"]
                            /\ row = SeenTender(p, t) /\ m = Merge(e, Selected(p, row), row)
      OBVIOUS
    <3>1. /\ Exists(tender[t]) /\ UNCHANGED <<tender, doc, meta, txDoc, txMeta, at, held>>
          /\ CanPutTender(p, t, e) /\ txTender' = [txTender EXCEPT ![p] = PutTender(p, t, e)]
          /\ Elsewhere(p) /\ pc'[p] = "retire_next" /\ todo'[p] \subseteq todo[p]
      <4>1. /\ Exists(tender[t]) /\ UNCHANGED <<tender, doc, meta, txDoc, txMeta, at, ent, held>>
            /\ UpdateTender(p, t, e)
            /\ pc' = [pc EXCEPT ![p] = "retire_next"] /\ base' = [base EXCEPT ![p] = None]
            /\ todo' = [todo EXCEPT ![p] = @ \ {at[p]}]
        BY <1>6, <2>3 DEF RetireArchive, Goto, db
      <4> QED
        BY <1>0, <4>1 DEF UpdateTender, Elsewhere, TypeInv, TypeOK
    <3>2. t \in Tenders /\ tender[t].status \in {"PARSED", "ARCHIVED"}
      BY <1>d, <2>1, <3>1 DEF Retiring
    <3>3. row \in TenderRow /\ row.status \in {tender[t].status, "ARCHIVED"}
      <4>1. row \in TenderRow
        BY <1>0, <3>2, SeenTypes DEF TypeInv
      <4> QED
        BY <1>0, <1>a, <3>2, <4>1 DEF SeenTender, DraftLife, TenderDraft
    <3>4. e \in TenderRow /\ e.status = "ARCHIVED"
      BY <2>1 DEF TenderRow, TenderStatuses
    <3>5. m # None /\ m.status \in {tender[t].status, "ARCHIVED"}
      <4>1. m \in TenderRow /\ m.status \in {e.status, row.status}
        BY <3>3, <3>4, MergeTender
      <4> QED
        BY <3>3, <3>4, <4>1, NoneApart
    <3>6. /\ \A q \in Procs \ {p} : txTender'[q] = txTender[q]
          /\ \A s \in Tenders : txTender'[p][s] = txTender[p][s] \/ (s = t /\ FreeTender(p, t) /\ txTender'[p][s] = m)
      <4>1. \/ PutTender(p, t, e) = txTender[p]
            \/ FreeTender(p, t) /\ PutTender(p, t, e) = [txTender[p] EXCEPT ![t] = m]
        BY <3>1 DEF CanPutTender, PutTender
      <4> QED
        BY <1>0, <3>1, <3>2, <4>1 DEF TypeInv, TypeOK
    <3>7. Others(p) /\ Locking(p)
      BY <3>1, <3>6 DEF Others, Elsewhere, Locking
    <3>8. \A s \in Tenders : TenderDraft(p, s)' /\ MetaDraft(p, s)'
      <4>1. \A s \in Tenders : MetaDraft(p, s)'
        BY <1>b, <2>1, <3>1 DEF MetaDraft, RetirePlaces
      <4>2. \A s \in Tenders : TenderDraft(p, s)'
        BY <1>0, <1>a, <2>1, <3>1, <3>2, <3>5, <3>6 DEF DraftLife, TenderDraft, RetirePlaces
      <4> QED
        BY <4>1, <4>2
    <3>9. \A f \in Docs : DocDraft(p, f)'
      <4>1. \A s \in Tenders : Covered(p, s) => Left(s)'
        BY <1>0, <1>a, <2>1, <3>1 DEF DraftLife, TenderDraft, Covered, Left
      <4> QED
        BY <1>0, <1>a, <3>1, <4>1, InHand DEF DraftLife, DocDraft, Covered, Left
    <3>10. EntityLife(p)' /\ WorkLife(p)'
      BY <1>a, <3>1 DEF EntityLife, WorkLife, HasEntity
    <3> QED
      BY <1>0, <2>1, <3>1, <3>7, <3>8, <3>9, <3>10, SameRows, StepLife DEF OwnLife, DraftLife, Entered
  <2> QED
    BY <2>2, <2>3
<1>7. CASE RetireCommit(p)
  BY <1>0, <1>7, OwnCommittable, CommitLife DEF RetireCommit, Commit
<1> QED
  BY <1>1, <1>2, <1>3, <1>4, <1>5, <1>6, <1>7

LEMMA RequestLife ==
  ASSUME Unmixed, TypeInv, MetadataInv, FilesInv, LifeInv, NEW p \in Requests, RequestStep(p)
  PROVE  LifeNext
<1>0. p \in Procs
  BY DEF Procs
<1>1. ASSUME NEW t \in Tenders, NEW d \in Docs, Extract(p, t, d) PROVE LifeNext
  BY <1>0, <1>1, ReadDocumentLife DEF Extract, Starts, Begins, Entered
<1> QED
  BY <1>1, PatchLife, UploadLife, RetriggerLife, RetireLife DEF RequestStep

LEMMA InitLife == Init => LifeInv
<1> SUFFICES ASSUME Init PROVE LifeInv
  OBVIOUS
<1>1. /\ Solo /\ RowsLife /\ DocsLife /\ Locks
  BY DEF Init, Solo, RowsLife, DocsLife, Locks, Left, Unwritten, Unparsed, NoTenders
<1>2. ASSUME NEW p \in Procs PROVE OwnLife(p)
  BY DEF Init, OwnLife, DraftLife, TenderDraft, MetaDraft, DocDraft, EntityLife, WorkLife, HasEntity,
         NoTenders, NoDocs
<1> QED
  BY <1>1, <1>2 DEF LifeInv
LEMMA OtherLife ==
  ASSUME Unmixed, TypeInv, MetadataInv, FilesInv, LifeInv, Next, ~DirectStep
  PROVE  LifeNext
<1>1. ASSUME NEW p \in Requests, RequestStep(p) PROVE LifeNext
  BY <1>1, RequestLife
<1>2. ASSUME NEW p \in Requests \cup {Workflow}, ExtractStep(p) PROVE LifeNext
  BY <1>2, ExtractLife
<1>3. ASSUME NEW p \in Procs, WaitTender(p) \/ (\E d \in Docs : WaitDoc(p, d)) \/ Crash(p) PROVE LifeNext
  BY <1>3, WaitLife
<1> QED
  BY <1>1, <1>2, <1>3, WorkflowLife, DownloadLife DEF Next

LEMMA NextLife ==
  ASSUME Unmixed, TypeInv, MetadataInv, FilesInv, LifeInv, [Next]_vars
  PROVE  LifeInv'
<1>1. CASE UNCHANGED vars
  BY <1>1
     DEF vars, LifeInv, Solo, RowsLife, DocsLife, Locks, OwnLife, DraftLife, TenderDraft, MetaDraft,
         DocDraft, EntityLife, WorkLife, Covered, Left, HasEntity, Holds
<1> QED
  BY <1>1, DirectLife, OtherLife DEF LifeNext

LEMMA LifeHolds == ASSUME Unmixed PROVE Spec => []LifeInv
<1>1. TypeInv /\ MetadataInv /\ FilesInv /\ LifeInv /\ [Next]_vars => LifeInv'
  BY NextLife
<1> QED
  BY <1>1, InitLife, AllHold, PTL DEF Spec

\* A document is DOWNLOADED only under a tender that has left REGISTERED: its
\* row and the tender's advance are committed together, whoever wrote either
\* and whatever failed in between.
THEOREM DownloadedMeansAdvanced ==
  ASSUME Serial \/ Ops \cap {"patch", "upload"} = {}
  PROVE  Spec => []DownloadedTenderAdvanced
<1>1. Unmixed
  BY DEF Unmixed
<1>2. LifeInv => DownloadedTenderAdvanced
  BY DEF LifeInv, DocsLife, Left, DownloadedTenderAdvanced
<1> QED
  BY <1>1, <1>2, LifeHolds, PTL

-----------------------------------------------------------------------------
(* The refinement, one step at a time. *)

\* Apart from a download, an upload and an unlink no step touches a file.

LEMMA FileSteps ==
  ASSUME Next
  PROVE  \/ UNCHANGED disk
         \/ /\ UNCHANGED <<tender, doc, meta>>
            /\ \/ \E d \in Docs, c \in Contents : disk' = [disk EXCEPT ![d] = c]
               \/ \E p \in Requests, d \in Docs : RetireUnlink(p, d)
<1>1. CASE DirectStep
  BY <1>1 DEF DirectStep, CreateTender, AddFromUrl, DeleteTender, Screen
<1>2. ASSUME NEW p \in Requests, RequestStep(p), \A d \in Docs : ~RetireUnlink(p, d)
      PROVE  \/ UNCHANGED disk
             \/ /\ UNCHANGED <<tender, doc, meta>>
                /\ \E d \in Docs, c \in Contents : disk' = [disk EXCEPT ![d] = c]
  BY <1>2 DEF RequestStep, PatchRead, PatchWrite, UploadStore, UploadAdd, UploadAdvance, RetriggerRead,
              RetriggerWrite, Extract, ReadDocument, RetirePlan, RetireList, RetireUnlinkFails, RetireMark,
              RetireRead, RetireArchive, RetireCommit, Fail, db
<1>3. ASSUME NEW p \in Requests, NEW d \in Docs, RetireUnlink(p, d)
      PROVE  UNCHANGED <<tender, doc, meta>>
  BY <1>3 DEF RetireUnlink, db
<1>4. ASSUME NEW p \in Requests \cup {Workflow}, ExtractStep(p) PROVE UNCHANGED disk
  BY <1>4 DEF ExtractStep, ExtractStore, ExtractAdvance, Fail
<1>5. CASE WorkflowStep
  BY <1>5 DEF WorkflowStep, WorkflowFetch, WorkflowExtract, ReadDocument, WorkflowSkip, WorkflowDone
<1>6. CASE DownloadStep
  BY <1>6 DEF DownloadStep, DownloadFetch, DownloadStart, DownloadSave, DownloadFail, DownloadAdvance,
              DownloadCommit, Fail, db
<1>7. ASSUME NEW p \in Procs, WaitTender(p) \/ (\E d \in Docs : WaitDoc(p, d)) \/ Crash(p)
      PROVE  UNCHANGED disk
  BY <1>7 DEF WaitTender, WaitDoc, Crash
<1> QED
  BY <1>1, <1>2, <1>3, <1>4, <1>5, <1>6, <1>7 DEF Next
LEMMA RefineInit == Init => Lifecycle!Init
<1> SUFFICES ASSUME Init PROVE Lifecycle!Init
  OBVIOUS
<1>1. /\ [t \in Tenders |-> tender[t].status] = [t \in Tenders |-> "ABSENT"]
      /\ {t \in Tenders : meta[t] # None} = {}
      /\ [d \in Docs |-> doc[d].tender] = [d \in Docs |-> None]
      /\ {d \in Docs : disk[d] # None} = {}
  BY DEF Init
<1> QED
  BY <1>1 DEF Lifecycle!Init

\* A step that moves tenders legally, drops nothing and leaves the files.
LEMMA RefinePublish ==
  ASSUME TypeInv, TypeInv', ParsedHasMetadata', Keeps, UNCHANGED disk,
         \A t \in Tenders : Lifecycle!LegalMove(tender[t].status, tender'[t].status)
  PROVE  Lifecycle!Publish
<1> DEFINE status == [t \in Tenders |-> tender[t].status]
           extracted == {t \in Tenders : meta[t] # None}
           owner == [d \in Docs |-> doc[d].tender]
<1>1. \A t \in Tenders : tender'[t].status \in TenderStatuses \cup NoRow
  BY DEF TypeInv, TypeOK, TenderRow
<1>2. \A d \in Docs : doc'[d].tender \in Tenders \cup {None}
  BY DEF TypeInv, TypeOK, DocRow
<1>3. /\ status' \in [Tenders -> TenderStatuses \cup NoRow]
      /\ extracted' \in SUBSET Tenders
      /\ owner' \in [Docs -> Tenders \cup {None}]
  BY <1>1, <1>2
<1>4. \A t \in Tenders : Lifecycle!LegalMove(status[t], status'[t])
  OBVIOUS
<1>5. extracted \subseteq extracted' /\ \A t \in Tenders : status'[t] \in Extracted => t \in extracted'
  BY DEF Keeps, ParsedHasMetadata
<1>6. \A d \in Docs : owner[d] # None => owner'[d] = owner[d]
  BY DEF Keeps, TypeInv, TypeOK, DocRow
<1> QED
  BY <1>3, <1>4, <1>5, <1>6
     DEF Lifecycle!Publish, Lifecycle!TenderStatuses, TenderStatuses, Lifecycle!NoRow, NoRow,
         Lifecycle!Extracted, Extracted
LEMMA RefineDirect ==
  ASSUME TypeInv, TypeInv', ParsedHasMetadata', FilesInv, DirectStep
  PROVE  Lifecycle!Next \/ UNCHANGED Lifecycle!lifecycle
<1>1. ASSUME NEW t \in Tenders, NEW c \in Closings, CreateTender(t, c) PROVE Lifecycle!Publish
  <2>1. /\ UNCHANGED <<doc, meta, disk>> /\ tender[t].status = "ABSENT"
        /\ tender'[t].status = "REGISTERED" /\ \A s \in Tenders \ {t} : tender'[s] = tender[s]
    BY <1>1 DEF CreateTender, TypeInv, TypeOK
  <2> QED
    BY <2>1, RefinePublish DEF Keeps, Lifecycle!LegalMove
<1>2. ASSUME NEW t \in Tenders, NEW d \in Docs, AddFromUrl(t, d) PROVE Lifecycle!Publish
  <2>1. /\ UNCHANGED <<tender, meta, disk>> /\ doc[d].status = "ABSENT"
        /\ \A f \in Docs \ {d} : doc'[f] = doc[f]
    BY <1>2 DEF AddFromUrl, FreshDoc, TypeInv, TypeOK
  <2>2. doc[d].tender = None
    BY <2>1, NoneApart DEF FilesInv, FilesKept, RowKept, TypeInv, TypeOK
  <2> QED
    BY <2>1, <2>2, NoneApart, RefinePublish DEF Keeps, Lifecycle!LegalMove
<1>3. ASSUME NEW t \in Tenders, DeleteTender(t) PROVE Lifecycle!Remove(t)
  <2>1. /\ Exists(tender[t]) /\ UNCHANGED disk
        /\ tender' = [tender EXCEPT ![t].status = "DELETED"]
        /\ meta' = [meta EXCEPT ![t] = None]
        /\ doc' = [d \in Docs |-> IF doc[d].tender = t
                                  THEN [doc[d] EXCEPT !.status = "DELETED"] ELSE doc[d]]
    BY <1>3 DEF DeleteTender
  <2>2. tender[t].status \in TenderStatuses
    BY <2>1 DEF Exists, TypeInv, TypeOK, TenderRow
  <2>3. [tender[t] EXCEPT !.status = "DELETED"].status = "DELETED"
    BY DEF TypeInv, TypeOK, TenderRow
  <2>4. \A s \in Tenders : tender'[s].status = IF s = t THEN "DELETED" ELSE tender[s].status
    BY <2>1, <2>3 DEF TypeInv, TypeOK
  <2>5. {s \in Tenders : meta'[s] # None} = {s \in Tenders : meta[s] # None} \ {t}
    BY <2>1 DEF TypeInv, TypeOK
  <2>6. \A d \in Docs : doc'[d].tender = doc[d].tender
    BY <2>1 DEF TypeInv, TypeOK, DocRow
  <2> QED
    BY <2>1, <2>2, <2>4, <2>5, <2>6 DEF Lifecycle!Remove, Lifecycle!TenderStatuses, TenderStatuses
<1>4. ASSUME NEW t \in Tenders, Screen(t) PROVE UNCHANGED Lifecycle!lifecycle
  BY <1>4 DEF Screen, Lifecycle!lifecycle
<1> QED
  BY <1>1, <1>2, <1>3, <1>4 DEF DirectStep, Lifecycle!Next

\* A file comes, or goes when its tender was extracted or deleted.
LEMMA RefineFiles ==
  ASSUME TypeInv, MetadataInv, LifeInv, UNCHANGED <<tender, doc, meta>>,
         \/ \E d \in Docs, c \in Contents : disk' = [disk EXCEPT ![d] = c]
         \/ \E p \in Requests, d \in Docs : RetireUnlink(p, d)
  PROVE  Lifecycle!Next \/ UNCHANGED Lifecycle!lifecycle
<1>1. ASSUME NEW d \in Docs, NEW c \in Contents, disk' = [disk EXCEPT ![d] = c] PROVE Lifecycle!Save(d)
  <2>1. {f \in Docs : disk'[f] # None} = {f \in Docs : disk[f] # None} \cup {d}
    BY <1>1, NoneApart DEF TypeInv, TypeOK
  <2> QED
    BY <2>1 DEF Lifecycle!Save
<1>2. ASSUME NEW p \in Requests, NEW d \in Docs, RetireUnlink(p, d)
      PROVE  Lifecycle!Reclaim(d) \/ UNCHANGED Lifecycle!lifecycle
  <2>0. p \in Procs
    BY DEF Procs
  <2>1. pc[p] = "retire_purge" /\ Holds(p, d) /\ disk' = [disk EXCEPT ![d] = None]
    BY <1>2 DEF RetireUnlink, First
  <2>2. {f \in Docs : disk'[f] # None} = {f \in Docs : disk[f] # None} \ {d}
    BY <2>1 DEF TypeInv, TypeOK
  <2>3. at[p] \in Tenders /\ doc[d].tender = at[p]
    BY <2>0, <2>1, InHand DEF LifeInv, OwnLife, WorkLife
  <2>4. meta[at[p]] # None \/ tender[at[p]].status = "DELETED"
    BY <2>0, <2>1 DEF MetadataInv, Sound, RunSound, Retiring
  <2>5. CASE disk[d] = None
    <3>1. {f \in Docs : disk'[f] # None} = {f \in Docs : disk[f] # None}
      BY <2>2, <2>5
    <3> QED
      BY <3>1 DEF Lifecycle!lifecycle
  <2>6. CASE disk[d] # None
    BY <2>2, <2>3, <2>4, <2>6, NoneApart DEF Lifecycle!Reclaim
  <2> QED
    BY <2>5, <2>6
<1> QED
  BY <1>1, <1>2 DEF Lifecycle!Next

LEMMA RefineNext ==
  ASSUME Unmixed, TypeInv, TypeInv', MetadataInv, MetadataInv', FilesInv, LifeInv, [Next]_vars
  PROVE  [Lifecycle!Next]_(Lifecycle!lifecycle)
<1>0. ParsedHasMetadata'
  BY DEF MetadataInv
<1>1. CASE UNCHANGED vars
  BY <1>1 DEF vars, Lifecycle!lifecycle
<1>2. CASE DirectStep
  BY <1>0, <1>2, RefineDirect
<1>3. CASE Next /\ ~DirectStep
  <2>1. LifeNext
    BY <1>3, OtherLife
  <2>2. CASE UNCHANGED disk
    BY <1>0, <2>1, <2>2, RefinePublish DEF LifeNext, Lifecycle!Next
  <2>3. CASE ~UNCHANGED disk
    BY <1>3, <2>3, FileSteps, RefineFiles
  <2> QED
    BY <2>2, <2>3
<1> QED
  BY <1>1, <1>2, <1>3

\* The pipeline implements TenderLifecycle: whatever interleaves, crashes or
\* fails, tenders move along the edges of _TRANSITIONS, those parsed and
\* archived have their metadata, documents keep their tender, and bytes are
\* reclaimed only where extraction or deletion came first.
THEOREM PipelineRefinesLifecycle ==
  ASSUME Serial \/ Ops \cap {"patch", "upload"} = {}
  PROVE  Spec => RefinesLifecycle
<1>1. Unmixed
  BY DEF Unmixed
<1>2. /\ TypeInv /\ TypeInv' /\ MetadataInv /\ MetadataInv' /\ FilesInv /\ LifeInv /\ [Next]_vars
      => [Lifecycle!Next]_(Lifecycle!lifecycle)
  BY <1>1, RefineNext
<1>3. Spec => []LifeInv
  BY <1>1, LifeHolds
<1> QED
  BY <1>2, <1>3, RefineInit, AllHold, PTL DEF Spec, Lifecycle!Spec, RefinesLifecycle
-----------------------------------------------------------------------------
(* One at a time.  When nothing starts while anything is in flight, rows,  *)
(* files and extracted text stay in agreement: an update writes the entity *)
(* as it is, for the row is still what it was read as.                     *)

\* The file of d is the one row describes; row keeps the text the row of d has.
Fits(d, row) == row # None =>
  /\ row.status = "DOWNLOADED" /\ row.file # None /\ disk[d] # None => disk[d] = row.file
  /\ doc[d].text # None => row.text # None

AtRest(p) == pc[p] \in {"idle", "queue"} => \A d \in Docs : held[p][d] = None /\ txDoc[p][d] = None

SerialInv ==
  /\ \A p \in Procs : AtRest(p) /\ base[p] = None
  /\ \A d \in Docs : Fits(d, doc[d]) /\ (doc[d].status = "ABSENT" => doc[d].text = None)
  /\ \A p \in Procs, d \in Docs : Fits(d, held[p][d]) /\ Fits(d, txDoc[p][d])
  /\ \A d \in Docs : held[Downloader][d] # None => doc[d].status # "DOWNLOADED"

\* What a step shows besides the invariant: no text is lost.
KeepsText == \A d \in Docs : doc[d].text # None => doc'[d].text # None

SerialNext == SerialInv' /\ KeepsText

\* No process but p has anything in hand.
LEMMA OthersAtRest ==
  ASSUME Serial, LifeInv, SerialInv, NEW p \in Procs, Entered(p)
  PROVE  \A q \in Procs \ {p} : /\ pc[q] = "idle" /\ base[q] = None
                                /\ \A d \in Docs : held[q][d] = None /\ txDoc[q][d] = None
  BY DEF LifeInv, Solo, Entered, Quiet, SerialInv, AtRest

LEMMA StepSerial ==
  ASSUME Serial, LifeInv, SerialInv, NEW p \in Procs, Entered(p),
         \A q \in Procs \ {p} : held'[q] = held[q] /\ txDoc'[q] = txDoc[q] /\ base'[q] = base[q],
         AtRest(p)', base'[p] = None,
         \A d \in Docs : /\ Fits(d, doc[d])' /\ (doc'[d].status = "ABSENT" => doc'[d].text = None)
                         /\ Fits(d, held[p][d])' /\ Fits(d, txDoc[p][d])'
                         /\ p = Downloader /\ held'[p][d] # None => doc'[d].status # "DOWNLOADED"
  PROVE  SerialInv'
<1>1. \A q \in Procs \ {p} : base'[q] = None /\ \A d \in Docs : held'[q][d] = None /\ txDoc'[q][d] = None
  BY OthersAtRest
<1>2. \A q \in Procs : AtRest(q)' /\ base'[q] = None
  BY <1>1 DEF AtRest
<1>3. \A q \in Procs, d \in Docs : Fits(d, held[q][d])' /\ Fits(d, txDoc[q][d])'
  BY <1>1 DEF Fits
<1>4. \A d \in Docs : held'[Downloader][d] # None => doc'[d].status # "DOWNLOADED"
  BY <1>1 DEF Procs
<1> QED
  BY <1>2, <1>3, <1>4 DEF SerialInv

\* A step that leaves the rows and the files.
LEMMA SerialMove ==
  ASSUME Serial, LifeInv, SerialInv, NEW p \in Procs, Entered(p), UNCHANGED <<doc, disk>>,
         \A q \in Procs \ {p} : held'[q] = held[q] /\ txDoc'[q] = txDoc[q] /\ base'[q] = base[q],
         pc'[p] \notin {"idle", "queue"} \/ \A d \in Docs : held'[p][d] = None /\ txDoc'[p][d] = None,
         base'[p] = None,
         \A d \in Docs : /\ Fits(d, txDoc'[p][d])
                         /\ \/ held'[p][d] \in {None, held[p][d]}
                            \/ /\ Fits(d, held'[p][d])
                               /\ p = Downloader => doc[d].status # "DOWNLOADED"
  PROVE  SerialNext
<1>1. \A d \in Docs : /\ Fits(d, held[p][d])' /\ Fits(d, txDoc[p][d])' /\ Fits(d, doc[d])'
                      /\ p = Downloader /\ held'[p][d] # None => doc'[d].status # "DOWNLOADED"
  BY DEF SerialInv, Fits
<1>2. AtRest(p)'
  BY DEF AtRest
<1>3. \A d \in Docs : doc'[d].status = "ABSENT" => doc'[d].text = None
  BY DEF SerialInv
<1> QED
  BY <1>1, <1>2, <1>3, StepSerial DEF KeepsText, SerialNext

\* An entity copied over the row it was read from.
LEMMA MergeEntity ==
  ASSUME NEW e \in DocRow, NEW row \in DocRow
  PROVE  Merge(e, row, row) = e
<1>1. Merge(e, row, row) = [k \in DOMAIN row |-> e[k]]
  BY DEF Merge
<1>2. DOMAIN row = DOMAIN e /\ e = [k \in DOMAIN e |-> e[k]]
  BY DEF DocRow
<1> QED
  BY <1>1, <1>2

\* An update that waited for nobody hands back the entity it was given.
LEMMA PutEntity ==
  ASSUME TypeInv, NEW p \in Procs, base[p] = None, NEW d \in Docs, NEW e \in DocRow
  PROVE  \A f \in Docs : PutDoc(p, d, e)[f] = txDoc[p][f] \/ (f = d /\ PutDoc(p, d, e)[f] = e)
<1> PICK row : row = SeenDoc(p, d)
  OBVIOUS
<1>1. row \in DocRow
  BY SeenTypes DEF TypeInv
<1>2. Merge(e, row, row) = e
  BY <1>1, MergeEntity
<1>3. PutDoc(p, d, e) = IF row = e THEN txDoc[p] ELSE [txDoc[p] EXCEPT ![d] = e]
  BY <1>2 DEF PutDoc, Selected
<1> QED
  BY <1>3 DEF TypeInv, TypeOK

LEMMA SerialFail ==
  ASSUME Serial, TypeInv, LifeInv, SerialInv, NEW p \in Procs, pc[p] # "idle", Rollback(p), UNCHANGED disk,
         held' = [held EXCEPT ![p] = NoDocs], base' = [base EXCEPT ![p] = None]
  PROVE  SerialNext
<1>1. /\ \A q \in Procs \ {p} : held'[q] = held[q] /\ txDoc'[q] = txDoc[q] /\ base'[q] = base[q]
      /\ \A d \in Docs : held'[p][d] = None /\ txDoc'[p][d] = None
      /\ base'[p] = None /\ UNCHANGED doc
  BY DEF Rollback, NoDocs, TypeInv, TypeOK
<1> QED
  BY <1>1, SerialMove DEF Entered, Fits

LEMMA SerialCommit ==
  ASSUME Serial, TypeInv, LifeInv, SerialInv, NEW p \in Procs, pc[p] # "idle", NEW tw, NEW dw, NEW mw,
         CommitDrafts(p, tw, dw, mw), Finish(p), UNCHANGED disk,
         \A d \in Docs : Fits(d, dw[d]) /\ (dw[d] # None => dw[d].status # "ABSENT")
  PROVE  SerialNext
<1>1. /\ \A q \in Procs \ {p} : held'[q] = held[q] /\ txDoc'[q] = txDoc[q] /\ base'[q] = base[q]
      /\ \A d \in Docs : held'[p][d] = None /\ txDoc'[p][d] = None
      /\ base'[p] = None
  BY DEF CommitDrafts, Finish, NoDocs, TypeInv, TypeOK
<1>2. \A d \in Docs : doc'[d] = IF dw[d] # None THEN dw[d] ELSE doc[d]
  BY DEF CommitDrafts
<1>3. \A d \in Docs : Fits(d, doc[d])' /\ (doc'[d].status = "ABSENT" => doc'[d].text = None)
  BY <1>2 DEF Fits, SerialInv
<1>4. KeepsText
  BY <1>2 DEF Fits, KeepsText
<1>5. AtRest(p)' /\ \A d \in Docs : Fits(d, held[p][d])' /\ Fits(d, txDoc[p][d])'
  BY <1>1 DEF AtRest, Fits
<1> QED
  BY <1>1, <1>3, <1>4, <1>5, StepSerial DEF Entered, SerialNext

LEMMA SerialUpdate ==
  ASSUME Serial, TypeInv, LifeInv, SerialInv, NEW p \in Procs, pc[p] # "idle", UNCHANGED <<doc, disk>>,
         NEW d \in Docs, NEW e \in DocRow, Fits(d, e), UpdateDoc(p, d, e),
         base' = [base EXCEPT ![p] = None], pc'[p] \notin {"idle", "queue"},
         UNCHANGED held \/ Drop(p, d)
  PROVE  SerialNext
<1>1. /\ \A q \in Procs \ {p} : held'[q] = held[q] /\ txDoc'[q] = txDoc[q] /\ base'[q] = base[q]
      /\ base'[p] = None /\ txDoc'[p] = PutDoc(p, d, e)
      /\ \A f \in Docs : held'[p][f] \in {None, held[p][f]}
  BY DEF UpdateDoc, Drop, TypeInv, TypeOK
<1>2. \A f \in Docs : Fits(f, txDoc'[p][f])
  BY <1>1, PutEntity DEF SerialInv
<1> QED
  BY <1>1, <1>2, SerialMove DEF Entered
LEMMA SerialDirect ==
  ASSUME Serial, TypeInv, LifeInv, SerialInv, DirectStep PROVE SerialNext
<1>0. UNCHANGED <<tx, local>> /\ Quiet
  BY DEF DirectStep, CreateTender, AddFromUrl, DeleteTender, Screen, Begins
<1>1. /\ \A p \in Procs : /\ pc[p] = "idle" /\ base'[p] = None
                          /\ \A d \in Docs : held'[p][d] = None /\ txDoc'[p][d] = None
      /\ UNCHANGED <<pc, held, txDoc, base>>
  BY <1>0 DEF Quiet, SerialInv, AtRest, tx, local
<1>2. UNCHANGED disk /\ \A d \in Docs :
        \/ doc'[d] = doc[d]
        \/ doc[d].status = "ABSENT" /\ doc'[d].status = "PENDING" /\ doc'[d].text = None
        \/ doc'[d].status = "DELETED" /\ doc'[d].text = doc[d].text
  <2>1. ASSUME NEW t \in Tenders, NEW c \in Closings, CreateTender(t, c) PROVE UNCHANGED <<doc, disk>>
    BY <2>1 DEF CreateTender
  <2>2. ASSUME NEW t \in Tenders, Screen(t) PROVE UNCHANGED <<doc, disk>>
    BY <2>2 DEF Screen
  <2>3. ASSUME NEW t \in Tenders, NEW d \in Docs, AddFromUrl(t, d)
        PROVE  /\ UNCHANGED disk /\ doc[d].status = "ABSENT" /\ doc'[d].status = "PENDING" /\ doc'[d].text = None
               /\ \A f \in Docs \ {d} : doc'[f] = doc[f]
    BY <2>3 DEF AddFromUrl, FreshDoc, TypeInv, TypeOK
  <2>4. ASSUME NEW t \in Tenders, DeleteTender(t)
        PROVE  UNCHANGED disk /\ \A d \in Docs :
                 doc'[d] = doc[d] \/ (doc'[d].status = "DELETED" /\ doc'[d].text = doc[d].text)
    BY <2>4 DEF DeleteTender, TypeInv, TypeOK, DocRow
  <2> QED
    BY <2>1, <2>2, <2>3, <2>4 DEF DirectStep
<1>3. \A d \in Docs : Fits(d, doc[d])' /\ (doc'[d].status = "ABSENT" => doc'[d].text = None)
  BY <1>2 DEF Fits, SerialInv
<1>4. \A p \in Procs : AtRest(p)' /\ \A d \in Docs : Fits(d, held[p][d])' /\ Fits(d, txDoc[p][d])'
  BY <1>1 DEF AtRest, Fits
<1>5. \A d \in Docs : held'[Downloader][d] = None
  BY <1>1 DEF Procs
<1>6. KeepsText
  BY <1>2 DEF KeepsText, SerialInv
<1> QED
  BY <1>1, <1>3, <1>4, <1>5, <1>6 DEF SerialNext, SerialInv

LEMMA SerialWait ==
  ASSUME Serial, TypeInv, LifeInv, SerialInv, NEW p \in Procs,
         WaitTender(p) \/ (\E d \in Docs : WaitDoc(p, d)) \/ Crash(p)
  PROVE  SerialNext
<1>1. CASE Crash(p)
  BY <1>1, SerialFail DEF Crash, Goto
<1>2. ~WaitTender(p)
  <2> SUFFICES ASSUME WaitTender(p) PROVE FALSE
    OBVIOUS
  <2>1. at[p] \in Tenders /\ Entered(p)
    BY InHand DEF WaitTender, Entered
  <2> PICK q \in Procs \ {p} : txTender[q][at[p]] # None
    BY DEF WaitTender, FreeTender
  <2>2. pc[q] # "idle"
    BY <2>1 DEF LifeInv, OwnLife, DraftLife, TenderDraft, RetirePlaces
  <2> QED
    BY <2>1, <2>2, OthersAtRest
<1>3. \A d \in Docs : ~WaitDoc(p, d)
  <2> SUFFICES ASSUME NEW d \in Docs, WaitDoc(p, d) PROVE FALSE
    OBVIOUS
  <2>1. Entered(p)
    BY DEF WaitDoc, Entered
  <2> QED
    BY <2>1, OthersAtRest DEF WaitDoc, FreeDoc
<1> QED
  BY <1>1, <1>2, <1>3

LEMMA SerialReadDocument ==
  ASSUME Serial, TypeInv, LifeInv, SerialInv, NEW p \in Procs, p # Downloader, NEW t \in Tenders,
         NEW d \in Docs, ReadDocument(p, t, d), Entered(p)
  PROVE  SerialNext
<1>1. /\ UNCHANGED <<doc, disk, txDoc>>
      /\ \A q \in Procs \ {p} : held'[q] = held[q] /\ base'[q] = base[q]
      /\ pc'[p] = "extract_store" /\ base'[p] = None
      /\ \A f \in Docs : held'[p][f] = IF f = d THEN [doc[d] EXCEPT !.text = disk[d]] ELSE None
  BY DEF ReadDocument, Goto, Keep, NoDocs, db, tx, TypeInv, TypeOK
<1>2. Fits(d, [doc[d] EXCEPT !.text = disk[d]])
  <2>1. disk[d] # None /\ Fits(d, doc[d]) /\ doc[d] \in DocRow /\ doc[d] # None
    BY NoneApart DEF ReadDocument, Readable, SerialInv, TypeInv, TypeOK
  <2> QED
    BY <2>1 DEF Fits, DocRow
<1>3. \A f \in Docs : Fits(f, txDoc'[p][f])
  BY <1>1 DEF SerialInv
<1> QED
  BY <1>1, <1>2, <1>3, SerialMove

LEMMA SerialWorkflow ==
  ASSUME Serial, TypeInv, LifeInv, SerialInv, WorkflowStep PROVE SerialNext
<1>0. Workflow \in Procs /\ Workflow # Downloader
  BY PipelineAssumption DEF Procs
<1>1. ASSUME NEW t \in Tenders, NEW d \in Docs, WorkflowExtract(t, d) PROVE SerialNext
  BY <1>0, <1>1, SerialReadDocument DEF WorkflowExtract, Entered
<1>2. CASE WorkflowFetch \/ WorkflowDone \/ \E t \in Tenders : WorkflowSkip(t)
  <2>1. /\ UNCHANGED <<doc, disk, txDoc, held>> /\ \A q \in Procs : base'[q] = None
        /\ pc[Workflow] \in {"idle", "queue"} /\ Entered(Workflow)
    BY <1>0, <1>2
       DEF WorkflowFetch, WorkflowDone, WorkflowSkip, Starts, Begins, Entered, Goto, db, tx, SerialInv,
           TypeInv, TypeOK
  <2>2. \A d \in Docs : held[Workflow][d] = None /\ txDoc[Workflow][d] = None
    BY <1>0, <2>1 DEF SerialInv, AtRest
  <2>3. \A d \in Docs : Fits(d, txDoc'[Workflow][d])
    BY <1>0, <2>1 DEF SerialInv
  <2> QED
    BY <1>0, <2>1, <2>2, <2>3, SerialMove DEF SerialInv
<1> QED
  BY <1>1, <1>2 DEF WorkflowStep
\* The drafts of p fit, whatever p is about to do with its tenders.
LEMMA SerialPublish ==
  ASSUME Serial, TypeInv, FilesInv, LifeInv, SerialInv, NEW p \in Procs, pc[p] # "idle", NEW tw, NEW mw,
         CommitDrafts(p, tw, txDoc[p], mw), Finish(p), UNCHANGED disk
  PROVE  SerialNext
<1>1. \A d \in Docs : Fits(d, txDoc[p][d]) /\ (txDoc[p][d] # None => txDoc[p][d].status # "ABSENT")
  BY DraftsPublishable DEF SerialInv, Publishable
<1> QED
  BY <1>1, SerialCommit

LEMMA SerialEnd ==
  ASSUME Serial, TypeInv, LifeInv, SerialInv, NEW p \in Procs, pc[p] # "idle", Rollback(p), Finish(p),
         UNCHANGED disk
  PROVE  SerialNext
  BY SerialFail DEF Finish

LEMMA SerialExtract ==
  ASSUME Serial, TypeInv, FilesInv, LifeInv, SerialInv, NEW p \in Requests \cup {Workflow}, ExtractStep(p)
  PROVE  SerialNext
<1>0. p \in Procs /\ p # Downloader
  BY PipelineAssumption DEF Procs
<1>1. ASSUME NEW d \in Docs, ExtractStore(p, d) PROVE SerialNext
  <2>1. CASE Fail(p)
    BY <1>0, <1>1, <2>1, SerialEnd DEF ExtractStore, Fail
  <2>2. CASE ~Fail(p)
    <3> PICK e : e = held[p][d]
      OBVIOUS
    <3>1. /\ UNCHANGED <<doc, disk>> /\ pc[p] # "idle" /\ Holds(p, d) /\ UpdateDoc(p, d, e)
          /\ pc' = [pc EXCEPT ![p] = "extract_advance"] /\ base' = [base EXCEPT ![p] = None] /\ UNCHANGED held
      BY <1>1, <2>2 DEF ExtractStore, Goto, db
    <3>2. e \in DocRow /\ Fits(d, e) /\ pc'[p] \notin {"idle", "queue"}
      BY <1>0, <3>1, HeldFields DEF SerialInv, TypeInv, TypeOK
    <3> QED
      BY <1>0, <3>1, <3>2, SerialUpdate
  <2> QED
    BY <2>1, <2>2
<1>2. CASE ExtractAdvance(p)
  <2>1. pc[p] # "idle" /\ Finish(p) /\ UNCHANGED disk
    BY <1>2 DEF ExtractAdvance
  <2>2. Rollback(p) \/ \E tw : CommitDrafts(p, tw, txDoc[p], txMeta[p])
    BY <1>2 DEF ExtractAdvance
  <2> QED
    BY <1>0, <2>1, <2>2, SerialEnd, SerialPublish
<1> QED
  BY <1>1, <1>2 DEF ExtractStep

LEMMA SerialDownload ==
  ASSUME Serial, TypeInv, FilesInv, LifeInv, SerialInv, DownloadStep PROVE SerialNext
<1> PICK p : p = Downloader /\ p \in Procs /\ p # Workflow
  BY PipelineAssumption DEF Procs
\* The entity of a document in the batch, with another status and the file c.
<1>a. ASSUME NEW d \in Docs, Holds(p, d), NEW s \in DocumentStatuses
      PROVE  LET e == [held[p][d] EXCEPT !.status = s] IN
             /\ e \in DocRow /\ e.status = s /\ e.url = held[p][d].url
             /\ s # "DOWNLOADED" => Fits(d, e)
  <2>1. held[p][d] \in DocRow /\ held[p][d] # None /\ Fits(d, held[p][d])
    BY <1>a, HeldFields DEF Holds, SerialInv
  <2> QED
    BY <2>1 DEF DocRow, Fits
<1>1. CASE DownloadFetch
  <2>1. /\ UNCHANGED <<doc, disk, txDoc>> /\ Entered(p)
        /\ \A q \in Procs \ {p} : held'[q] = held[q] /\ base'[q] = base[q]
        /\ pc'[p] = "batch" /\ base'[p] = None
        /\ \A d \in Docs : held'[p][d] # None => held'[p][d] = doc[d] /\ doc[d].status = "PENDING"
    BY <1>1 DEF DownloadFetch, PendingDocs, Goto, Starts, Begins, Entered, db, tx, TypeInv, TypeOK
  <2>2. \A d \in Docs : Fits(d, txDoc'[p][d]) /\ Fits(d, doc[d])
    BY <2>1 DEF SerialInv
  <2> QED
    BY <2>1, <2>2, SerialMove DEF Fits
<1>2. ASSUME NEW d \in Docs, DownloadStart(d) PROVE SerialNext
  <2>0. pc[p] = "batch" /\ Holds(p, d)
    BY <1>2 DEF DownloadStart, First
  <2>1. CASE Fail(p)
    BY <2>0, <2>1, SerialEnd DEF Fail
  <2>2. CASE ~Fail(p)
    <3> PICK s, e : /\ s = IF held[p][d].url THEN "DOWNLOADING" ELSE "FAILED"
                    /\ e = [held[p][d] EXCEPT !.status = s]
      OBVIOUS
    <3>1. e \in DocRow /\ Fits(d, e)
      BY <1>a, <2>0 DEF DocumentStatuses
    <3>2. /\ UNCHANGED <<doc, disk>> /\ UpdateDoc(p, d, e) /\ base' = [base EXCEPT ![p] = None]
          /\ \/ pc' = [pc EXCEPT ![p] = "download"] /\ UNCHANGED held
             \/ pc' = [pc EXCEPT ![p] = "batch"] /\ Drop(p, d)
      BY <1>2, <2>2 DEF DownloadStart, Goto, db
    <3>3. pc'[p] \notin {"idle", "queue"}
      BY <3>2 DEF TypeInv, TypeOK
    <3> QED
      BY <2>0, <3>1, <3>2, <3>3, SerialUpdate
  <2> QED
    BY <2>1, <2>2
<1>3. ASSUME NEW d \in Docs, NEW c \in Contents, DownloadSave(d, c) PROVE SerialNext
  <2> PICK e : e = [held[p][d] EXCEPT !.status = "DOWNLOADED", !.file = c]
    OBVIOUS
  <2>1. pc[p] = "download" /\ Holds(p, d) /\ base[p] = None /\ Entered(p)
    BY <1>3 DEF DownloadSave, First, SerialInv, Entered
  <2>2. held[p][d] \in DocRow /\ Fits(d, held[p][d]) /\ doc[d].status # "DOWNLOADED" /\ held[p][d] # None
    BY <2>1, HeldFields DEF Holds, SerialInv
  <2>3. e \in DocRow /\ e.file = c /\ e.status = "DOWNLOADED" /\ e.text = held[p][d].text /\ e # None
    BY <2>2, NoneApart DEF DocRow, DocumentStatuses
  <2>4. /\ UNCHANGED doc /\ disk' = [disk EXCEPT ![d] = c] /\ UpdateDoc(p, d, e)
        /\ pc' = [pc EXCEPT ![p] = "advance"] /\ base' = [base EXCEPT ![p] = None]
        /\ held' = [held EXCEPT ![p][d] = e]
    BY <1>3 DEF DownloadSave, Goto, db
  <2>5. /\ \A q \in Procs \ {p} : held'[q] = held[q] /\ txDoc'[q] = txDoc[q] /\ base'[q] = base[q]
        /\ pc'[p] = "advance" /\ base'[p] = None
        /\ \A f \in Docs : held'[p][f] = IF f = d THEN e ELSE held[p][f]
        /\ \A f \in Docs : disk'[f] = IF f = d THEN c ELSE disk[f]
        /\ txDoc'[p] = PutDoc(p, d, e)
    BY <2>4 DEF UpdateDoc, TypeInv, TypeOK
  <2>6. Fits(d, e)'
    BY <2>2, <2>3, <2>4, <2>5 DEF Fits
  \* A draft that stays is no other row than the entity.
  <2>7. PutDoc(p, d, e)[d] = e \/ txDoc[p][d] = None
    <3> PICK row : row = SeenDoc(p, d)
      OBVIOUS
    <3>1. txDoc[p][d] # None => row = txDoc[p][d]
      BY DEF SeenDoc
    <3>2. row = e => PutDoc(p, d, e) = txDoc[p]
      BY <2>1 DEF PutDoc, Selected
    <3>3. row # e => PutDoc(p, d, e)[d] = e
      <4>1. row \in DocRow
        BY SeenTypes DEF TypeInv
      <4>2. Merge(e, row, row) = e
        BY <2>3, <4>1, MergeEntity
      <4> QED
        BY <2>1, <4>2 DEF PutDoc, Selected, TypeInv, TypeOK
    <3> QED
      BY <3>1, <3>2, <3>3
  <2>8. \A f \in Docs : Fits(f, txDoc[p][f]) /\ Fits(f, held[p][f]) /\ Fits(f, doc[f])
    BY DEF SerialInv
  <2>9. \A f \in Docs : f # d => Fits(f, txDoc[p][f])' /\ Fits(f, held[p][f])' /\ Fits(f, doc[f])'
    <3>1. \A f \in Docs : f # d => txDoc'[p][f] = txDoc[p][f]
      BY <2>1, <2>3, <2>5, PutEntity
    <3> QED
      BY <2>4, <2>5, <2>8, <3>1 DEF Fits
  <2>10. Fits(d, txDoc[p][d])' /\ Fits(d, held[p][d])' /\ Fits(d, doc[d])'
    <3>1. txDoc'[p][d] \in {None, e}
      BY <2>1, <2>3, <2>5, <2>7, PutEntity
    <3>2. Fits(d, txDoc[p][d])'
      BY <2>6, <3>1 DEF Fits
    <3>3. Fits(d, held[p][d])'
      <4>1. held'[p][d] = e
        BY <2>5
      <4> QED
        BY <2>6, <4>1 DEF Fits
    <3>4. Fits(d, doc[d])'
      BY <2>2, <2>4 DEF Fits
    <3> QED
      BY <3>2, <3>3, <3>4
  <2>11. /\ \A f \in Docs : held'[p][f] # None => doc'[f].status # "DOWNLOADED"
         /\ \A f \in Docs : doc'[f].status = "ABSENT" => doc'[f].text = None
    BY <2>2, <2>4, <2>5 DEF SerialInv
  <2>12. AtRest(p)' /\ KeepsText
    BY <2>4, <2>5 DEF AtRest, KeepsText
  <2> QED
    BY <2>1, <2>5, <2>9, <2>10, <2>11, <2>12, StepSerial DEF SerialNext
<1>4. ASSUME NEW d \in Docs, DownloadFail(d) PROVE SerialNext
  <2> PICK e : e = [held[p][d] EXCEPT !.status = "FAILED"]
    OBVIOUS
  <2>0. pc[p] = "download" /\ Holds(p, d)
    BY <1>4 DEF DownloadFail, First
  <2>1. e \in DocRow /\ Fits(d, e)
    BY <1>a, <2>0 DEF DocumentStatuses
  <2>2. /\ UNCHANGED <<doc, disk>> /\ UpdateDoc(p, d, e) /\ base' = [base EXCEPT ![p] = None]
        /\ pc' = [pc EXCEPT ![p] = "batch"] /\ Drop(p, d)
    BY <1>4 DEF DownloadFail, Goto, db
  <2>3. pc'[p] \notin {"idle", "queue"}
    BY <2>2 DEF TypeInv, TypeOK
  <2> QED
    BY <2>0, <2>1, <2>2, <2>3, SerialUpdate
<1>5. ASSUME NEW d \in Docs, DownloadAdvance(d) PROVE SerialNext
  <2>1. /\ UNCHANGED <<doc, disk, txDoc>> /\ pc[p] # "idle"
        /\ \A q \in Procs \ {p} : held'[q] = held[q] /\ base'[q] = base[q]
        /\ pc'[p] = "batch" /\ base'[p] = None
        /\ \A f \in Docs : held'[p][f] \in {None, held[p][f]}
    BY <1>5 DEF DownloadAdvance, Goto, Drop, db, TypeInv, TypeOK
  <2>2. \A f \in Docs : Fits(f, txDoc'[p][f])
    BY <2>1 DEF SerialInv
  <2> QED
    BY <2>1, <2>2, SerialMove DEF Entered
<1>6. CASE DownloadCommit
  BY <1>6, SerialPublish DEF DownloadCommit, Commit
<1> QED
  BY <1>1, <1>2, <1>3, <1>4, <1>5, <1>6 DEF DownloadStep
LEMMA SerialRequest ==
  ASSUME Serial, TypeInv, MetadataInv, FilesInv, LifeInv, SerialInv, NEW p \in Requests, RequestStep(p)
  PROVE  SerialNext
<1>0. p \in Procs /\ p # Downloader /\ p # Workflow
  BY PipelineAssumption DEF Procs
<1>a. \A f \in Docs : Fits(f, txDoc[p][f]) /\ Fits(f, held[p][f])
  BY <1>0 DEF SerialInv
\* A call that reads, or drafts no document.
<1>b. ASSUME UNCHANGED <<doc, disk, txDoc>>, Entered(p), pc'[p] \notin {"idle", "queue"}, base'[p] = None,
             \A q \in Procs \ {p} : held'[q] = held[q] /\ base'[q] = base[q],
             \A f \in Docs : held'[p][f] \in {None, held[p][f]} \/ Fits(f, held'[p][f])
      PROVE  SerialNext
  BY <1>0, <1>a, <1>b, SerialMove
<1>1. ASSUME NEW t \in Tenders, NEW c \in Closings, PatchRead(p, t, c) PROVE SerialNext
  <2>1. /\ UNCHANGED <<doc, disk, txDoc, held>> /\ Entered(p) /\ pc'[p] = "patch" /\ base'[p] = None
        /\ \A q \in Procs \ {p} : base'[q] = base[q]
    BY <1>0, <1>1 DEF PatchRead, Goto, Starts, Begins, Entered, db, tx, TypeInv, TypeOK
  <2> QED
    BY <1>b, <2>1
<1>2. CASE PatchWrite(p) \/ UploadAdvance(p) \/ RetireCommit(p)
  <2>1. /\ pc[p] # "idle" /\ Finish(p) /\ UNCHANGED disk
        /\ Rollback(p) \/ \E tw : CommitDrafts(p, tw, txDoc[p], txMeta[p])
    BY <1>2 DEF PatchWrite, UploadAdvance, RetireCommit, Commit, Fail
  <2> QED
    BY <1>0, <2>1, SerialEnd, SerialPublish
<1>3. ASSUME NEW t \in Tenders, NEW d \in Docs, NEW c \in Contents, UploadStore(p, t, d, c) PROVE SerialNext
  <2> PICK e : e = [tender |-> t, url |-> FALSE, status |-> "DOWNLOADED",
                    file |-> c, text |-> None, purged |-> FALSE]
    OBVIOUS
  <2>1. /\ UNCHANGED <<doc, txDoc>> /\ Entered(p) /\ pc'[p] = "upload_add" /\ base'[p] = None
        /\ \A q \in Procs \ {p} : held'[q] = held[q] /\ base'[q] = base[q]
        /\ \A f \in Docs : held'[p][f] = IF f = d THEN e ELSE None
        /\ \A f \in Docs : disk'[f] = IF f = d THEN c ELSE disk[f]
        /\ doc[d].status = "ABSENT" /\ txDoc[p][d] = None
    BY <1>0, <1>3
       DEF UploadStore, FreshDoc, Goto, Keep, NoDocs, Starts, Begins, Entered, db, tx, TypeInv, TypeOK
  <2>2. doc[d].text = None /\ \A f \in Docs : Fits(f, doc[f]) /\ (doc[f].status = "ABSENT" => doc[f].text = None)
    BY <2>1 DEF SerialInv
  <2>3. \A f \in Docs : Fits(f, doc[f])' /\ (doc'[f].status = "ABSENT" => doc'[f].text = None)
    BY <2>1, <2>2 DEF Fits
  <2>4. \A f \in Docs : Fits(f, txDoc[p][f])'
    BY <1>a, <2>1 DEF Fits
  <2>5. \A f \in Docs : Fits(f, held[p][f])'
    BY <2>1, <2>2 DEF Fits
  <2>6. AtRest(p)' /\ KeepsText
    BY <2>1 DEF AtRest, KeepsText
  <2> QED
    BY <1>0, <2>1, <2>3, <2>4, <2>5, <2>6, StepSerial DEF SerialNext
<1>4. ASSUME NEW d \in Docs, UploadAdd(p, d) PROVE SerialNext
  <2>1. CASE Fail(p)
    BY <1>0, <1>4, <2>1, SerialEnd DEF UploadAdd, Fail
  <2>2. CASE ~Fail(p)
    <3>1. /\ UNCHANGED <<doc, disk, held>> /\ pc[p] # "idle"
          /\ txDoc' = [txDoc EXCEPT ![p][d] = held[p][d]]
          /\ pc'[p] = "upload_advance" /\ base' = [base EXCEPT ![p] = None]
      BY <1>0, <1>4, <2>2 DEF UploadAdd, Goto, db, TypeInv, TypeOK
    <3>2. /\ \A q \in Procs \ {p} : txDoc'[q] = txDoc[q] /\ base'[q] = base[q]
          /\ base'[p] = None /\ \A f \in Docs : txDoc'[p][f] \in {txDoc[p][f], held[p][f]}
      BY <1>0, <3>1 DEF TypeInv, TypeOK
    <3>3. \A f \in Docs : Fits(f, txDoc'[p][f])
      BY <1>a, <3>2
    <3> QED
      BY <1>0, <3>1, <3>2, <3>3, SerialMove DEF Entered
  <2> QED
    BY <2>1, <2>2
<1>5. ASSUME NEW d \in Docs, RetriggerRead(p, d) PROVE SerialNext
  <2> PICK e : e = [doc[d] EXCEPT !.status = "PENDING"]
    OBVIOUS
  <2>1. /\ UNCHANGED <<doc, disk, txDoc>> /\ Entered(p) /\ pc'[p] = "retrigger" /\ base'[p] = None
        /\ \A q \in Procs \ {p} : held'[q] = held[q] /\ base'[q] = base[q]
        /\ \A f \in Docs : held'[p][f] = IF f = d THEN e ELSE None
    BY <1>0, <1>5 DEF RetriggerRead, Goto, Keep, NoDocs, Starts, Begins, Entered, db, tx, TypeInv, TypeOK
  <2>2. e.status = "PENDING" /\ e.text = doc[d].text
    BY DEF TypeInv, TypeOK, DocRow
  <2>3. Fits(d, e)
    BY <2>2 DEF Fits
  <2> QED
    BY <1>b, <2>1, <2>3
<1>6. ASSUME NEW d \in Docs, RetriggerWrite(p, d) PROVE SerialNext
  <2>1. CASE Fail(p)
    BY <1>0, <1>6, <2>1, SerialEnd DEF RetriggerWrite, Fail
  <2>2. CASE ~Fail(p)
    <3> PICK e, dw : e = held[p][d] /\ dw = PutDoc(p, d, e)
      OBVIOUS
    <3>1. /\ pc[p] # "idle" /\ Holds(p, d) /\ Exists(doc[d]) /\ UNCHANGED disk
          /\ CommitDrafts(p, txTender[p], dw, txMeta[p]) /\ Finish(p)
      BY <1>6, <2>2 DEF RetriggerWrite
    <3>2. e \in DocRow /\ base[p] = None /\ e.status # "ABSENT"
      BY <1>0, <3>1, HeldFields, OldRows, NoneApart DEF SerialInv, RowKept, Holds
    <3>3. \A f \in Docs : dw[f] = txDoc[p][f] \/ (f = d /\ dw[f] = e)
      BY <1>0, <3>2, PutEntity
    <3>4. \A f \in Docs : txDoc[p][f] # None => txDoc[p][f].status # "ABSENT"
      BY <1>0, DraftsPublishable DEF Publishable
    <3>5. \A f \in Docs : Fits(f, dw[f]) /\ (dw[f] # None => dw[f].status # "ABSENT")
      BY <1>a, <3>2, <3>3, <3>4
    <3> QED
      BY <1>0, <3>1, <3>5, SerialCommit
  <2> QED
    BY <2>1, <2>2
<1>7. ASSUME NEW t \in Tenders, NEW d \in Docs, Extract(p, t, d) PROVE SerialNext
  BY <1>0, <1>7, SerialReadDocument DEF Extract, Starts, Begins, Entered
<1>8. ASSUME NEW W \in SUBSET Tenders, NEW S \in SUBSET Tenders, RetirePlan(p, W, S) PROVE SerialNext
  <2>1. /\ UNCHANGED <<doc, disk, txDoc, held>> /\ Entered(p)
        /\ pc' = [pc EXCEPT ![p] = "retire_next"] /\ base' = [base EXCEPT ![p] = None]
    BY <1>8 DEF RetirePlan, Goto, Starts, Begins, Entered, db, tx
  <2>2. pc'[p] = "retire_next" /\ base'[p] = None /\ \A q \in Procs \ {p} : base'[q] = base[q]
    BY <1>0, <2>1 DEF TypeInv, TypeOK
  <2> QED
    BY <1>b, <2>1, <2>2
<1>9. ASSUME NEW t \in Tenders, RetireList(p, t) PROVE SerialNext
  <2>1. /\ UNCHANGED <<doc, disk, txDoc>> /\ Entered(p) /\ pc'[p] = "retire_purge" /\ base'[p] = None
        /\ \A q \in Procs \ {p} : held'[q] = held[q] /\ base'[q] = base[q]
        /\ \A f \in Docs : held'[p][f] \in {None, SeenDoc(p, f)}
    BY <1>0, <1>9 DEF RetireList, Goto, Entered, db, tx, TypeInv, TypeOK
  <2>2. \A f \in Docs : Fits(f, SeenDoc(p, f))
    BY <1>a DEF SeenDoc, SerialInv
  <2> QED
    BY <1>b, <2>1, <2>2
<1>10. ASSUME NEW d \in Docs, RetireUnlink(p, d) PROVE SerialNext
  <2>1. /\ UNCHANGED <<doc, txDoc, held>> /\ Entered(p) /\ pc'[p] = "retire_mark" /\ base'[p] = None
        /\ \A q \in Procs \ {p} : base'[q] = base[q]
        /\ \A f \in Docs : disk'[f] \in {None, disk[f]}
    BY <1>0, <1>10 DEF RetireUnlink, Goto, Entered, db, tx, TypeInv, TypeOK
  <2>2. \A f \in Docs : Fits(f, doc[f]) /\ (doc[f].status = "ABSENT" => doc[f].text = None)
    BY DEF SerialInv
  <2>3. \A f \in Docs : Fits(f, doc[f])' /\ Fits(f, held[p][f])' /\ Fits(f, txDoc[p][f])'
    BY <1>a, <2>1, <2>2 DEF Fits
  <2>4. AtRest(p)' /\ KeepsText
    BY <2>1 DEF AtRest, KeepsText
  <2> QED
    BY <1>0, <2>1, <2>2, <2>3, <2>4, StepSerial DEF SerialNext
<1>11. ASSUME NEW d \in Docs, RetireUnlinkFails(p, d) PROVE SerialNext
  <2>1. /\ UNCHANGED <<doc, disk, txDoc, base>> /\ pc[p] = "retire_purge" /\ UNCHANGED pc
        /\ \A q \in Procs \ {p} : held'[q] = held[q]
        /\ \A f \in Docs : held'[p][f] \in {None, held[p][f]}
    BY <1>0, <1>11 DEF RetireUnlinkFails, Drop, db, tx, TypeInv, TypeOK
  <2> QED
    BY <1>0, <1>b, <2>1 DEF Entered, SerialInv
<1>12. ASSUME NEW d \in Docs, RetireMark(p, d) PROVE SerialNext
  <2>1. CASE Fail(p)
    BY <1>0, <1>12, <2>1, SerialEnd DEF RetireMark, Fail
  <2>2. CASE ~Fail(p)
    <3> PICK e : e = [held[p][d] EXCEPT !.file = None, !.purged = TRUE]
      OBVIOUS
    <3>1. /\ UNCHANGED <<doc, disk>> /\ pc[p] # "idle" /\ Holds(p, d) /\ UpdateDoc(p, d, e)
          /\ pc' = [pc EXCEPT ![p] = "retire_purge"] /\ base' = [base EXCEPT ![p] = None] /\ Drop(p, d)
      BY <1>12, <2>2 DEF RetireMark, First, Goto, db
    <3>2. held[p][d] \in DocRow /\ held[p][d] # None
      BY <1>0, <3>1, HeldFields DEF Holds
    <3>3. e \in DocRow /\ e.file = None /\ e.text = held[p][d].text
      BY <3>2, DocFields DEF DocRow
    <3>4. Fits(d, e) /\ pc'[p] \notin {"idle", "queue"}
      BY <1>0, <1>a, <3>1, <3>2, <3>3 DEF Fits, TypeInv, TypeOK
    <3> QED
      BY <1>0, <3>1, <3>3, <3>4, SerialUpdate
  <2> QED
    BY <2>1, <2>2
<1>13. CASE RetireRead(p) \/ (RetireArchive(p) /\ ~Fail(p))
  <2>1. /\ UNCHANGED <<doc, disk, txDoc, held>> /\ Entered(p) /\ base' = [base EXCEPT ![p] = None]
        /\ \E w \in {"retire_archive", "retire_next"} : pc' = [pc EXCEPT ![p] = w]
    BY <1>13 DEF RetireRead, RetireArchive, Goto, Entered, db, tx
  <2>2. /\ pc'[p] \notin {"idle", "queue"} /\ base'[p] = None
        /\ \A q \in Procs \ {p} : base'[q] = base[q]
    BY <1>0, <2>1 DEF TypeInv, TypeOK
  <2> QED
    BY <1>b, <2>1, <2>2
<1>14. CASE RetireArchive(p) /\ Fail(p)
  BY <1>0, <1>14, SerialEnd DEF RetireArchive, Fail
<1> QED
  BY <1>1, <1>2, <1>3, <1>4, <1>5, <1>6, <1>7, <1>8, <1>9, <1>10, <1>11, <1>12, <1>13, <1>14
     DEF RequestStep

LEMMA SerialInit == Init => SerialInv
<1> SUFFICES ASSUME Init PROVE SerialInv
  OBVIOUS
<1>1. /\ \A p \in Procs : base[p] = None /\ \A d \in Docs : held[p][d] = None /\ txDoc[p][d] = None
      /\ \A d \in Docs : doc[d].status = "ABSENT" /\ doc[d].text = None
      /\ Downloader \in Procs
  BY DEF Init, NoDocs, Procs
<1> QED
  BY <1>1 DEF SerialInv, AtRest, Fits

LEMMA SerialStep ==
  ASSUME Serial, TypeInv, MetadataInv, FilesInv, LifeInv, SerialInv, [Next]_vars
  PROVE  SerialNext
<1>1. CASE UNCHANGED vars
  BY <1>1 DEF vars, SerialNext, SerialInv, AtRest, Fits, KeepsText
<1>2. ASSUME NEW p \in Requests, RequestStep(p) PROVE SerialNext
  BY <1>2, SerialRequest
<1>3. ASSUME NEW p \in Requests \cup {Workflow}, ExtractStep(p) PROVE SerialNext
  BY <1>3, SerialExtract
<1>4. ASSUME NEW p \in Procs, WaitTender(p) \/ (\E d \in Docs : WaitDoc(p, d)) \/ Crash(p) PROVE SerialNext
  BY <1>4, SerialWait
<1> QED
  BY <1>1, <1>2, <1>3, <1>4, SerialDirect, SerialWorkflow, SerialDownload DEF Next

LEMMA SerialHolds ==
  ASSUME Serial
  PROVE  Spec => [](TypeInv /\ MetadataInv /\ FilesInv /\ LifeInv /\ SerialInv)
<1>1. Spec => []LifeInv
  BY LifeHolds DEF Unmixed
<1>2. TypeInv /\ MetadataInv /\ FilesInv /\ LifeInv /\ SerialInv /\ [Next]_vars => SerialInv'
  BY SerialStep DEF SerialNext
<1> QED
  BY <1>1, <1>2, SerialInit, AllHold, PTL DEF Spec

\* Through retries, re-downloads, interrupted batches and refused unlinks, the
\* file of a downloaded document is the one whose hash its row holds, or is gone
\* and its tender was read before, as long as nothing starts while anything is in
\* flight.
THEOREM FilesMatchTheirRows ==
  ASSUME Serial PROVE Spec => []FileMatchesRow
<1>1. SerialInv /\ TypeInv /\ FilesInv => FileMatchesRow
  <2> SUFFICES ASSUME SerialInv, TypeInv, FilesInv, NEW d \in Docs,
                      doc[d].status = "DOWNLOADED", doc[d].file # None
               PROVE  disk[d] = doc[d].file \/ (disk[d] = None /\ meta[doc[d].tender] # None)
    BY DEF FileMatchesRow
  <2>1. doc[d] # None
    BY NoneApart DEF TypeInv, TypeOK
  <2>2. disk[d] # None => disk[d] = doc[d].file
    BY <2>1 DEF SerialInv, Fits
  <2>3. disk[d] # None \/ meta[doc[d].tender] # None
    BY BytesHeld DEF BytesOrMetadata
  <2> QED
    BY <2>2, <2>3
<1> QED
  BY <1>1, SerialHolds, PTL

\* mark_purged, retrigger() and every other update keep raw_text: a document
\* that was extracted stays extracted, as long as nothing starts while anything
\* is in flight.
THEOREM ExtractedTextSurvives ==
  ASSUME Serial PROVE Spec => TextSurvives
<1>1. TypeInv /\ MetadataInv /\ FilesInv /\ LifeInv /\ SerialInv /\ [Next]_vars
        => [\A d \in Docs : doc[d].text # None => doc'[d].text # None]_vars
  BY SerialStep DEF SerialNext, KeepsText
<1> QED
  BY <1>1, SerialHolds, PTL DEF Spec, TextSurvives
=============================================================================
