--------------------------- MODULE ProjectRegistry ---------------------------
(***************************************************************************)
(* The past-project registry: its rows, the vectors stored for them, the   *)
(* links to work types, and the jobs that write many of them at once - the *)
(* workbook import, the deletion of a selection, the re-indexing and the   *)
(* tagging scripts.                                                        *)
(*                                                                         *)
(* A job is one database transaction.  Its writes are its own until it     *)
(* commits; the vector store has no transaction and changes at once.  Jobs *)
(* are taken one at a time, beside requests that commit in one step where  *)
(* "overlap" says so.                                                      *)
(***************************************************************************)
EXTENDS Integers, Sequences, FiniteSets

CONSTANTS
  MaxProjects,  \* bound on the projects ever created
  MaxBegun,     \* bound on the jobs and requests begun
  Awards,       \* LOA references, normalised
  Texts,        \* what a project says of itself
  Types,        \* work types of the packaged seed
  Matches,      \* the types a text is confidently matched to
  Batches,      \* the uploads: sequences of files, each a sequence of rows
  SeedRefs,     \* <<award, type>>: the project references of the seed
  Entered,      \* what requests say that a project has
  None

Ids == 1..MaxProjects
Link == {"INFERRED", "REVIEWER", "SEED"}

\* What of a project screening counts, beside its links.
Evidence == SUBSET {"value", "certificate"}

\* A worksheet row once its cells are coerced: "has" says which of a work value and a
\* certificate date could be read, "fits" whether the columns hold the text.
Row == [award : Awards \cup {None}, text : Texts \cup {None}, has : Evidence, fits : BOOLEAN]

Project == [award : Awards \cup {None}, text : Texts, has : Evidence, indexed : BOOLEAN]

ASSUME RegistryAssumption ==
  /\ MaxProjects \in Nat /\ MaxBegun \in Nat /\ Matches \in [Texts -> SUBSET Types]
  /\ SeedRefs \subseteq Awards \X Types /\ Entered \subseteq Evidence
  /\ Batches \subseteq Seq(Seq(Row) \cup {None})

VARIABLES
  overlap,   \* whether other requests run beside a job
  begun,     \* jobs and requests begun
  used,      \* how many projects were ever created
  projects,  \* past_projects, committed
  links,     \* past_project_work_types, committed
  types,     \* work_types
  vectors,   \* the text each vector was made from
  torn,      \* projects whose vector was last changed by a transaction that was lost
  job        \* the job in progress, or None

vars == <<overlap, begun, used, projects, links, types, vectors, torn, job>>

NoLinks == [t \in Types |-> None]
Active == {t \in Types : types[t] = "active"}
Live(table) == {i \in Ids : table[i] # None}

\* A mutant: references compared as they were typed, so that none is ever found again.
OfAwardAsTyped(table, a) == {}
OfAward(table, a) == {i \in Live(table) : a # None /\ table[i].award = a}

\* A job's writes, with one more.
Writing(writes, i, row) == [k \in DOMAIN writes \cup {i} |-> IF k = i THEN row ELSE writes[k]]

\* What the job's own queries return: its writes over what is committed.
Over(writes, table) == [i \in Ids |-> IF i \in DOMAIN writes THEN writes[i] ELSE table[i]]
Seen == Over(job.mine, projects)
SeenLinks == Over(job.tags, links)
SeenActive(j) == Active \cup j.provisioned

Init ==
  /\ overlap \in BOOLEAN
  /\ begun = 0
  /\ used = 0
  /\ projects = [i \in Ids |-> None]
  /\ links = [i \in Ids |-> NoLinks]
  /\ types = [t \in Types |-> "absent"]
  /\ vectors = [i \in Ids |-> None]
  /\ torn = {}
  /\ job = None

-----------------------------------------------------------------------------
\* Jobs.

NewJob(op) ==
  [op |-> op, files |-> <<>>, rows |-> <<>>, at |-> 1, now |-> None, report |-> <<>>,
   read |-> projects, todo |-> {}, pairs |-> {}, candidates |-> {}, provisioned |-> {}, bumped |-> FALSE,
   mine |-> <<>>, tags |-> <<>>, touched |-> {}, failed |-> None]

Idle == job = None /\ begun < MaxBegun
Running(op) == job # None /\ job.op = op /\ job.failed = None
Only(v) == UNCHANGED <<overlap, begun, used, projects, links, types, vectors, torn>> /\ job' = v
Begin(j) == begun' = begun + 1 /\ UNCHANGED <<overlap, used, projects, links, types, vectors, torn>> /\ job' = j

\* ensure_taxonomy: with no active type the seed is loaded, adding the types that
\* are missing and moving the portfolio counter.
Ensured(j) ==
  IF SeenActive(j) # {} THEN j
  ELSE [j EXCEPT !.provisioned = {t \in Types : types[t] = "absent"}, !.bumped = TRUE]
Candidates(j) == [j EXCEPT !.candidates = SeenActive(j)]

Report(j, outcome, id, linked, visible) ==
  [j EXCEPT !.now = None, !.at = @ + 1,
            !.rows = Append(@, [outcome |-> outcome, id |-> id, linked |-> linked, visible |-> visible])]

StartImport ==
  /\ Idle
  /\ \E batch \in Batches, autoTag \in BOOLEAN :
       LET j == [NewJob("import") EXCEPT !.files = batch]
       IN Begin(IF autoTag THEN Candidates(Ensured(j)) ELSE j)

Importing == Running("import") /\ job.files # <<>>
Sheet == Head(job.files)

FileDone(outcome, rows) ==
  [job EXCEPT !.files = Tail(@), !.rows = <<>>, !.at = 1, !.now = None,
              !.report = Append(@, [outcome |-> outcome, rows |-> rows])]

\* Not a workbook, or a workbook that cannot be opened.
RejectFile == Importing /\ Sheet = None /\ Only(FileDone("ERROR", <<>>))

EndFile ==
  /\ Importing /\ Sheet # None /\ job.at > Len(Sheet) /\ job.now = None
  /\ Only(FileDone(IF job.rows = <<>> THEN "ERROR" ELSE "CREATED", job.rows))

\* A mutant: without the check for a known award.
ReadRowUnchecked ==
  /\ Importing /\ Sheet # None /\ job.at <= Len(Sheet) /\ job.now = None
  /\ LET row == Sheet[job.at]
     IN Only(IF row.text = None THEN Report(job, "ERROR", None, 0, FALSE)
             ELSE [job EXCEPT !.now = [row |-> row, id |-> None, todo |-> {}, linked |-> 0]])

ReadRow ==
  /\ Importing /\ Sheet # None /\ job.at <= Len(Sheet) /\ job.now = None
  /\ LET row == Sheet[job.at]
         same == OfAward(Seen, row.award)
     IN Only(IF row.text = None THEN Report(job, "ERROR", None, 0, FALSE)
             ELSE IF same # {} THEN Report(job, "SKIPPED", CHOOSE i \in same : TRUE, 0, FALSE)
             ELSE [job EXCEPT !.now = [row |-> row, id |-> None, todo |-> {}, linked |-> 0]])

InHand == Importing /\ job.now # None

\* The seed is needed and cannot be read (load_packaged_seed), which is reported of
\* the row; nothing is written.
RefuseRow ==
  /\ InHand /\ job.now.id = None /\ SeenActive(job) = {}
  /\ Only(Report(job, "ERROR", None, 0, FALSE))

\* PastProjectService.create up to the INSERT.  A row the database refuses leaves a
\* session on which every later statement fails.
AddRow ==
  /\ InHand /\ job.now.id = None
  /\ LET row == job.now.row
         j == Ensured(job)
         clash == OfAward(Seen, row.award) # {}
     IN IF clash \/ ~row.fits
        THEN Only([j EXCEPT !.failed = IF clash THEN "duplicate" ELSE "misfit"])
        ELSE /\ used < MaxProjects
             /\ used' = used + 1
             /\ job' = [j EXCEPT !.now.id = used + 1,
                  !.mine = Writing(@, used + 1, [award |-> row.award, text |-> row.text, has |-> row.has, indexed |-> FALSE])]
             /\ UNCHANGED <<overlap, begun, projects, links, types, vectors, torn>>

\* A mutant: marked indexed though the vector could not be stored.
IndexRowAnyway ==
  /\ InHand /\ job.now.id # None /\ ~Seen[job.now.id].indexed
  /\ LET i == job.now.id
         text == job.now.row.text
     IN /\ vectors' \in {vectors, [vectors EXCEPT ![i] = text]}
        /\ job' = [job EXCEPT !.mine[i].indexed = TRUE, !.touched = @ \cup {i},
                              !.now.todo = Matches[text] \cap job.candidates]
        /\ UNCHANGED <<overlap, begun, used, projects, links, types, torn>>

\* _index: the vector is stored, then the row marked.  When the store fails the
\* file is reported in error; what it added stays in the transaction.
IndexRow ==
  /\ InHand /\ job.now.id # None /\ ~Seen[job.now.id].indexed
  /\ LET i == job.now.id
         text == job.now.row.text
     IN \/ /\ vectors' = [vectors EXCEPT ![i] = text]
           /\ job' = [job EXCEPT !.mine[i].indexed = TRUE, !.touched = @ \cup {i},
                                 !.now.todo = Matches[text] \cap job.candidates]
           /\ UNCHANGED <<overlap, begun, used, projects, links, types, torn>>
        \/ Only(FileDone("ERROR", <<>>))

\* tag_project: refused for a project or a type that is gone, otherwise merged over
\* whatever link was there.
Tagged(j, i, t) ==
  IF Seen[i] # None /\ t \in SeenActive(j)
  THEN [j EXCEPT !.tags = Writing(@, i, [SeenLinks[i] EXCEPT ![t] = "INFERRED"]), !.bumped = TRUE]
  ELSE j

\* A mutant: counted whether or not it was written.
CountsAnyway(i, t) == Seen[i] # None

Counts(i, t) == Seen[i] # None /\ t \in SeenActive(job)

\* WorkTypeTagger.tag, one match: a refusal is logged and passed over.
TagRow ==
  /\ InHand /\ job.now.id # None /\ Seen[job.now.id].indexed
  /\ \E t \in job.now.todo :
       Only([Tagged(job, job.now.id, t) EXCEPT !.now.todo = @ \ {t},
               !.now.linked = IF Counts(job.now.id, t) THEN @ + 1 ELSE @])

\* A mutant: announced for its links alone.
VisibleOnceLinked(has, linked) == linked > 0

\* _missing_for_eligibility names nothing.
Visible(has, linked) == has = {"value", "certificate"} /\ linked > 0

FinishRow ==
  /\ InHand /\ job.now.id # None /\ Seen[job.now.id].indexed /\ job.now.todo = {}
  /\ Only(Report(job, "CREATED", job.now.id, job.now.linked,
                 Visible(job.now.row.has, job.now.linked)))

\* delete_many: the whole selection must be there before anything is deleted.
StartDelete ==
  /\ Idle
  /\ \E selection \in SUBSET Live(projects) \ {{}} :
       Begin([NewJob("delete") EXCEPT !.todo = selection])
StartDeleteAll == Idle /\ Live(projects) # {} /\ Begin([NewJob("delete_all") EXCEPT !.todo = Live(projects)])

DeleteNext ==
  /\ Running("delete") \/ Running("delete_all")
  /\ \E i \in job.todo :
       /\ \/ vectors' = [vectors EXCEPT ![i] = None]
          \/ UNCHANGED vectors       \* the failure is logged
       /\ job' = [job EXCEPT !.todo = @ \ {i}, !.mine = Writing(@, i, None),
                             !.tags = Writing(@, i, NoLinks), !.touched = @ \cup {i}]
  /\ UNCHANGED <<overlap, begun, used, projects, links, types, torn>>

\* delete_all lists again until nothing is left.
ListAgain ==
  /\ Running("delete_all") /\ job.todo = {} /\ Live(Seen) # {}
  /\ Only([job EXCEPT !.todo = Live(Seen)])

StartBackfill ==
  /\ Idle
  /\ \E todo \in {{i \in Live(projects) : ~projects[i].indexed}} \ {{}} :
       Begin([NewJob("index") EXCEPT !.todo = todo])

\* The project is indexed and written back as it was when it was listed.
BackfillNext ==
  /\ Running("index")
  /\ \E i \in job.todo :
       \/ /\ vectors' = [vectors EXCEPT ![i] = job.read[i].text]
          /\ job' = IF Seen[i] = None \/ OfAward(Seen, job.read[i].award) \ {i} # {}
                    THEN [job EXCEPT !.failed = "gone", !.touched = @ \cup {i}]
                    ELSE [job EXCEPT !.todo = @ \ {i}, !.touched = @ \cup {i},
                            !.mine = Writing(@, i, [job.read[i] EXCEPT !.indexed = TRUE])]
          /\ UNCHANGED <<overlap, begun, used, projects, links, types, torn>>
       \/ Only([job EXCEPT !.failed = "vector"])

\* The tagging script: without --retag, only projects that had no link.
Unlinked == {i \in Live(projects) : links[i] = NoLinks}

StartTagging ==
  /\ Idle
  /\ \E retag \in BOOLEAN :
       LET j == Candidates(Ensured(NewJob(IF retag THEN "retag" ELSE "tag")))
       IN /\ j.candidates # {}
          /\ Begin([j EXCEPT !.pairs = (IF retag THEN Live(projects) ELSE Unlinked) \X j.candidates])

TagNext ==
  /\ Running("tag") \/ Running("retag")
  /\ \E pair \in job.pairs :
       LET left == [job EXCEPT !.pairs = @ \ {pair}]
       IN Only(IF pair[2] \in Matches[job.read[pair[1]].text]
               THEN Tagged(left, pair[1], pair[2]) ELSE left)

Committing ==
  /\ job # None /\ job.failed = None /\ job.files = <<>> /\ job.todo = {} /\ job.pairs = {}
  /\ job.op = "delete_all" => Live(Seen) = {}

Commit ==
  /\ Committing
  /\ projects' = Seen
  /\ links' = SeenLinks
  /\ types' = [t \in Types |-> IF t \in job.provisioned THEN "active" ELSE types[t]]
  /\ torn' = torn \ job.touched
  /\ job' = None
  /\ UNCHANGED <<overlap, begun, used, vectors>>

\* The request failed, the script ran dry or the process stopped: every row goes
\* back, the vectors stay as they are.
Lose ==
  /\ job # None
  /\ torn' = torn \cup job.touched
  /\ job' = None
  /\ UNCHANGED <<overlap, begun, used, projects, links, types, vectors>>

Job ==
  \/ StartImport \/ RejectFile \/ EndFile \/ ReadRow \/ RefuseRow \/ AddRow \/ IndexRow \/ TagRow \/ FinishRow
  \/ StartDelete \/ StartDeleteAll \/ DeleteNext \/ ListAgain \/ StartBackfill \/ BackfillNext
  \/ StartTagging \/ TagNext \/ Commit \/ Lose

-----------------------------------------------------------------------------
\* Requests that commit in one step.  A row the job has written, and the portfolio
\* counter once the job has moved it, are locked until the job ends.

MayRun == begun < MaxBegun /\ (job # None => overlap)
Served == begun' = begun + 1
Unlocked(i) == job # None => i \notin DOMAIN job.mine
Unlinking(i) == job # None => i \notin DOMAIN job.tags
CounterFree == job # None => ~job.bumped

PostProject(a, text, has) ==
  /\ MayRun /\ Served /\ used < MaxProjects
  /\ OfAward(projects, a) = {}
  /\ job # None => OfAward(Seen, a) = {} /\ job.provisioned = {}
  /\ Active = {} => CounterFree
  /\ used' = used + 1
  /\ projects' = [projects EXCEPT ![used + 1] =
       [award |-> a, text |-> text, has |-> has, indexed |-> TRUE]]
  /\ types' = IF Active # {} THEN types
              ELSE [t \in Types |-> IF types[t] = "absent" THEN "active" ELSE types[t]]
  /\ vectors' = [vectors EXCEPT ![used + 1] = text]
  /\ UNCHANGED <<overlap, links, torn, job>>

\* A patch is indexed again before it commits, and can be lost in between.  It fills a
\* value or a date in and never blanks one; one that leaves the award and the text
\* changes another field.
PatchProject(i, a, text, has) ==
  /\ MayRun /\ Served /\ Unlocked(i) /\ projects[i] # None
  /\ a # projects[i].award =>
       /\ Unlinking(i) /\ OfAward(projects, a) = {}
       /\ job # None => OfAward(Seen, a) = {}
  /\ vectors' = [vectors EXCEPT ![i] = text]
  /\ \/ /\ projects' = [projects EXCEPT ![i] =
             [award |-> a, text |-> text, has |-> has \cup @.has, indexed |-> TRUE]]
        /\ torn' = torn \ {i}
     \/ torn' = torn \cup {i} /\ UNCHANGED projects
  /\ UNCHANGED <<overlap, used, links, types, job>>

\* The vector goes before the commit, and the row comes back when that is lost.
DeleteProject(i) ==
  /\ MayRun /\ Served /\ Unlocked(i) /\ Unlinking(i) /\ projects[i] # None
  /\ vectors' \in {vectors, [vectors EXCEPT ![i] = None]}
  /\ \/ /\ projects' = [projects EXCEPT ![i] = None]
        /\ links' = [links EXCEPT ![i] = NoLinks]
        /\ UNCHANGED torn
     \/ torn' = torn \cup {i} /\ UNCHANGED <<projects, links>>
  /\ UNCHANGED <<overlap, used, types, job>>

TagProject(i, t) ==
  /\ MayRun /\ Served /\ Unlocked(i) /\ CounterFree /\ projects[i] # None /\ t \in Active
  /\ links' = [links EXCEPT ![i][t] = "REVIEWER"]
  /\ UNCHANGED <<overlap, used, projects, types, vectors, torn, job>>

Untag(i, t) ==
  /\ MayRun /\ Served /\ CounterFree /\ links[i][t] # None
  /\ links' = [links EXCEPT ![i][t] = None]
  /\ UNCHANGED <<overlap, used, projects, types, vectors, torn, job>>

Deactivate(t) ==
  /\ MayRun /\ Served /\ CounterFree /\ t \in Active
  /\ types' = [types EXCEPT ![t] = "inactive"]
  /\ UNCHANGED <<overlap, used, projects, links, vectors, torn, job>>

\* WorkTypeSeedService.load with its tag pass: refused unless every reference is
\* the LOA of a project.
LoadSeed ==
  /\ Idle /\ Served
  /\ \A ref \in SeedRefs : OfAward(projects, ref[1]) # {}
  /\ types' = [t \in Types |-> IF types[t] = "absent" THEN "active" ELSE types[t]]
  /\ links' = [i \in Ids |-> [t \in Types |->
       IF \E ref \in SeedRefs : ref[2] = t /\ i \in OfAward(projects, ref[1]) THEN "SEED"
       ELSE links[i][t]]]
  /\ UNCHANGED <<overlap, used, projects, vectors, torn, job>>

Request ==
  \/ \E a \in Awards \cup {None}, text \in Texts, has \in Entered : PostProject(a, text, has)
  \/ \E i \in Ids, text \in Texts, has \in Entered :
       /\ projects[i] # None
       /\ \E a \in Awards \cup {projects[i].award} : PatchProject(i, a, text, has)
  \/ \E i \in Ids : DeleteProject(i)
  \/ \E i \in Ids, t \in Types : TagProject(i, t) \/ Untag(i, t)
  \/ \E t \in Types : Deactivate(t)
  \/ LoadSeed

Next == Job \/ Request
Spec == Init /\ [][Next]_vars

-----------------------------------------------------------------------------
\* Properties.

RowReport ==
  [outcome : {"CREATED", "SKIPPED", "ERROR"}, id : Ids \cup {None}, linked : Nat, visible : BOOLEAN]
FileReport == [outcome : {"CREATED", "ERROR"}, rows : Seq(RowReport)]
RowInHand ==
  [row : {r \in Row : r.text # None}, id : Ids \cup {None}, todo : SUBSET Types, linked : Nat]
Writes(T) == UNION {[W -> T] : W \in SUBSET Ids}
Failure == {"duplicate", "misfit", "gone", "vector"}

JobState ==
  [op : {"import", "delete", "delete_all", "index", "tag", "retag"},
   files : Seq(Seq(Row) \cup {None}), rows : Seq(RowReport), at : Nat \ {0}, now : RowInHand \cup {None},
   report : Seq(FileReport), read : [Ids -> Project \cup {None}], todo : SUBSET Ids,
   pairs : SUBSET (Ids \X Types), candidates : SUBSET Types, provisioned : SUBSET Types,
   bumped : BOOLEAN, mine : Writes(Project \cup {None}),
   tags : Writes([Types -> Link \cup {None}]), touched : SUBSET Ids, failed : Failure \cup {None}]

ASSUME NoneIsNothing ==
  /\ None \notin Awards \cup Texts \cup Link \cup Failure /\ None \notin Ids
  /\ None \notin Project /\ None \notin RowInHand /\ None \notin JobState

\* Rows, links, vectors and jobs keep their shape, and an award names one committed
\* project.
TypeOK ==
  /\ overlap \in BOOLEAN /\ begun \in 0..MaxBegun /\ used \in 0..MaxProjects
  /\ projects \in [Ids -> Project \cup {None}]
  /\ links \in [Ids -> [Types -> Link \cup {None}]]
  /\ types \in [Types -> {"absent", "active", "inactive"}]
  /\ vectors \in [Ids -> Texts \cup {None}]
  /\ torn \subseteq Ids
  /\ Live(projects) \subseteq 1..used
  /\ \A i, k \in Live(projects) : projects[i].award \in {projects[k].award} \ {None} => i = k
  /\ job \in JobState \cup {None}

Moving == IF job = None THEN {} ELSE job.touched

\* A project marked indexed is found by what it says now: without requests beside a
\* job, its vector was made from its own text, unless the transaction that stored
\* or removed the vector was lost or has not ended (PastProjectService._index, patch,
\* delete).
IndexedMeansFound ==
  ~overlap => \A i \in Live(projects) \ (torn \cup Moving) :
    projects[i].indexed => vectors[i] = projects[i].text

\* What an upload reports of a row is what it wrote, whatever runs beside it: the
\* project is there, it has the links counted and no other, and it is announced as
\* eligibility evidence exactly when the row written has a value, a certificate and a
\* link - up to the moment the batch commits (ProjectRowResult, _finish).
ReportedRowsStand ==
  job # None /\ job.failed = None =>
    \A f \in DOMAIN job.report : \A r \in DOMAIN job.report[f].rows :
      LET row == job.report[f].rows[r]
      IN row.outcome = "CREATED" =>
           /\ row.id \in DOMAIN job.mine /\ job.mine[row.id] # None
           /\ row.linked = Cardinality({t \in Types : SeenLinks[row.id][t] # None})
           /\ row.visible <=> /\ job.mine[row.id].has = {"value", "certificate"}
                              /\ \E t \in Types : SeenLinks[row.id][t] = "INFERRED"

\* A batch alone never loses its session to an award it, or an upload before it,
\* already holds (the check before the INSERT in _import_row).
NoDuplicatePoison == ~overlap /\ job # None => job.failed # "duplicate"

\* "Files rejected whole, before any row was attempted" (dto/project_import.py:104):
\* a file reported in error without rows has written nothing.  It fails: a row whose
\* vector cannot be stored takes its file's report down and stays in the batch.
RejectedFileLeavesNothing ==
  job # None /\ job.failed = None /\ job.now = None /\ job.files = <<>> /\ job.op = "import" =>
    \A i \in DOMAIN job.mine : \E f \in DOMAIN job.report : \E r \in DOMAIN job.report[f].rows :
      job.report[f].rows[r].id = i

\* "A file that fails is reported in its own entry and never aborts the batch"
\* (routers/project_import.py:36).  It fails for a value a column cannot hold.
FileNeverAborts == job # None => job.failed # "misfit"

=============================================================================
