------------------------ MODULE ProjectRegistry_proofs ------------------------
(***************************************************************************)
(* Theorems about ProjectRegistry, for any uploads, awards, texts, work    *)
(* types and bounds.  The tables and the job keep their types; what a job  *)
(* sees is consistent before it commits; an upload's report agrees with    *)
(* what it wrote, whatever runs beside it; and where nothing runs beside   *)
(* a job, a project marked indexed has the vector of its own text and no   *)
(* batch meets an award it already holds.                                  *)
(***************************************************************************)
EXTENDS ProjectRegistry, FiniteSetTheorems, TLAPS

-----------------------------------------------------------------------------
(* The writes of a job. *)

LEMMA WritesAre ==
  ASSUME NEW T, NEW w \in Writes(T)
  PROVE  DOMAIN w \subseteq Ids /\ \A i \in DOMAIN w : w[i] \in T
BY DEF Writes

LEMMA NoWrites == ASSUME NEW T PROVE <<>> \in Writes(T) /\ DOMAIN <<>> = {}
BY DEF Writes

LEMMA WritingTyped ==
  ASSUME NEW T, NEW w \in Writes(T), NEW i \in Ids, NEW x \in T
  PROVE  Writing(w, i, x) \in Writes(T)
<1>1. DOMAIN w \cup {i} \in SUBSET Ids
  BY WritesAre
<1>2. Writing(w, i, x) \in [DOMAIN w \cup {i} -> T]
  BY WritesAre DEF Writing
<1> QED BY <1>1, <1>2 DEF Writes

LEMMA WritingIs ==
  ASSUME NEW w, NEW i, NEW x
  PROVE  /\ DOMAIN Writing(w, i, x) = DOMAIN w \cup {i}
         /\ \A k \in DOMAIN w \cup {i} : Writing(w, i, x)[k] = IF k = i THEN x ELSE w[k]
BY DEF Writing

LEMMA OverTyped ==
  ASSUME NEW T, NEW w \in Writes(T), NEW table \in [Ids -> T]
  PROVE  Over(w, table) \in [Ids -> T]
BY WritesAre DEF Over

LEMMA OverIs ==
  ASSUME NEW w, NEW table, NEW i \in Ids
  PROVE  Over(w, table)[i] = IF i \in DOMAIN w THEN w[i] ELSE table[i]
BY DEF Over

LEMMA OverWriting ==
  ASSUME NEW w, NEW table, NEW i, NEW x, NEW k \in Ids
  PROVE  Over(Writing(w, i, x), table)[k] = IF k = i THEN x ELSE Over(w, table)[k]
<1>1. Over(Writing(w, i, x), table)[k]
        = IF k \in DOMAIN Writing(w, i, x) THEN Writing(w, i, x)[k] ELSE table[k]
  BY OverIs
<1>2. Over(w, table)[k] = IF k \in DOMAIN w THEN w[k] ELSE table[k]
  BY OverIs
<1>3. /\ DOMAIN Writing(w, i, x) = DOMAIN w \cup {i}
      /\ k \in DOMAIN w \cup {i} => Writing(w, i, x)[k] = IF k = i THEN x ELSE w[k]
  BY DEF Writing
<1> QED BY <1>1, <1>2, <1>3

-----------------------------------------------------------------------------
(* Types. *)

LEMMA Apart ==
  /\ None \notin Awards /\ None \notin Texts /\ None \notin Ids /\ None \notin Link
  /\ None \notin Failure /\ None \notin Project /\ None \notin RowInHand /\ None \notin JobState
BY NoneIsNothing

TablesKept == UNCHANGED <<overlap, begun, used, projects, links, types, vectors, torn>>

LEMMA JobTyped ==
  ASSUME TypeOK, job' \in JobState \cup {None}, UNCHANGED <<overlap, begun, projects, links, types, torn>>,
         used' \in used..MaxProjects, vectors' \in [Ids -> Texts \cup {None}]
  PROVE  TypeOK'
BY RegistryAssumption DEF TypeOK, Live

LEMMA NewJobTyped ==
  ASSUME TypeOK, NEW op \in {"import", "delete", "delete_all", "index", "tag", "retag"}
  PROVE  /\ NewJob(op) \in JobState
         /\ NewJob(op).op = op /\ NewJob(op).mine = <<>> /\ NewJob(op).tags = <<>>
         /\ NewJob(op).now = None /\ NewJob(op).report = <<>> /\ NewJob(op).rows = <<>>
         /\ NewJob(op).read = projects /\ NewJob(op).touched = {} /\ NewJob(op).failed = None
         /\ NewJob(op).todo = {} /\ NewJob(op).pairs = {} /\ NewJob(op).files = <<>>
BY NoWrites DEF NewJob, JobState, TypeOK

LEMMA ActiveTypes ==
  ASSUME TypeOK, NEW j \in JobState PROVE SeenActive(j) \subseteq Types
BY DEF SeenActive, Active, JobState

\* What loading the seed and listing the candidates leave alone.
Alike(j, k) ==
  /\ k.op = j.op /\ k.files = j.files /\ k.rows = j.rows /\ k.at = j.at /\ k.now = j.now
  /\ k.report = j.report /\ k.read = j.read /\ k.todo = j.todo /\ k.pairs = j.pairs
  /\ k.mine = j.mine /\ k.tags = j.tags /\ k.touched = j.touched /\ k.failed = j.failed

LEMMA EnsuredTyped ==
  ASSUME TypeOK, NEW j \in JobState
  PROVE  Ensured(j) \in JobState /\ Alike(j, Ensured(j))
<1>1. CASE SeenActive(j) # {}
  BY <1>1 DEF Ensured, Alike
<1>2. CASE SeenActive(j) = {}
  <2> DEFINE absent == {t \in Types : types[t] = "absent"}
             k == [j EXCEPT !.provisioned = absent, !.bumped = TRUE]
  <2>1. absent \in SUBSET Types
    OBVIOUS
  <2> HIDE DEF absent
  <2>2. k \in JobState /\ Alike(j, k)
    BY <2>1 DEF JobState, Alike
  <2> QED BY <1>2, <2>2 DEF Ensured, absent
<1> QED BY <1>1, <1>2

LEMMA CandidatesTyped ==
  ASSUME TypeOK, NEW j \in JobState
  PROVE  Candidates(j) \in JobState /\ Alike(j, Candidates(j))
<1>1. PICK active : active = SeenActive(j)
  OBVIOUS
<1>2. active \in SUBSET Types
  BY <1>1, ActiveTypes
<1>3. [j EXCEPT !.candidates = active] \in JobState /\ Alike(j, [j EXCEPT !.candidates = active])
  BY <1>2 DEF JobState, Alike
<1> QED BY <1>1, <1>3 DEF Candidates

LEMMA SeenTyped ==
  ASSUME TypeOK, job # None
  PROVE  /\ job \in JobState
         /\ Seen \in [Ids -> Project \cup {None}]
         /\ SeenLinks \in [Ids -> [Types -> Link \cup {None}]]
BY OverTyped DEF TypeOK, JobState, Seen, SeenLinks
-----------------------------------------------------------------------------
(* What each step does to the job. *)

\* A job at its beginning: nothing is written, nothing is in hand.
Fresh(j) ==
  /\ j \in JobState /\ j.mine = <<>> /\ j.tags = <<>> /\ j.touched = {} /\ j.failed = None
  /\ j.now = None /\ j.report = <<>> /\ j.rows = <<>> /\ j.todo \subseteq Live(projects)
  /\ j.op = "index" => \A i \in j.todo : j.read[i] # None

Started == Fresh(job') /\ begun' = begun + 1 /\ begun < MaxBegun
           /\ UNCHANGED <<overlap, used, projects, links, types, vectors, torn>> /\ job = None

LEMMA StartsFresh ==
  ASSUME TypeOK, StartImport \/ StartDelete \/ StartDeleteAll \/ StartBackfill \/ StartTagging
  PROVE  Started
<1>1. ASSUME NEW j, Fresh(j), Begin(j), Idle PROVE Started
  BY <1>1 DEF Begin, Idle, Started
<1>2. CASE StartImport
  <2>1. PICK batch, autoTag, j :
          /\ batch \in Batches /\ autoTag \in BOOLEAN
          /\ j = [NewJob("import") EXCEPT !.files = batch]
          /\ Begin(IF autoTag THEN Candidates(Ensured(j)) ELSE j)
    BY <1>2 DEF StartImport
  <2>7. PICK n : n = NewJob("import")
    OBVIOUS
  <2>8. n \in JobState /\ Fresh(n) /\ n.op = "import"
    BY <2>7, NewJobTyped DEF Fresh
  <2>9. batch \in Seq(Seq(Row) \cup {None}) /\ j = [n EXCEPT !.files = batch]
    BY <2>1, <2>7, RegistryAssumption
  <2>10. j \in JobState
    BY ONLY <2>8, <2>9 DEF JobState
  <2>11. /\ j.op = n.op /\ j.rows = n.rows /\ j.now = n.now /\ j.report = n.report /\ j.todo = n.todo
        /\ j.mine = n.mine /\ j.tags = n.tags /\ j.touched = n.touched /\ j.failed = n.failed
    BY ONLY <2>8, <2>9 DEF JobState
  <2>2. j \in JobState /\ Fresh(j) /\ j.op = "import"
    BY <2>8, <2>10, <2>11 DEF Fresh
  <2>3. PICK e : e = Ensured(j)
    OBVIOUS
  <2>4. e \in JobState /\ Fresh(e) /\ e.op = "import"
    BY <2>2, <2>3, EnsuredTyped DEF Fresh, Alike
  <2>5. PICK c : c = Candidates(e)
    OBVIOUS
  <2>6. c \in JobState /\ Fresh(c)
    BY <2>4, <2>5, CandidatesTyped DEF Fresh, Alike
  <2> QED BY <1>1, <1>2, <2>1, <2>2, <2>3, <2>5, <2>6 DEF StartImport
<1>3. ASSUME NEW op \in {"delete", "delete_all", "index"}, NEW todo \in SUBSET Live(projects),
             Begin([NewJob(op) EXCEPT !.todo = todo]), Idle
      PROVE  Started
  <2>1. todo \subseteq Ids /\ \A i \in todo : projects[i] # None
    BY DEF Live
  <2>2. PICK j : j = NewJob(op)
    OBVIOUS
  <2>3. Fresh(j) /\ j \in JobState /\ j.read = projects
    BY <2>2, NewJobTyped DEF Fresh
  <2>4. [j EXCEPT !.todo = todo] \in JobState
    BY <2>1, <2>3 DEF JobState
  <2>5. LET k == [j EXCEPT !.todo = todo] IN
        /\ k.op = j.op /\ k.read = j.read /\ k.todo = todo /\ k.rows = j.rows /\ k.now = j.now
        /\ k.report = j.report /\ k.mine = j.mine /\ k.tags = j.tags /\ k.touched = j.touched
        /\ k.failed = j.failed
    BY <2>3 DEF JobState
  <2>6. Fresh([j EXCEPT !.todo = todo])
    BY <2>1, <2>3, <2>4, <2>5 DEF Fresh
  <2> QED BY <1>1, <1>3, <2>2, <2>6
<1>4. CASE StartDelete
  BY <1>3, <1>4 DEF StartDelete
<1>5. CASE StartDeleteAll
  BY <1>3, <1>5 DEF StartDeleteAll
<1>6. CASE StartBackfill
  BY <1>3, <1>6 DEF StartBackfill
<1>7. CASE StartTagging
  <2>12. PICK retag \in BOOLEAN :
           LET e == Ensured(NewJob(IF retag THEN "retag" ELSE "tag"))
               j == Candidates(e)
           IN Begin([j EXCEPT !.pairs = (IF retag THEN Live(projects) ELSE Unlinked) \X j.candidates])
    BY <1>7 DEF StartTagging
  <2>1. PICK e, j :
          /\ e = Ensured(NewJob(IF retag THEN "retag" ELSE "tag")) /\ j = Candidates(e)
          /\ Begin([j EXCEPT !.pairs = (IF retag THEN Live(projects) ELSE Unlinked) \X j.candidates])
    BY <2>12
  <2>0. PICK n : n = NewJob(IF retag THEN "retag" ELSE "tag")
    OBVIOUS
  <2>10. n \in JobState /\ Fresh(n) /\ n.op # "index"
    BY <2>0, NewJobTyped DEF Fresh
  <2>2. e \in JobState /\ Fresh(e) /\ e.op # "index"
    BY <2>0, <2>1, <2>10, EnsuredTyped DEF Fresh, Alike
  <2>3. j \in JobState /\ Fresh(j) /\ j.op # "index"
    BY <2>1, <2>2, CandidatesTyped DEF Fresh, Alike
  <2>4. PICK pairs : pairs = (IF retag THEN Live(projects) ELSE Unlinked) \X j.candidates
    OBVIOUS
  <2>5. pairs \subseteq Ids \X Types
    BY <2>3, <2>4 DEF JobState, Live, Unlinked
  <2>6. [j EXCEPT !.pairs = pairs] \in JobState
    BY <2>3, <2>5 DEF JobState
  <2>7. LET k == [j EXCEPT !.pairs = pairs] IN
        /\ k.op = j.op /\ k.rows = j.rows /\ k.now = j.now /\ k.report = j.report /\ k.mine = j.mine
        /\ k.tags = j.tags /\ k.touched = j.touched /\ k.failed = j.failed /\ k.todo = j.todo
    BY <2>3 DEF JobState
  <2>8. Fresh([j EXCEPT !.pairs = pairs])
    BY <2>3, <2>6, <2>7 DEF Fresh
  <2> QED BY <1>1, <1>7, <2>1, <2>4, <2>8 DEF StartTagging
<1> QED BY <1>2, <1>4, <1>5, <1>6, <1>7
\* The job goes on: the same job, which has written what it had.
Goes(j, k) ==
  k.op = j.op /\ k.read = j.read /\ k.mine = j.mine /\ k.tags = j.tags /\ k.touched = j.touched

LEMMA SheetTyped ==
  ASSUME NEW j \in JobState, j.files # <<>>
  PROVE  Head(j.files) \in Seq(Row) \cup {None} /\ Tail(j.files) \in Seq(Seq(Row) \cup {None})
BY DEF JobState

LEMMA FileDoneTyped ==
  ASSUME TypeOK, job \in JobState, job.files # <<>>, NEW outcome \in {"CREATED", "ERROR"},
         NEW rows \in Seq(RowReport)
  PROVE  LET k == FileDone(outcome, rows) IN
         /\ k \in JobState /\ Goes(job, k) /\ k.failed = job.failed /\ k.todo = job.todo
         /\ k.rows = <<>> /\ k.now = None
         /\ k.report = Append(job.report, [outcome |-> outcome, rows |-> rows])
<1>1. PICK entry, rest : entry = [outcome |-> outcome, rows |-> rows] /\ rest = Tail(job.files)
  OBVIOUS
<1>2. entry \in FileReport /\ rest \in Seq(Seq(Row) \cup {None})
  BY <1>1, SheetTyped DEF FileReport
<1>3. job.report \in Seq(FileReport)
  BY DEF JobState
<1>4. PICK report : report = Append(job.report, entry)
  OBVIOUS
<1>5. report \in Seq(FileReport) /\ <<>> \in Seq(RowReport)
  BY <1>2, <1>3, <1>4
<1> DEFINE none == <<>>
           first == 1
           k == [job EXCEPT !.files = rest, !.rows = none, !.at = first, !.now = None,
                            !.report = report]
<1>6. FileDone(outcome, rows) = k
  BY <1>1, <1>4 DEF FileDone
<1>7. none \in Seq(RowReport) /\ first \in Nat \ {0}
  BY <1>5
<1> HIDE DEF none, first
<1>8. k \in JobState
  BY ONLY <1>2, <1>5, <1>7, job \in JobState DEF JobState
<1>9. Goes(job, k) /\ k.failed = job.failed /\ k.todo = job.todo
  BY DEF JobState, Goes
<1>10. k.rows = none /\ k.now = None /\ k.report = report
  BY DEF JobState
<1> HIDE DEF k
<1> QED BY <1>1, <1>4, <1>6, <1>8, <1>9, <1>10 DEF none

LEMMA ReportTyped ==
  ASSUME TypeOK, job \in JobState, NEW row \in RowReport
  PROVE  LET k == Report(job, row.outcome, row.id, row.linked, row.visible) IN
         /\ k \in JobState /\ Goes(job, k) /\ k.failed = job.failed /\ k.todo = job.todo
         /\ k.now = None /\ k.rows = Append(job.rows, row) /\ k.report = job.report
<1>1. row = [outcome |-> row.outcome, id |-> row.id, linked |-> row.linked, visible |-> row.visible]
  BY DEF RowReport
<1>2. job.rows \in Seq(RowReport) /\ job.at \in Nat \ {0}
  BY DEF JobState
<1>3. PICK rows, at : rows = Append(job.rows, row) /\ at = job.at + 1
  OBVIOUS
<1>4. rows \in Seq(RowReport) /\ at \in Nat \ {0}
  BY <1>2, <1>3
<1> DEFINE k == [job EXCEPT !.now = None, !.at = at, !.rows = rows]
<1>5. k \in JobState
  BY <1>4 DEF JobState
<1>6. /\ Goes(job, k) /\ k.failed = job.failed /\ k.todo = job.todo
      /\ k.now = None /\ k.rows = rows /\ k.report = job.report
  BY DEF JobState, Goes
<1>7. Report(job, row.outcome, row.id, row.linked, row.visible) = k
  BY <1>1, <1>3 DEF Report
<1> HIDE DEF k
<1> QED BY <1>3, <1>5, <1>6, <1>7

\* A step that writes nothing of the import: a file or a row is reported, or a row taken
\* in hand.
Stays == job \in JobState /\ job' \in JobState /\ TablesKept /\ Goes(job, job')
         /\ job'.failed = job.failed /\ job'.todo = job.todo

LEMMA RejectFileStep ==
  ASSUME TypeOK, RejectFile
  PROVE  /\ Stays /\ job.failed = None /\ job.op = "import" /\ job'.rows = <<>> /\ job'.now = None
         /\ job'.report = Append(job.report, [outcome |-> "ERROR", rows |-> <<>>])
<1>1. job \in JobState /\ job.files # <<>> /\ job.op = "import" /\ job.failed = None
  BY DEF TypeOK, RejectFile, Importing, Running
<1>2. PICK rows : rows = <<>>
  OBVIOUS
<1>3. TablesKept /\ job' = FileDone("ERROR", rows)
  BY <1>2 DEF RejectFile, Only, TablesKept
<1>4. rows \in Seq(RowReport)
  BY <1>2
<1>5. LET k == FileDone("ERROR", rows) IN
      /\ k \in JobState /\ Goes(job, k) /\ k.failed = job.failed /\ k.todo = job.todo
      /\ k.rows = <<>> /\ k.now = None
      /\ k.report = Append(job.report, [outcome |-> "ERROR", rows |-> rows])
  BY <1>1, <1>4, FileDoneTyped
<1> QED BY <1>1, <1>2, <1>3, <1>5 DEF Stays

LEMMA EndFileStep ==
  ASSUME TypeOK, EndFile
  PROVE  /\ Stays /\ job.failed = None /\ job.op = "import" /\ job'.rows = <<>> /\ job'.now = None
         /\ job.now = None
         /\ \E outcome : job'.report = Append(job.report, [outcome |-> outcome, rows |-> job.rows])
<1>1. job \in JobState /\ job.files # <<>> /\ job.now = None /\ job.op = "import" /\ job.failed = None
  BY DEF TypeOK, EndFile, Importing, Running
<1>2. PICK outcome \in {"CREATED", "ERROR"} : TablesKept /\ job' = FileDone(outcome, job.rows)
  BY DEF EndFile, Only, TablesKept
<1>3. job.rows \in Seq(RowReport)
  BY <1>1 DEF JobState
<1>4. PICK rows : rows = job.rows
  OBVIOUS
<1>5. LET k == FileDone(outcome, rows) IN
      /\ k \in JobState /\ Goes(job, k) /\ k.failed = job.failed /\ k.todo = job.todo
      /\ k.rows = <<>> /\ k.now = None
      /\ k.report = Append(job.report, [outcome |-> outcome, rows |-> rows])
  BY <1>1, <1>3, <1>4, FileDoneTyped
<1> QED BY <1>1, <1>2, <1>4, <1>5 DEF Stays

\* A row is passed over, or is of an award that is not there yet.
LEMMA ReadRowStep ==
  ASSUME TypeOK, ReadRow
  PROVE  /\ Stays /\ job.failed = None /\ job.op = "import" /\ job.now = None
         /\ job'.report = job.report
         /\ \/ /\ job'.now = None
               /\ \E row \in RowReport : row.outcome # "CREATED" /\ job'.rows = Append(job.rows, row)
            \/ /\ job'.now # None /\ job'.rows = job.rows
               /\ job'.now.id = None /\ job'.now.linked = 0 /\ job'.now.todo = {}
               /\ OfAward(Seen, job'.now.row.award) = {}
<1>1. job \in JobState /\ job.now = None /\ job.op = "import" /\ job.failed = None
  BY DEF TypeOK, ReadRow, Importing, Running
<1>2. Sheet[job.at] \in Row
  <2>1. Sheet \in Seq(Row)
    BY <1>1, SheetTyped DEF ReadRow, Importing, Sheet
  <2>2. job.at \in Nat \ {0} /\ job.at <= Len(Sheet)
    BY <1>1 DEF JobState, ReadRow
  <2> QED BY <2>1, <2>2
<1>3. PICK row, same : row = Sheet[job.at] /\ same = OfAward(Seen, row.award)
  OBVIOUS
<1>4. TablesKept
  BY DEF ReadRow, Only, TablesKept
<1>5. CASE row.text = None \/ same # {}
  <2>1. PICK r \in RowReport :
          /\ r.outcome # "CREATED"
          /\ job' = Report(job, r.outcome, r.id, r.linked, r.visible)
    <3>1. CASE row.text = None
      <4> DEFINE r == [outcome |-> "ERROR", id |-> None, linked |-> 0, visible |-> FALSE]
      <4>1. r \in RowReport
        BY DEF RowReport
      <4>2. job' = Report(job, r.outcome, r.id, r.linked, r.visible)
        BY <1>3, <3>1 DEF ReadRow, Only
      <4> QED BY <4>1, <4>2
    <3>2. CASE row.text # None /\ same # {}
      <4>1. PICK i : i = CHOOSE k \in same : TRUE
        OBVIOUS
      <4>2. i \in Ids
        BY <1>3, <3>2, <4>1 DEF OfAward, Live
      <4> DEFINE r == [outcome |-> "SKIPPED", id |-> i, linked |-> 0, visible |-> FALSE]
      <4>3. r \in RowReport
        BY <4>2 DEF RowReport
      <4>4. job' = Report(job, "SKIPPED", CHOOSE k \in same : TRUE, 0, FALSE)
        BY <1>3, <3>2 DEF ReadRow, Only
      <4>5. job' = Report(job, r.outcome, r.id, r.linked, r.visible)
        BY <4>1, <4>4
      <4> QED BY <4>3, <4>5
    <3> QED BY <1>5, <3>1, <3>2
  <2> QED BY <1>1, <1>4, <2>1, ReportTyped DEF Stays
<1>6. CASE row.text # None /\ same = {}
  <2> DEFINE now == [row |-> row, id |-> None, todo |-> {}, linked |-> 0]
  <2>1. now \in RowInHand
    BY <1>2, <1>3, <1>6 DEF RowInHand
  <2>2. now # None
    BY <2>1, Apart
  <2>3. job' = [job EXCEPT !.now = now]
    BY <1>3, <1>6 DEF ReadRow, Only
  <2>4. now.id = None /\ now.linked = 0 /\ now.todo = {} /\ now.row = row
    OBVIOUS
  <2> HIDE DEF now
  <2>5. job' \in JobState
    BY <1>1, <2>1, <2>3 DEF JobState
  <2>6. /\ Goes(job, job') /\ job'.failed = job.failed /\ job'.todo = job.todo
        /\ job'.now = now /\ job'.rows = job.rows /\ job'.report = job.report
    BY <1>1, <2>3 DEF JobState, Goes
  <2> QED BY <1>1, <1>3, <1>4, <1>6, <2>2, <2>4, <2>5, <2>6 DEF Stays
<1> QED BY <1>5, <1>6
\* A row of the import is written: the job reads what it read, its reports are as they were.
Same(j, k) ==
  k.op = j.op /\ k.read = j.read /\ k.report = j.report /\ k.rows = j.rows /\ k.todo = j.todo

LEMMA HandTyped ==
  ASSUME TypeOK, InHand
  PROVE  /\ job \in JobState /\ job.op = "import" /\ job.failed = None /\ job.files # <<>>
         /\ job.now \in RowInHand /\ job.now # None
         /\ job.now.row \in Row /\ job.now.row.text \in Texts /\ job.now.id \in Ids \cup {None}
         /\ job.now.todo \subseteq Types /\ job.now.linked \in Nat
         /\ job.now.row.award \in Awards \cup {None} /\ job.now.row.has \in Evidence
<1>1. job \in JobState /\ job.op = "import" /\ job.failed = None /\ job.files # <<>> /\ job.now # None
  BY DEF TypeOK, InHand, Importing, Running
<1>2. job.now \in RowInHand
  BY <1>1 DEF JobState
<1>3. job.now.row \in Row /\ job.now.row.text # None
  BY <1>2 DEF RowInHand
<1> QED BY <1>1, <1>2, <1>3 DEF RowInHand, Row

\* The row is reported in error, since the seed it needs cannot be read.
LEMMA RefuseRowStep ==
  ASSUME TypeOK, RefuseRow
  PROVE  /\ Stays /\ job.failed = None /\ job.op = "import" /\ job'.now = None
         /\ job'.report = job.report
         /\ \E row \in RowReport : row.outcome # "CREATED" /\ job'.rows = Append(job.rows, row)
<1>1. job \in JobState /\ job.op = "import" /\ job.failed = None
  BY HandTyped DEF RefuseRow
<1> DEFINE row == [outcome |-> "ERROR", id |-> None, linked |-> 0, visible |-> FALSE]
<1>2. row \in RowReport /\ row.outcome # "CREATED"
  BY DEF RowReport
<1>3. TablesKept /\ job' = Report(job, row.outcome, row.id, row.linked, row.visible)
  BY DEF RefuseRow, Only, TablesKept
<1> HIDE DEF row
<1> QED BY <1>1, <1>2, <1>3, ReportTyped DEF Stays

\* The row is refused by the database, or written as a new project.
LEMMA AddRowStep ==
  ASSUME TypeOK, AddRow
  PROVE  /\ job \in JobState /\ job' \in JobState /\ job.op = "import" /\ job.failed = None
         /\ job.now # None /\ job'.now # None /\ job.now.id = None /\ Same(job, job')
         /\ job'.tags = job.tags /\ job'.touched = job.touched
         /\ UNCHANGED <<overlap, begun, projects, links, types, vectors, torn>>
         /\ \/ /\ UNCHANGED used /\ job'.mine = job.mine /\ job'.now = job.now
               /\ job'.failed = "duplicate" => OfAward(Seen, job.now.row.award) # {}
            \/ /\ used < MaxProjects /\ used' = used + 1
               /\ OfAward(Seen, job.now.row.award) = {}
               /\ job'.mine = Writing(job.mine, used + 1,
                    [award |-> job.now.row.award, text |-> job.now.row.text,
                     has |-> job.now.row.has, indexed |-> FALSE])
               /\ job'.now.id = used + 1 /\ job'.now.row = job.now.row
               /\ job'.now.linked = job.now.linked /\ job'.now.todo = job.now.todo
               /\ job'.failed = None
<1>1. /\ job \in JobState /\ job.op = "import" /\ job.failed = None /\ job.now \in RowInHand
      /\ job.now.row \in Row /\ job.now.row.text \in Texts
      /\ job.now.row.award \in Awards \cup {None} /\ job.now # None /\ job.now.id = None
      /\ job.now.row.has \in Evidence
  BY HandTyped DEF AddRow
<1>2. PICK j, clash : j = Ensured(job) /\ clash = (OfAward(Seen, job.now.row.award) # {})
  OBVIOUS
<1>3. j \in JobState /\ Alike(job, j)
  BY <1>1, <1>2, EnsuredTyped
<1>4. CASE clash \/ ~job.now.row.fits
  <2>1. PICK failure \in {"duplicate", "misfit"} :
          /\ job' = [j EXCEPT !.failed = failure] /\ (failure = "duplicate" => clash)
    BY <1>2, <1>4 DEF AddRow, Only
  <2>2. UNCHANGED <<overlap, begun, used, projects, links, types, vectors, torn>>
    BY <1>2, <1>4 DEF AddRow, Only
  <2>3. failure \in Failure \cup {None}
    BY DEF Failure
  <2>4. job' \in JobState
    BY ONLY <1>3, <2>1, <2>3 DEF JobState
  <2>5. /\ job'.failed = failure /\ job'.op = j.op /\ job'.read = j.read /\ job'.report = j.report
        /\ job'.rows = j.rows /\ job'.todo = j.todo /\ job'.tags = j.tags
        /\ job'.touched = j.touched /\ job'.mine = j.mine /\ job'.now = j.now
    BY ONLY <1>3, <2>1 DEF JobState
  <2> QED BY ONLY <1>1, <1>2, <1>3, <2>1, <2>2, <2>4, <2>5 DEF Alike, Same
<1>5. CASE ~clash /\ job.now.row.fits
  <2> DEFINE p == [award |-> job.now.row.award, text |-> job.now.row.text,
                has |-> job.now.row.has, indexed |-> FALSE]
  <2>1. PICK i, mine, now : /\ i = used + 1 /\ mine = Writing(job.mine, i, p)
                            /\ now = [job.now EXCEPT !.id = i]
    OBVIOUS
  <2>2. /\ used < MaxProjects /\ used' = i
        /\ job' = [j EXCEPT !.now.id = i, !.mine = Writing(@, i, p)]
        /\ UNCHANGED <<overlap, begun, projects, links, types, vectors, torn>>
    BY <1>2, <1>5, <2>1 DEF AddRow
  <2>3. i \in Ids
    BY <2>1, <2>2, RegistryAssumption DEF TypeOK, Ids
  <2>4. p \in Project \cup {None}
    BY <1>1 DEF Project
  <2> HIDE DEF p
  <2>5. mine \in Writes(Project \cup {None})
    <3>1. job.mine \in Writes(Project \cup {None})
      BY <1>1 DEF JobState
    <3> QED BY <2>1, <2>3, <2>4, <3>1, WritingTyped
  <2>6. /\ now \in RowInHand /\ now.id = i /\ now.row = job.now.row
        /\ now.linked = job.now.linked /\ now.todo = job.now.todo
    BY ONLY <1>1, <2>1, <2>3 DEF RowInHand
  <2>7. now # None
    BY <2>6, Apart
  <2>8. job' = [j EXCEPT !.now = now, !.mine = mine]
    BY ONLY <1>3, <2>1, <2>2 DEF Alike, JobState
  <2>9. job' \in JobState
    BY ONLY <1>3, <2>5, <2>6, <2>8 DEF JobState
  <2>10. /\ job'.failed = j.failed /\ job'.op = j.op /\ job'.read = j.read /\ job'.report = j.report
         /\ job'.rows = j.rows /\ job'.todo = j.todo /\ job'.tags = j.tags
         /\ job'.touched = j.touched /\ job'.mine = mine /\ job'.now = now
    BY ONLY <1>3, <2>8 DEF JobState
  <2> QED BY ONLY <1>1, <1>2, <1>3, <1>5, <2>1, <2>2, <2>6, <2>7, <2>9, <2>10 DEF Alike, Same, p
<1> QED BY <1>1, <1>4, <1>5, HandTyped DEF AddRow, RowInHand, Row
\* The new row is indexed, or its file given up.
LEMMA IndexRowStep ==
  ASSUME TypeOK, IndexRow, job.now.id \in DOMAIN job.mine, job.mine[job.now.id] # None
  PROVE  /\ job \in JobState /\ job' \in JobState /\ job.op = "import" /\ job.failed = None
         /\ job.now # None /\ job.now.id \in Ids /\ job'.failed = None
         /\ job'.tags = job.tags /\ ~job.mine[job.now.id].indexed
         /\ \/ /\ Stays /\ job'.now = None /\ job'.rows = <<>>
               /\ job'.report = Append(job.report, [outcome |-> "ERROR", rows |-> <<>>])
            \/ /\ Same(job, job') /\ job'.now # None
               /\ UNCHANGED <<overlap, begun, used, projects, links, types, torn>>
               /\ vectors' = [vectors EXCEPT ![job.now.id] = job.now.row.text]
               /\ job.now.row.text \in Texts
               /\ job'.mine = Writing(job.mine, job.now.id, [job.mine[job.now.id] EXCEPT !.indexed = TRUE])
               /\ job'.touched = job.touched \cup {job.now.id}
               /\ job'.now.id = job.now.id /\ job'.now.row = job.now.row
               /\ job'.now.linked = job.now.linked /\ job'.now.todo \subseteq Types
<1>1. /\ job \in JobState /\ job.op = "import" /\ job.failed = None /\ job.now \in RowInHand
      /\ job.now # None /\ job.now.id \in Ids /\ ~Seen[job.now.id].indexed
      /\ job.now.row \in Row /\ job.now.row.text \in Texts /\ job.files # <<>>
  BY HandTyped DEF IndexRow
<1>2. PICK i, text, todo :
        /\ i = job.now.id /\ text = job.now.row.text /\ todo = Matches[text] \cap job.candidates
  OBVIOUS
<1>3. job.mine \in Writes(Project \cup {None}) /\ job.mine[i] \in Project /\ ~job.mine[i].indexed
  <2>1. job.mine \in Writes(Project \cup {None})
    BY <1>1 DEF JobState
  <2>2. Seen[i] = job.mine[i]
    BY <1>1, <1>2, OverIs DEF Seen
  <2> QED BY <1>1, <1>2, <2>1, <2>2, WritesAre
<1>4. CASE /\ vectors' = [vectors EXCEPT ![i] = text]
           /\ job' = [job EXCEPT !.mine[i].indexed = TRUE, !.touched = @ \cup {i}, !.now.todo = todo]
           /\ UNCHANGED <<overlap, begun, used, projects, links, types, torn>>
  <2>1. todo \in SUBSET Types
    BY <1>1, <1>2 DEF JobState
  <2>2. PICK p, mine, now, touched :
          /\ p = [job.mine[i] EXCEPT !.indexed = TRUE] /\ mine = Writing(job.mine, i, p)
          /\ now = [job.now EXCEPT !.todo = todo] /\ touched = job.touched \cup {i}
    OBVIOUS
  <2>3. p \in Project \cup {None}
    BY <1>3, <2>2 DEF Project
  <2>4. mine \in Writes(Project \cup {None})
    BY <1>1, <1>2, <1>3, <2>2, <2>3, WritingTyped
  <2>5. /\ now \in RowInHand /\ now.id = job.now.id /\ now.row = job.now.row
        /\ now.linked = job.now.linked /\ now.todo = todo
    BY ONLY <1>1, <2>1, <2>2 DEF RowInHand
  <2>6. now # None /\ touched \in SUBSET Ids
    BY <1>1, <1>2, <2>2, <2>5, Apart DEF JobState
  <2>7. [job.mine EXCEPT ![i].indexed = TRUE] = mine
    <3>1. PICK W \in SUBSET Ids : job.mine \in [W -> Project \cup {None}]
      BY <1>3 DEF Writes
    <3>2. [job.mine EXCEPT ![i].indexed = TRUE] = [k \in W |-> IF k = i THEN p ELSE job.mine[k]]
      BY <2>2, <3>1
    <3>3. DOMAIN job.mine \cup {i} = W
      BY <1>2, <3>1
    <3>4. mine = [k \in W |-> IF k = i THEN p ELSE job.mine[k]]
      BY ONLY <2>2, <3>3 DEF Writing
    <3> QED BY ONLY <3>2, <3>4
  <2>8. job' = [job EXCEPT !.mine = mine, !.touched = touched, !.now = now]
    BY ONLY <1>1, <1>4, <2>2, <2>7 DEF JobState
  <2>9. job' \in JobState
    BY ONLY <1>1, <2>4, <2>5, <2>6, <2>8 DEF JobState
  <2>10. /\ job'.failed = job.failed /\ job'.op = job.op /\ job'.read = job.read
         /\ job'.report = job.report /\ job'.rows = job.rows /\ job'.todo = job.todo
         /\ job'.tags = job.tags /\ job'.touched = touched /\ job'.mine = mine /\ job'.now = now
    BY ONLY <1>1, <2>8 DEF JobState
  <2> QED BY ONLY <1>1, <1>2, <1>3, <1>4, <2>1, <2>2, <2>5, <2>6, <2>9, <2>10 DEF Same
<1>5. CASE Only(FileDone("ERROR", <<>>))
  <2>1. PICK rows : rows = <<>>
    OBVIOUS
  <2>2. LET k == FileDone("ERROR", rows) IN
        /\ k \in JobState /\ Goes(job, k) /\ k.failed = job.failed /\ k.todo = job.todo
        /\ k.rows = <<>> /\ k.now = None
        /\ k.report = Append(job.report, [outcome |-> "ERROR", rows |-> rows])
    <3>1. rows \in Seq(RowReport)
      BY <2>1
    <3> QED BY <1>1, <3>1, FileDoneTyped
  <2> QED BY <1>1, <1>2, <1>3, <1>5, <2>1, <2>2 DEF Stays, Goes, Only, TablesKept
<1> QED BY <1>2, <1>4, <1>5 DEF IndexRow

\* A link written by the job.
LEMMA TaggedTyped ==
  ASSUME TypeOK, job \in JobState, NEW j \in JobState, j.tags = job.tags, NEW i \in Ids, NEW t \in Types
  PROVE  LET k == Tagged(j, i, t) IN
         /\ k \in JobState /\ k.op = j.op /\ k.rows = j.rows /\ k.now = j.now /\ k.report = j.report
         /\ k.read = j.read /\ k.todo = j.todo /\ k.mine = j.mine /\ k.touched = j.touched
         /\ k.failed = j.failed
         /\ k.tags = IF Seen[i] # None /\ t \in SeenActive(j)
                     THEN Writing(job.tags, i, [SeenLinks[i] EXCEPT ![t] = "INFERRED"]) ELSE job.tags
<1>1. PICK row, tags : /\ row = [SeenLinks[i] EXCEPT ![t] = "INFERRED"]
                       /\ tags = Writing(job.tags, i, row)
  OBVIOUS
<1>2. job # None
  BY Apart
<1>3. row \in [Types -> Link \cup {None}]
  BY <1>1, <1>2, SeenTyped DEF Link
<1>4. job.tags \in Writes([Types -> Link \cup {None}])
  BY DEF JobState
<1>5. tags \in Writes([Types -> Link \cup {None}])
  BY <1>1, <1>3, <1>4, WritingTyped
<1> DEFINE k == [j EXCEPT !.tags = tags, !.bumped = TRUE]
<1>6. k \in JobState
  BY ONLY <1>5, j \in JobState DEF JobState
<1>7. /\ k.op = j.op /\ k.rows = j.rows /\ k.now = j.now /\ k.report = j.report
      /\ k.read = j.read /\ k.todo = j.todo /\ k.mine = j.mine /\ k.touched = j.touched
      /\ k.failed = j.failed /\ k.tags = tags
  BY ONLY j \in JobState DEF JobState
<1>8. Tagged(j, i, t) = IF Seen[i] # None /\ t \in SeenActive(j) THEN k ELSE j
  BY <1>1 DEF Tagged
<1> HIDE DEF k
<1> QED BY <1>1, <1>6, <1>7, <1>8
\* A match is linked and counted, or refused and passed over.
LEMMA TagRowStep ==
  ASSUME TypeOK, TagRow
  PROVE  /\ job \in JobState /\ job' \in JobState /\ job.op = "import" /\ job.failed = None
         /\ job.now # None /\ job'.now # None /\ job.now.id \in Ids /\ job'.failed = None
         /\ TablesKept /\ Same(job, job') /\ job'.mine = job.mine /\ job'.touched = job.touched
         /\ Seen[job.now.id].indexed /\ job.now.linked \in Nat
         /\ job'.now.id = job.now.id /\ job'.now.row = job.now.row
         /\ \E t \in job.now.todo :
              /\ t \in Types /\ job'.now.todo = job.now.todo \ {t}
              /\ \/ /\ job'.now.linked = job.now.linked + 1 /\ Seen[job.now.id] # None
                    /\ job'.tags = Writing(job.tags, job.now.id,
                                           [SeenLinks[job.now.id] EXCEPT ![t] = "INFERRED"])
                 \/ job'.now.linked = job.now.linked /\ job'.tags = job.tags
<1>1. /\ job \in JobState /\ job.op = "import" /\ job.failed = None /\ job.now \in RowInHand
      /\ job.now # None /\ job.now.id \in Ids /\ job.now.row \in Row
      /\ job.now.todo \subseteq Types /\ job.now.linked \in Nat
  BY HandTyped DEF TagRow
<1>2. PICK i : i = job.now.id
  OBVIOUS
<1>17. PICK t \in job.now.todo :
         job' = [Tagged(job, i, t) EXCEPT !.now.todo = @ \ {t},
                   !.now.linked = IF Counts(i, t) THEN @ + 1 ELSE @]
  BY <1>2 DEF TagRow, Only
<1>3. PICK k :
        /\ t \in job.now.todo /\ k = Tagged(job, i, t)
        /\ job' = [k EXCEPT !.now.todo = @ \ {t}, !.now.linked = IF Counts(i, t) THEN @ + 1 ELSE @]
  BY <1>17
<1>4. TablesKept /\ Seen[i].indexed
  BY <1>2 DEF TagRow, Only, TablesKept
<1>5. /\ k \in JobState /\ k.op = job.op /\ k.rows = job.rows /\ k.now = job.now
      /\ k.report = job.report /\ k.read = job.read /\ k.todo = job.todo /\ k.mine = job.mine
      /\ k.touched = job.touched /\ k.failed = job.failed
      /\ k.tags = IF Seen[i] # None /\ t \in SeenActive(job)
                  THEN Writing(job.tags, i, [SeenLinks[i] EXCEPT ![t] = "INFERRED"]) ELSE job.tags
  BY <1>1, <1>2, <1>3, TaggedTyped
<1>6. PICK linked, todo, now :
        /\ linked = (IF Counts(i, t) THEN job.now.linked + 1 ELSE job.now.linked)
        /\ todo = job.now.todo \ {t} /\ now = [job.now EXCEPT !.todo = todo, !.linked = linked]
  OBVIOUS
<1>7. linked \in Nat /\ todo \in SUBSET Types
  BY <1>1, <1>6
<1>8. /\ now \in RowInHand /\ now.id = job.now.id /\ now.row = job.now.row
      /\ now.linked = linked /\ now.todo = todo
  BY ONLY <1>1, <1>6, <1>7 DEF RowInHand
<1>9. now # None
  BY <1>8, Apart
<1>10. job' = [k EXCEPT !.now = now]
  BY ONLY <1>1, <1>3, <1>5, <1>6 DEF JobState, RowInHand
<1>11. job' \in JobState
  BY ONLY <1>5, <1>8, <1>10 DEF JobState
<1>12. /\ job'.op = k.op /\ job'.rows = k.rows /\ job'.now = now /\ job'.report = k.report
       /\ job'.read = k.read /\ job'.todo = k.todo /\ job'.mine = k.mine
       /\ job'.touched = k.touched /\ job'.failed = k.failed /\ job'.tags = k.tags
  BY ONLY <1>5, <1>10 DEF JobState
<1>13. t \in Types /\ (Counts(i, t) <=> Seen[i] # None /\ t \in SeenActive(job))
  BY <1>1 DEF Counts
<1>14. \/ /\ linked = job.now.linked + 1 /\ Seen[i] # None
          /\ k.tags = Writing(job.tags, i, [SeenLinks[i] EXCEPT ![t] = "INFERRED"])
       \/ linked = job.now.linked /\ k.tags = job.tags
  BY <1>5, <1>6, <1>13
<1>15. /\ t \in Types /\ job'.now.todo = job.now.todo \ {t}
       /\ \/ /\ job'.now.linked = job.now.linked + 1 /\ Seen[job.now.id] # None
             /\ job'.tags = Writing(job.tags, job.now.id,
                                    [SeenLinks[job.now.id] EXCEPT ![t] = "INFERRED"])
          \/ job'.now.linked = job.now.linked /\ job'.tags = job.tags
  BY ONLY <1>2, <1>6, <1>8, <1>12, <1>13, <1>14
<1>16. /\ Same(job, job') /\ job'.mine = job.mine /\ job'.touched = job.touched
       /\ job'.now.id = job.now.id /\ job'.now.row = job.now.row /\ job'.failed = job.failed
       /\ job'.now # None
  BY ONLY <1>5, <1>8, <1>9, <1>12 DEF Same
<1> QED BY <1>1, <1>2, <1>4, <1>11, <1>15, <1>16

\* The row is reported with what it counted.
LEMMA FinishRowStep ==
  ASSUME TypeOK, FinishRow
  PROVE  /\ Stays /\ job.failed = None /\ job.op = "import" /\ job.now # None /\ job'.now = None
         /\ job.now.id \in Ids /\ job'.report = job.report
         /\ \E row \in RowReport :
              /\ row.outcome = "CREATED" /\ row.id = job.now.id /\ row.linked = job.now.linked
              /\ row.visible = Visible(job.now.row.has, job.now.linked)
              /\ job'.rows = Append(job.rows, row)
<1>1. /\ job \in JobState /\ job.op = "import" /\ job.failed = None /\ job.now # None
      /\ job.now.id \in Ids /\ job.now.linked \in Nat
  BY HandTyped DEF FinishRow
<1> DEFINE row == [outcome |-> "CREATED", id |-> job.now.id, linked |-> job.now.linked,
                   visible |-> Visible(job.now.row.has, job.now.linked)]
<1>2. row \in RowReport
  BY <1>1 DEF RowReport, Visible
<1>3. TablesKept /\ job' = Report(job, row.outcome, row.id, row.linked, row.visible)
  BY DEF FinishRow, Only, TablesKept
<1>4. /\ row.outcome = "CREATED" /\ row.id = job.now.id /\ row.linked = job.now.linked
      /\ row.visible = Visible(job.now.row.has, job.now.linked)
  OBVIOUS
<1> HIDE DEF row
<1>5. LET k == Report(job, row.outcome, row.id, row.linked, row.visible) IN
      /\ k \in JobState /\ Goes(job, k) /\ k.failed = job.failed /\ k.todo = job.todo
      /\ k.now = None /\ k.rows = Append(job.rows, row) /\ k.report = job.report
  BY <1>1, <1>2, ReportTyped
<1> QED BY <1>1, <1>2, <1>3, <1>4, <1>5 DEF Stays
\* A project of the selection is deleted, its vector too when the store answers.
LEMMA DeleteNextStep ==
  ASSUME TypeOK, DeleteNext
  PROVE  /\ job \in JobState /\ job' \in JobState /\ job.op \in {"delete", "delete_all"}
         /\ job'.op = job.op /\ job'.read = job.read /\ job'.report = job.report
         /\ job'.rows = job.rows /\ job'.now = job.now /\ job.failed = None /\ job'.failed = None
         /\ UNCHANGED <<overlap, begun, used, projects, links, types, torn>>
         /\ \E i \in job.todo :
              /\ i \in Ids /\ job'.todo = job.todo \ {i}
              /\ vectors' \in {vectors, [vectors EXCEPT ![i] = None]}
              /\ job'.mine = Writing(job.mine, i, None) /\ job'.tags = Writing(job.tags, i, NoLinks)
              /\ job'.touched = job.touched \cup {i}
<1>1. job \in JobState /\ job.op \in {"delete", "delete_all"} /\ job.failed = None
  BY DEF TypeOK, DeleteNext, Running
<1>2. UNCHANGED <<overlap, begun, used, projects, links, types, torn>>
  BY DEF DeleteNext
<1>3. PICK i \in job.todo :
        /\ vectors' \in {vectors, [vectors EXCEPT ![i] = None]}
        /\ job' = [job EXCEPT !.todo = @ \ {i}, !.mine = Writing(@, i, None),
                              !.tags = Writing(@, i, NoLinks), !.touched = @ \cup {i}]
  BY DEF DeleteNext
<1>4. PICK todo, mine, tags, touched :
        /\ todo = job.todo \ {i} /\ mine = Writing(job.mine, i, None)
        /\ tags = Writing(job.tags, i, NoLinks) /\ touched = job.touched \cup {i}
  OBVIOUS
<1>5. job' = [job EXCEPT !.todo = todo, !.mine = mine, !.tags = tags, !.touched = touched]
  BY <1>3, <1>4
<1>6. i \in Ids /\ todo \in SUBSET Ids /\ touched \in SUBSET Ids
  BY <1>1, <1>4 DEF JobState
<1>7. job.mine \in Writes(Project \cup {None}) /\ job.tags \in Writes([Types -> Link \cup {None}])
  BY <1>1 DEF JobState
<1>8. NoLinks \in [Types -> Link \cup {None}]
  BY DEF NoLinks
<1>9. mine \in Writes(Project \cup {None}) /\ tags \in Writes([Types -> Link \cup {None}])
  BY <1>4, <1>6, <1>7, <1>8, WritingTyped
<1>10. job' \in JobState
  BY ONLY <1>1, <1>6, <1>9, <1>5 DEF JobState
<1>11. /\ job'.op = job.op /\ job'.read = job.read /\ job'.report = job.report
      /\ job'.rows = job.rows /\ job'.now = job.now /\ job'.failed = job.failed
      /\ job'.todo = todo /\ job'.mine = mine /\ job'.tags = tags /\ job'.touched = touched
  BY ONLY <1>1, <1>5 DEF JobState
<1> QED BY ONLY <1>1, <1>2, <1>4, <1>6, <1>10, <1>11, <1>3

LEMMA ListAgainStep ==
  ASSUME TypeOK, ListAgain
  PROVE  /\ job \in JobState /\ job' \in JobState /\ TablesKept /\ Goes(job, job')
         /\ job.op = "delete_all" /\ job'.report = job.report /\ job'.rows = job.rows
         /\ job'.now = job.now /\ job.failed = None /\ job'.failed = None
         /\ job'.todo = Live(Seen)
<1>1. job \in JobState /\ job.failed = None /\ job.op = "delete_all"
  BY DEF TypeOK, ListAgain, Running
<1>2. PICK todo : todo = Live(Seen)
  OBVIOUS
<1>3. TablesKept /\ job' = [job EXCEPT !.todo = todo]
  BY <1>2 DEF ListAgain, Only, TablesKept
<1>4. todo \in SUBSET Ids
  BY <1>2 DEF Live
<1>5. job' \in JobState
  BY ONLY <1>1, <1>3, <1>4 DEF JobState
<1>6. /\ Goes(job, job') /\ job'.report = job.report /\ job'.rows = job.rows
      /\ job'.now = job.now /\ job'.failed = job.failed /\ job'.todo = todo
  BY ONLY <1>1, <1>3 DEF JobState, Goes
<1> QED BY <1>1, <1>2, <1>3, <1>5, <1>6

\* A project is indexed again, or the script stops: the store failed, or the row is gone.
LEMMA BackfillNextStep ==
  ASSUME TypeOK, BackfillNext, \A i \in job.todo : job.read[i] # None
  PROVE  /\ job \in JobState /\ job' \in JobState /\ job.op = "index"
         /\ job'.op = job.op /\ job'.read = job.read /\ job'.report = job.report
         /\ job'.rows = job.rows /\ job'.now = job.now /\ job.failed = None
         /\ job'.tags = job.tags /\ job'.todo \subseteq job.todo
         /\ UNCHANGED <<overlap, begun, used, projects, links, types, torn>>
         /\ \/ /\ UNCHANGED vectors /\ job'.mine = job.mine /\ job'.touched = job.touched
               /\ job'.failed = "vector"
            \/ \E i \in job.todo :
                 /\ i \in Ids /\ job.read[i] \in Project /\ job'.touched = job.touched \cup {i}
                 /\ vectors' = [vectors EXCEPT ![i] = job.read[i].text]
                 /\ \/ job'.mine = job.mine /\ job'.failed = "gone"
                    \/ /\ Seen[i] # None /\ OfAward(Seen, job.read[i].award) \ {i} = {}
                       /\ job'.mine = Writing(job.mine, i, [job.read[i] EXCEPT !.indexed = TRUE])
                       /\ job'.failed = None
<1>1. job \in JobState /\ job.op = "index" /\ job.failed = None
  BY DEF TypeOK, BackfillNext, Running
<1>2. PICK i \in job.todo :
        \/ /\ vectors' = [vectors EXCEPT ![i] = job.read[i].text]
           /\ job' = IF Seen[i] = None \/ OfAward(Seen, job.read[i].award) \ {i} # {}
                     THEN [job EXCEPT !.failed = "gone", !.touched = @ \cup {i}]
                     ELSE [job EXCEPT !.todo = @ \ {i}, !.touched = @ \cup {i},
                             !.mine = Writing(@, i, [job.read[i] EXCEPT !.indexed = TRUE])]
           /\ UNCHANGED <<overlap, begun, used, projects, links, types, torn>>
        \/ Only([job EXCEPT !.failed = "vector"])
  BY DEF BackfillNext
<1>3. i \in Ids /\ job.read[i] \in Project /\ job.todo \in SUBSET Ids
  BY <1>1 DEF JobState
<1>4. PICK p, touched, todo, mine :
        /\ p = [job.read[i] EXCEPT !.indexed = TRUE] /\ touched = job.touched \cup {i}
        /\ todo = job.todo \ {i} /\ mine = Writing(job.mine, i, p)
  OBVIOUS
<1>5. /\ touched \in SUBSET Ids /\ todo \in SUBSET Ids /\ "gone" \in Failure /\ "vector" \in Failure
  BY <1>1, <1>3, <1>4 DEF JobState, Failure
<1>6. mine \in Writes(Project \cup {None})
  <2>1. p \in Project \cup {None}
    BY <1>3, <1>4 DEF Project
  <2>2. job.mine \in Writes(Project \cup {None})
    BY <1>1 DEF JobState
  <2> QED BY <1>3, <1>4, <2>1, <2>2, WritingTyped
<1>7. CASE Only([job EXCEPT !.failed = "vector"])
  <2>1. job' = [job EXCEPT !.failed = "vector"]
    BY <1>7 DEF Only
  <2>2. job' \in JobState
    BY ONLY <1>1, <1>5, <2>1 DEF JobState
  <2>3. /\ job'.op = job.op /\ job'.read = job.read /\ job'.report = job.report
        /\ job'.rows = job.rows /\ job'.now = job.now /\ job'.tags = job.tags
        /\ job'.todo = job.todo /\ job'.mine = job.mine /\ job'.touched = job.touched
        /\ job'.failed = "vector"
    BY ONLY <1>1, <2>1 DEF JobState
  <2> QED BY <1>1, <1>7, <2>2, <2>3 DEF Only
<1>8. CASE /\ vectors' = [vectors EXCEPT ![i] = job.read[i].text]
           /\ job' = [job EXCEPT !.failed = "gone", !.touched = touched]
           /\ UNCHANGED <<overlap, begun, used, projects, links, types, torn>>
  <2>2. job' \in JobState
    BY ONLY <1>1, <1>5, <1>8 DEF JobState
  <2>3. /\ job'.op = job.op /\ job'.read = job.read /\ job'.report = job.report
        /\ job'.rows = job.rows /\ job'.now = job.now /\ job'.tags = job.tags
        /\ job'.todo = job.todo /\ job'.mine = job.mine /\ job'.touched = touched
        /\ job'.failed = "gone"
    BY ONLY <1>1, <1>8 DEF JobState
  <2> QED BY <1>1, <1>3, <1>4, <1>8, <2>2, <2>3
<1>9. CASE /\ vectors' = [vectors EXCEPT ![i] = job.read[i].text]
           /\ Seen[i] # None /\ OfAward(Seen, job.read[i].award) \ {i} = {}
           /\ job' = [job EXCEPT !.todo = todo, !.touched = touched, !.mine = mine]
           /\ UNCHANGED <<overlap, begun, used, projects, links, types, torn>>
  <2>2. job' \in JobState
    BY ONLY <1>1, <1>5, <1>6, <1>9 DEF JobState
  <2>3. /\ job'.op = job.op /\ job'.read = job.read /\ job'.report = job.report
        /\ job'.rows = job.rows /\ job'.now = job.now /\ job'.tags = job.tags
        /\ job'.todo = todo /\ job'.mine = mine /\ job'.touched = touched
        /\ job'.failed = job.failed
    BY ONLY <1>1, <1>9 DEF JobState
  <2> QED BY <1>1, <1>3, <1>4, <1>9, <2>2, <2>3
<1> QED BY <1>2, <1>4, <1>7, <1>8, <1>9

\* One pair of the tagging script: linked, or passed over.
LEMMA TagNextStep ==
  ASSUME TypeOK, TagNext
  PROVE  /\ job \in JobState /\ job' \in JobState /\ job.op \in {"tag", "retag"}
         /\ TablesKept /\ Same(job, job') /\ job'.mine = job.mine /\ job'.touched = job.touched
         /\ job'.now = job.now /\ job'.failed = job.failed
         /\ \/ job'.tags = job.tags
            \/ \E i \in Ids : \E row : Seen[i] # None /\ job'.tags = Writing(job.tags, i, row)
<1>1. job \in JobState /\ job.op \in {"tag", "retag"}
  BY DEF TypeOK, TagNext, Running
<1>2. PICK pair, pairs, left :
        /\ pair \in job.pairs /\ pairs = job.pairs \ {pair} /\ left = [job EXCEPT !.pairs = pairs] /\ TablesKept
        /\ job' = left \/ job' = Tagged(left, pair[1], pair[2])
  BY DEF TagNext, Only, TablesKept
<1>3. pair \in Ids \X Types /\ pairs \in SUBSET (Ids \X Types)
  BY <1>1, <1>2 DEF JobState
<1>4. left \in JobState
  BY ONLY <1>1, <1>2, <1>3 DEF JobState
<1>5. /\ left.op = job.op /\ left.rows = job.rows /\ left.now = job.now /\ left.report = job.report
      /\ left.read = job.read /\ left.todo = job.todo /\ left.mine = job.mine
      /\ left.touched = job.touched /\ left.failed = job.failed /\ left.tags = job.tags
  BY ONLY <1>1, <1>2 DEF JobState
<1>6. PICK i, t : i = pair[1] /\ t = pair[2]
  OBVIOUS
<1>7. i \in Ids /\ t \in Types
  BY <1>3, <1>6
<1>8. LET k == Tagged(left, i, t) IN
      /\ k \in JobState /\ k.op = left.op /\ k.rows = left.rows /\ k.now = left.now
      /\ k.report = left.report /\ k.read = left.read /\ k.todo = left.todo /\ k.mine = left.mine
      /\ k.touched = left.touched /\ k.failed = left.failed
      /\ k.tags = IF Seen[i] # None /\ t \in SeenActive(left)
                  THEN Writing(job.tags, i, [SeenLinks[i] EXCEPT ![t] = "INFERRED"]) ELSE job.tags
  BY <1>1, <1>4, <1>5, <1>7, TaggedTyped
<1>9. CASE job' = left
  BY <1>1, <1>2, <1>4, <1>5, <1>9 DEF Same
<1>10. CASE job' = Tagged(left, i, t)
  BY <1>1, <1>2, <1>5, <1>7, <1>8, <1>10 DEF Same
<1> QED BY <1>2, <1>6, <1>9, <1>10
-----------------------------------------------------------------------------
(* What a job sees is consistent before it commits: one project of an award, no links  *)
(* without a project.  It is what makes the commit keep the unique award.              *)

OneOfAward(table) == \A i, k \in Ids :
  table[i] # None /\ table[k] # None /\ table[i].award = table[k].award /\ table[i].award # None
  => i = k
LinksHaveRows(table, rows) == \A i \in Ids : table[i] = None => rows[i] = NoLinks

SeenInv ==
  /\ LinksHaveRows(projects, links)
  /\ job # None =>
       /\ DOMAIN job.mine \subseteq 1..used /\ job.todo \subseteq 1..used
       /\ OneOfAward(Seen) /\ LinksHaveRows(Seen, SeenLinks)
       /\ job.op = "index" => \A i \in job.todo : job.read[i] # None
       /\ job.op # "import" => job.report = <<>> /\ job.rows = <<>> /\ job.now = None

LEMMA CommittedOnce == ASSUME TypeOK PROVE OneOfAward(projects)
BY DEF TypeOK, OneOfAward, Live

LEMMA OneMore ==
  ASSUME NEW S, NEW T, NEW i \in Ids, NEW x, OneOfAward(S),
         \A k \in Ids : T[k] = IF k = i THEN x ELSE S[k],
         x = None \/ x.award = None \/ OfAward(S, x.award) \ {i} = {}
  PROVE  OneOfAward(T)
<1> SUFFICES ASSUME NEW a \in Ids, NEW b \in Ids, T[a] # None, T[b] # None,
                    T[a].award = T[b].award, T[a].award # None
             PROVE  a = b
  BY DEF OneOfAward
<1>1. CASE a # i /\ b # i
  BY <1>1 DEF OneOfAward
<1>2. CASE a = i /\ b # i
  BY <1>2 DEF OfAward, Live
<1>3. CASE b = i /\ a # i
  BY <1>3 DEF OfAward, Live
<1> QED BY <1>1, <1>2, <1>3

LEMMA LinksKept ==
  ASSUME NEW S, NEW T, NEW L, NEW M, NEW i, LinksHaveRows(S, L),
         \A k \in Ids : k # i => T[k] = S[k] /\ M[k] = L[k],
         i \in Ids => (T[i] = None => M[i] = NoLinks)
  PROVE  LinksHaveRows(T, M)
BY DEF LinksHaveRows

LEMMA SeenSame ==
  ASSUME job'.mine = job.mine, UNCHANGED projects PROVE Seen' = Seen
BY DEF Seen

LEMMA LinksSame ==
  ASSUME job'.tags = job.tags, UNCHANGED links PROVE SeenLinks' = SeenLinks
BY DEF SeenLinks

LEMMA SeenWriting ==
  ASSUME NEW i, NEW x, job'.mine = Writing(job.mine, i, x), UNCHANGED projects
  PROVE  \A k \in Ids : Seen'[k] = IF k = i THEN x ELSE Seen[k]
<1>1. PICK w, table : w = job.mine /\ table = projects
  OBVIOUS
<1>2. Seen' = Over(Writing(w, i, x), table) /\ Seen = Over(w, table)
  BY <1>1 DEF Seen
<1> QED BY <1>2, OverWriting

LEMMA WritesMore ==
  ASSUME NEW i, NEW x, job'.mine = Writing(job.mine, i, x), DOMAIN job.mine \subseteq 1..used,
         used \in Nat, i \in 1..used', used' \in Nat, used <= used'
  PROVE  DOMAIN job'.mine \subseteq 1..used'
<1>1. PICK w, v : w = job.mine /\ v = job'.mine
  OBVIOUS
<1>2. DOMAIN v = DOMAIN w \cup {i}
  BY <1>1 DEF Writing
<1>3. 1..used \subseteq 1..used'
  OBVIOUS
<1> QED BY <1>1, <1>2, <1>3

LEMMA LinksWriting ==
  ASSUME NEW i, NEW x, job'.tags = Writing(job.tags, i, x), UNCHANGED links
  PROVE  \A k \in Ids : SeenLinks'[k] = IF k = i THEN x ELSE SeenLinks[k]
<1>1. PICK w, table : w = job.tags /\ table = links
  OBVIOUS
<1>2. SeenLinks' = Over(Writing(w, i, x), table) /\ SeenLinks = Over(w, table)
  BY <1>1 DEF SeenLinks
<1> QED BY <1>2, OverWriting

\* A step of the job itself, short of its end.
LEMMA SeenGoesOn ==
  ASSUME SeenInv, job # None, job' # None, UNCHANGED <<projects, links>>,
         job'.op = job.op, job'.read = job.read,
         DOMAIN job'.mine \subseteq 1..used', job'.todo \subseteq 1..used',
         job.op = "index" => job'.todo \subseteq job.todo,
         job.op # "import" => job'.report = job.report /\ job'.rows = job.rows /\ job'.now = job.now,
         OneOfAward(Seen'), LinksHaveRows(Seen', SeenLinks')
  PROVE  SeenInv'
BY DEF SeenInv, LinksHaveRows, OneOfAward

LEMMA StartSeen ==
  ASSUME TypeOK, SeenInv, Started
  PROVE  TypeOK' /\ SeenInv' /\ job' # None /\ Seen' = projects /\ SeenLinks' = links
<1>1. /\ Fresh(job') /\ job' \in JobState /\ job' # None
      /\ UNCHANGED <<overlap, used, projects, links, types, vectors, torn>>
  BY Apart DEF Started, Fresh
<1>2. TypeOK'
  BY <1>1, RegistryAssumption DEF Started, TypeOK, Live
<1>3. Seen' = projects /\ SeenLinks' = links
  <2>1. job'.mine = <<>> /\ job'.tags = <<>> /\ UNCHANGED <<projects, links>>
    BY <1>1 DEF Fresh
  <2>2. projects \in [Ids -> Project \cup {None}] /\ links \in [Ids -> [Types -> Link \cup {None}]]
    BY DEF TypeOK
  <2>3. ASSUME NEW D, NEW table \in [Ids -> D] PROVE Over(<<>>, table) = table
    <3>1. DOMAIN <<>> = {}
      OBVIOUS
    <3> QED BY <2>3, <3>1 DEF Over
  <2>4. Seen' = Over(<<>>, projects) /\ SeenLinks' = Over(<<>>, links)
    BY <2>1 DEF Seen, SeenLinks
  <2> QED BY <2>2, <2>3, <2>4
<1>4. OneOfAward(projects) /\ LinksHaveRows(projects, links)
  BY CommittedOnce DEF SeenInv
<1>5. DOMAIN job'.mine = {} /\ job'.todo \subseteq Live(projects) /\ Live(projects) \subseteq 1..used
  BY <1>1 DEF Fresh, TypeOK
<1>6. (OneOfAward(Seen) /\ LinksHaveRows(Seen, SeenLinks) /\ LinksHaveRows(projects, links))'
  BY <1>1, <1>3, <1>4 DEF OneOfAward, LinksHaveRows, NoLinks
<1> QED BY <1>1, <1>2, <1>3, <1>5, <1>6 DEF SeenInv, Fresh
LEMMA StaysSeen ==
  ASSUME TypeOK, SeenInv, Stays, job.op = "import"
  PROVE  TypeOK' /\ SeenInv' /\ Seen' = Seen /\ SeenLinks' = SeenLinks
<1>1. /\ job # None /\ job' # None /\ job' \in JobState
      /\ UNCHANGED <<overlap, begun, used, projects, links, types, vectors, torn>>
      /\ job'.op = job.op /\ job'.read = job.read /\ job'.mine = job.mine /\ job'.tags = job.tags
      /\ job'.todo = job.todo
  BY Apart DEF Stays, TablesKept, Goes
<1>2. TypeOK'
  BY <1>1, JobTyped DEF TypeOK
<1>3. Seen' = Seen /\ SeenLinks' = SeenLinks
  BY <1>1, SeenSame, LinksSame
<1>4. OneOfAward(Seen') /\ LinksHaveRows(Seen', SeenLinks')
  BY <1>1, <1>3 DEF SeenInv
<1>5. DOMAIN job'.mine \subseteq 1..used' /\ job'.todo \subseteq 1..used'
  BY <1>1 DEF SeenInv
<1> QED BY <1>1, <1>2, <1>3, <1>4, <1>5, SeenGoesOn

LEMMA AddRowSeen ==
  ASSUME TypeOK, SeenInv, AddRow
  PROVE  TypeOK' /\ SeenInv' /\ SeenLinks' = SeenLinks
<1>1. /\ job # None /\ job' # None /\ job' \in JobState /\ Same(job, job') /\ job'.tags = job.tags
      /\ UNCHANGED <<overlap, begun, projects, links, types, vectors, torn>> /\ job.op = "import"
  BY AddRowStep, Apart
<1>2. SeenLinks' = SeenLinks
  BY <1>1, LinksSame
<1>3. /\ DOMAIN job.mine \subseteq 1..used /\ job.todo \subseteq 1..used /\ OneOfAward(Seen)
      /\ LinksHaveRows(Seen, SeenLinks) /\ used \in Nat
  BY <1>1 DEF SeenInv, TypeOK
<1>4. CASE UNCHANGED used /\ job'.mine = job.mine
  <2>1. Seen' = Seen
    BY <1>1, <1>4, SeenSame
  <2>2. TypeOK'
    BY <1>1, <1>4, JobTyped DEF TypeOK
  <2> QED BY <1>1, <1>2, <1>3, <1>4, <2>1, <2>2, SeenGoesOn DEF Same
<1>5. ASSUME NEW i, NEW x, i = used + 1, used < MaxProjects, used' = i,
             OfAward(Seen, x.award) = {}, job'.mine = Writing(job.mine, i, x), x # None
      PROVE  TypeOK' /\ SeenInv'
  <2>1. i \in Ids /\ used' \in used..MaxProjects /\ 1..used \subseteq 1..used' /\ i \in 1..used'
    BY <1>3, <1>5, RegistryAssumption DEF Ids
  <2>2. TypeOK'
    BY <1>1, <2>1, JobTyped DEF TypeOK
  <2>3. \A k \in Ids : Seen'[k] = IF k = i THEN x ELSE Seen[k]
    BY <1>1, <1>5, SeenWriting
  <2>4. OneOfAward(Seen')
    BY <1>3, <1>5, <2>1, <2>3, OneMore
  <2>5. LinksHaveRows(Seen', SeenLinks')
    BY <1>2, <1>3, <1>5, <2>3 DEF LinksHaveRows
  <2>6. DOMAIN job'.mine \subseteq 1..used' /\ job'.todo \subseteq 1..used'
    <3>1. used' \in Nat /\ used <= used'
      BY <1>3, <1>5
    <3>2. DOMAIN job'.mine \subseteq 1..used'
      BY ONLY <1>3, <1>5, <2>1, <3>1, WritesMore
    <3> QED BY <1>1, <1>3, <2>1, <3>2 DEF Same
  <2> QED BY <1>1, <2>2, <2>4, <2>5, <2>6, SeenGoesOn DEF Same
<1>6. PICK p : p = [award |-> job.now.row.award, text |-> job.now.row.text,
                 has |-> job.now.row.has, indexed |-> FALSE]
  OBVIOUS
<1>7. p # None /\ p.award = job.now.row.award
  <2>1. p \in Project
    BY <1>6, HandTyped DEF AddRow, Project
  <2> QED BY <1>6, <2>1, Apart
<1> QED BY <1>2, <1>4, <1>5, <1>6, <1>7, AddRowStep

LEMMA IndexRowSeen ==
  ASSUME TypeOK, SeenInv, IndexRow, job.now.id \in DOMAIN job.mine, job.mine[job.now.id] # None
  PROVE  TypeOK' /\ SeenInv' /\ SeenLinks' = SeenLinks
<1>1. CASE Stays
  BY <1>1, IndexRowStep, StaysSeen
<1>2. ASSUME NEW i \in Ids, NEW x, i = job.now.id, x = [job.mine[i] EXCEPT !.indexed = TRUE],
             job'.mine = Writing(job.mine, i, x), Same(job, job'), job'.tags = job.tags,
             UNCHANGED <<overlap, begun, used, projects, links, types, torn>>,
             vectors' = [vectors EXCEPT ![i] = job.now.row.text], job.now.row.text \in Texts
      PROVE  TypeOK' /\ SeenInv' /\ SeenLinks' = SeenLinks
  <2>1. job # None /\ job' # None /\ job \in JobState /\ job' \in JobState /\ job.op = "import"
    BY IndexRowStep, Apart
  <2>2. TypeOK'
    <3>1. vectors' \in [Ids -> Texts \cup {None}] /\ used' \in used..MaxProjects
      BY <1>2 DEF TypeOK
    <3> QED BY <1>2, <2>1, <3>1, JobTyped
  <2>0. UNCHANGED <<projects, used>> /\ job'.mine = Writing(job.mine, i, x)
    BY <1>2
  <2>3. \A k \in Ids : Seen'[k] = IF k = i THEN x ELSE Seen[k]
    BY ONLY <2>0, SeenWriting
  <2>4. Seen[i] = job.mine[i] /\ job.mine[i] \in Project
    <3>1. job.mine \in Writes(Project \cup {None})
      BY <2>1 DEF JobState
    <3> QED BY <1>2, <3>1, OverIs, WritesAre DEF Seen
  <2>5. x \in Project /\ x # None /\ x.award = Seen[i].award
    BY <1>2, <2>4, Apart DEF Project
  <2>6. SeenLinks' = SeenLinks /\ OneOfAward(Seen) /\ LinksHaveRows(Seen, SeenLinks)
    BY <1>2, <2>1, LinksSame DEF SeenInv
  <2>7. x.award = None \/ OfAward(Seen, x.award) \ {i} = {}
    BY <2>4, <2>5, <2>6, Apart DEF OfAward, Live, OneOfAward
  <2>8. OneOfAward(Seen')
    BY <2>3, <2>6, <2>7, OneMore
  <2>9. LinksHaveRows(Seen', SeenLinks')
    BY <2>3, <2>5, <2>6 DEF LinksHaveRows
  <2>10. DOMAIN job'.mine \subseteq 1..used' /\ job'.todo \subseteq 1..used'
    <3>1. used \in Nat /\ DOMAIN job.mine \subseteq 1..used /\ job.todo \subseteq 1..used
      BY <2>1 DEF TypeOK, SeenInv
    <3>2. i \in 1..used /\ used' = used
      BY <1>2, <2>0, <3>1
    <3>3. DOMAIN job'.mine \subseteq 1..used'
      BY ONLY <2>0, <3>1, <3>2, WritesMore
    <3> QED BY <1>2, <3>1, <3>2, <3>3 DEF Same
  <2> QED BY <1>2, <2>1, <2>2, <2>6, <2>8, <2>9, <2>10, SeenGoesOn DEF Same
<1> QED BY <1>1, <1>2, IndexRowStep
LEMMA TagRowSeen ==
  ASSUME TypeOK, SeenInv, TagRow
  PROVE  TypeOK' /\ SeenInv' /\ Seen' = Seen
<1>1. /\ job # None /\ job' # None /\ job \in JobState /\ job' \in JobState /\ Same(job, job')
      /\ UNCHANGED <<overlap, begun, used, projects, links, types, vectors, torn>>
      /\ job.op = "import" /\ job'.mine = job.mine /\ job.now.id \in Ids
  BY TagRowStep, Apart DEF TablesKept
<1>2. TypeOK'
  BY <1>1, JobTyped DEF TypeOK
<1>3. Seen' = Seen
  BY <1>1, SeenSame
<1>4. OneOfAward(Seen) /\ LinksHaveRows(Seen, SeenLinks)
  BY <1>1 DEF SeenInv
<1>5. LinksHaveRows(Seen', SeenLinks')
  <2>1. CASE job'.tags = job.tags
    BY <1>1, <1>3, <1>4, <2>1, LinksSame
  <2>2. ASSUME NEW row, job'.tags = Writing(job.tags, job.now.id, row), Seen[job.now.id] # None
        PROVE  LinksHaveRows(Seen', SeenLinks')
    <3>1. PICK i : i = job.now.id
      OBVIOUS
    <3>2. \A k \in Ids : SeenLinks'[k] = IF k = i THEN row ELSE SeenLinks[k]
      BY <1>1, <2>2, <3>1, LinksWriting
    <3> QED BY <1>1, <1>3, <1>4, <2>2, <3>1, <3>2 DEF LinksHaveRows
  <2> QED BY <2>1, <2>2, TagRowStep
<1>6. DOMAIN job'.mine \subseteq 1..used' /\ job'.todo \subseteq 1..used'
  BY <1>1 DEF SeenInv, Same
<1> QED BY <1>1, <1>2, <1>3, <1>4, <1>5, <1>6, SeenGoesOn DEF Same

LEMMA DeleteNextSeen ==
  ASSUME TypeOK, SeenInv, DeleteNext
  PROVE  TypeOK' /\ SeenInv'
<1>1. /\ job # None /\ job' # None /\ job \in JobState /\ job' \in JobState
      /\ job.op \in {"delete", "delete_all"} /\ job'.op = job.op /\ job'.read = job.read
      /\ job'.report = job.report /\ job'.rows = job.rows /\ job'.now = job.now
      /\ UNCHANGED <<overlap, begun, used, projects, links, types, torn>>
  BY DeleteNextStep, Apart
<1>2. PICK i \in job.todo :
        /\ i \in Ids /\ job'.todo = job.todo \ {i}
        /\ vectors' \in {vectors, [vectors EXCEPT ![i] = None]}
        /\ job'.mine = Writing(job.mine, i, None) /\ job'.tags = Writing(job.tags, i, NoLinks)
  BY DeleteNextStep
<1>3. vectors' \in [Ids -> Texts \cup {None}] /\ used' \in used..MaxProjects
  BY <1>1, <1>2 DEF TypeOK
<1>4. TypeOK'
  BY <1>1, <1>3, JobTyped
<1>5. /\ \A k \in Ids : Seen'[k] = IF k = i THEN None ELSE Seen[k]
      /\ \A k \in Ids : SeenLinks'[k] = IF k = i THEN NoLinks ELSE SeenLinks[k]
  BY <1>1, <1>2, SeenWriting, LinksWriting
<1>6. /\ OneOfAward(Seen) /\ LinksHaveRows(Seen, SeenLinks) /\ used \in Nat
      /\ DOMAIN job.mine \subseteq 1..used /\ job.todo \subseteq 1..used
  BY <1>1 DEF SeenInv, TypeOK
<1>7. OneOfAward(Seen')
  BY <1>2, <1>5, <1>6, OneMore
<1>8. LinksHaveRows(Seen', SeenLinks')
  BY <1>5, <1>6 DEF LinksHaveRows
<1>9. used' = used /\ job'.mine = Writing(job.mine, i, None) /\ i \in 1..used
  BY <1>1, <1>2, <1>6
<1>10. DOMAIN job'.mine \subseteq 1..used'
  BY ONLY <1>6, <1>9, WritesMore
<1>11. job'.todo \subseteq 1..used'
  BY <1>2, <1>6, <1>9
<1> QED BY <1>1, <1>4, <1>7, <1>8, <1>10, <1>11, SeenGoesOn

LEMMA ListAgainSeen ==
  ASSUME TypeOK, SeenInv, ListAgain
  PROVE  TypeOK' /\ SeenInv' /\ Seen' = Seen
<1>1. /\ job # None /\ job' # None /\ job \in JobState /\ job' \in JobState /\ job.op = "delete_all"
      /\ job'.report = job.report /\ job'.rows = job.rows /\ job'.now = job.now
      /\ job'.todo = Live(Seen) /\ job'.op = job.op /\ job'.read = job.read
      /\ job'.mine = job.mine /\ job'.tags = job.tags
      /\ UNCHANGED <<overlap, begun, used, projects, links, types, vectors, torn>>
  BY ListAgainStep, Apart DEF TablesKept, Goes
<1>2. TypeOK'
  BY <1>1, JobTyped DEF TypeOK
<1>3. Seen' = Seen /\ SeenLinks' = SeenLinks
  BY <1>1, SeenSame, LinksSame
<1>4. DOMAIN job.mine \subseteq 1..used /\ OneOfAward(Seen) /\ LinksHaveRows(Seen, SeenLinks)
  BY <1>1 DEF SeenInv
<1>5. Live(Seen) \subseteq 1..used
  BY <1>4, OverIs DEF Live, Seen, TypeOK
<1> QED BY <1>1, <1>2, <1>3, <1>4, <1>5, SeenGoesOn

LEMMA BackfillNextSeen ==
  ASSUME TypeOK, SeenInv, BackfillNext
  PROVE  TypeOK' /\ SeenInv'
<1>0. \A i \in job.todo : job.read[i] # None
  BY DEF BackfillNext, Running, SeenInv
<1>1. /\ job # None /\ job' # None /\ job \in JobState /\ job' \in JobState /\ job.op = "index"
      /\ job'.report = job.report /\ job'.rows = job.rows /\ job'.now = job.now
      /\ job'.op = job.op /\ job'.read = job.read /\ job'.todo \subseteq job.todo
      /\ job'.tags = job.tags /\ UNCHANGED <<overlap, begun, used, projects, links, types, torn>>
  BY <1>0, BackfillNextStep, Apart
<1>2. SeenLinks' = SeenLinks
  BY <1>1, LinksSame
<1>3. /\ DOMAIN job.mine \subseteq 1..used /\ job.todo \subseteq 1..used /\ OneOfAward(Seen)
      /\ LinksHaveRows(Seen, SeenLinks) /\ used \in Nat
  BY <1>1 DEF SeenInv, TypeOK
<1>4. TypeOK'
  <2>1. vectors' \in [Ids -> Texts \cup {None}]
    <3>1. CASE UNCHANGED vectors
      BY <3>1 DEF TypeOK
    <3>2. ASSUME NEW i, job.read[i] \in Project, vectors' = [vectors EXCEPT ![i] = job.read[i].text]
          PROVE  vectors' \in [Ids -> Texts \cup {None}]
      BY <3>2 DEF TypeOK, Project
    <3> QED BY <1>0, <3>1, <3>2, BackfillNextStep
  <2>2. used' \in used..MaxProjects
    BY <1>1 DEF TypeOK
  <2> QED BY <1>1, <2>1, <2>2, JobTyped
<1>5. CASE job'.mine = job.mine
  <2>1. Seen' = Seen
    BY <1>1, <1>5, SeenSame
  <2> QED BY <1>1, <1>2, <1>3, <1>4, <1>5, <2>1, SeenGoesOn
<1>6. ASSUME NEW i \in job.todo, NEW x, i \in Ids, job.read[i] \in Project, Seen[i] # None,
             OfAward(Seen, job.read[i].award) \ {i} = {},
             x = [job.read[i] EXCEPT !.indexed = TRUE], job'.mine = Writing(job.mine, i, x)
      PROVE  SeenInv'
  <2>1. x \in Project /\ x # None /\ x.award = job.read[i].award
    BY <1>6, Apart DEF Project
  <2>8. /\ UNCHANGED projects /\ job'.mine = Writing(job.mine, i, x) /\ i \in Ids
        /\ OfAward(Seen, x.award) \ {i} = {}
    BY <1>1, <1>6, <2>1
  <2>2. \A k \in Ids : Seen'[k] = IF k = i THEN x ELSE Seen[k]
    BY ONLY <2>8, SeenWriting
  <2>3. OneOfAward(Seen')
    BY ONLY <1>3, <2>2, <2>8, OneMore
  <2>4. LinksHaveRows(Seen', SeenLinks')
    BY <1>2, <1>3, <2>1, <2>2 DEF LinksHaveRows
  <2>5. used' = used /\ job'.mine = Writing(job.mine, i, x) /\ i \in 1..used
    BY <1>1, <1>3, <1>6
  <2>6. DOMAIN job'.mine \subseteq 1..used'
    BY ONLY <1>3, <2>5, WritesMore
  <2>7. job'.todo \subseteq 1..used'
    BY <1>1, <1>3, <2>5
  <2> QED BY <1>1, <2>3, <2>4, <2>6, <2>7, SeenGoesOn
<1> QED BY <1>0, <1>4, <1>5, <1>6, BackfillNextStep

LEMMA TagNextSeen ==
  ASSUME TypeOK, SeenInv, TagNext
  PROVE  TypeOK' /\ SeenInv' /\ Seen' = Seen
<1>1. /\ job # None /\ job' # None /\ job \in JobState /\ job' \in JobState /\ Same(job, job')
      /\ UNCHANGED <<overlap, begun, used, projects, links, types, vectors, torn>>
      /\ job.op \in {"tag", "retag"} /\ job'.mine = job.mine /\ job'.now = job.now
  BY TagNextStep, Apart DEF TablesKept
<1>2. TypeOK'
  BY <1>1, JobTyped DEF TypeOK
<1>3. Seen' = Seen
  BY <1>1, SeenSame
<1>4. OneOfAward(Seen) /\ LinksHaveRows(Seen, SeenLinks)
  BY <1>1 DEF SeenInv
<1>5. LinksHaveRows(Seen', SeenLinks')
  <2>1. CASE job'.tags = job.tags
    BY <1>1, <1>3, <1>4, <2>1, LinksSame
  <2>2. ASSUME NEW i \in Ids, NEW row, job'.tags = Writing(job.tags, i, row), Seen[i] # None
        PROVE  LinksHaveRows(Seen', SeenLinks')
    <3>1. \A k \in Ids : SeenLinks'[k] = IF k = i THEN row ELSE SeenLinks[k]
      BY <1>1, <2>2, LinksWriting
    <3> QED BY <1>3, <1>4, <2>2, <3>1 DEF LinksHaveRows
  <2> QED BY <2>1, <2>2, TagNextStep
<1>6. DOMAIN job'.mine \subseteq 1..used' /\ job'.todo \subseteq 1..used'
  BY <1>1 DEF SeenInv, Same
<1> QED BY <1>1, <1>2, <1>3, <1>4, <1>5, <1>6, SeenGoesOn DEF Same
LEMMA CommittedTyped ==
  ASSUME UNCHANGED overlap, overlap \in BOOLEAN, begun' \in 0..MaxBegun, used' \in 0..MaxProjects,
         projects' \in [Ids -> Project \cup {None}], links' \in [Ids -> [Types -> Link \cup {None}]],
         types' \in [Types -> {"absent", "active", "inactive"}],
         vectors' \in [Ids -> Texts \cup {None}], torn' \subseteq Ids,
         Live(projects') \subseteq 1..used', OneOfAward(projects'), job' \in JobState \cup {None}
  PROVE  TypeOK'
BY DEF TypeOK, OneOfAward, Live

LEMMA CommitSeen ==
  ASSUME TypeOK, SeenInv, Commit
  PROVE  TypeOK' /\ SeenInv'
<1>1. /\ job # None /\ projects' = Seen /\ links' = SeenLinks /\ job' = None
      /\ torn' = torn \ job.touched /\ UNCHANGED <<overlap, begun, used, vectors>>
      /\ types' = [t \in Types |-> IF t \in job.provisioned THEN "active" ELSE types[t]]
  BY DEF Commit, Committing
<1>2. OneOfAward(Seen) /\ LinksHaveRows(Seen, SeenLinks) /\ DOMAIN job.mine \subseteq 1..used
  BY <1>1 DEF SeenInv
<1>3. Live(projects') \subseteq 1..used'
  BY <1>1, <1>2, OverIs DEF Live, Seen, TypeOK
<1>4. TypeOK'
  <2>1. projects' \in [Ids -> Project \cup {None}] /\ links' \in [Ids -> [Types -> Link \cup {None}]]
    BY <1>1, SeenTyped
  <2>2. types' \in [Types -> {"absent", "active", "inactive"}]
    BY <1>1 DEF TypeOK
  <2>3. /\ UNCHANGED overlap /\ overlap \in BOOLEAN /\ begun' \in 0..MaxBegun
        /\ used' \in 0..MaxProjects /\ vectors' \in [Ids -> Texts \cup {None}] /\ torn' \subseteq Ids
    BY <1>1 DEF TypeOK
  <2> QED BY <1>1, <1>2, <1>3, <2>1, <2>2, <2>3, CommittedTyped
<1>5. LinksHaveRows(projects', links')
  BY <1>1, <1>2
<1>6. LinksHaveRows(projects, links)'
  BY <1>5 DEF LinksHaveRows, NoLinks
<1> QED BY <1>1, <1>4, <1>6 DEF SeenInv

LEMMA LoseSeen ==
  ASSUME TypeOK, SeenInv, Lose
  PROVE  TypeOK' /\ SeenInv'
<1>1. /\ job' = None /\ UNCHANGED <<overlap, begun, used, projects, links, types, vectors>>
      /\ torn' = torn \cup job.touched /\ job # None
  BY DEF Lose
<1>2. torn' \subseteq Ids
  BY <1>1 DEF TypeOK, JobState
<1> QED BY <1>1, <1>2 DEF TypeOK, SeenInv, LinksHaveRows, NoLinks, Live

\* A request that touches project i, which the job has not written.
LEMMA SeenBeside ==
  ASSUME TypeOK, NEW i \in Ids, UNCHANGED job, job # None, i \notin DOMAIN job.mine,
         \A k \in Ids : k # i => projects'[k] = projects[k]
  PROVE  /\ \A k \in Ids : Seen'[k] = IF k = i THEN projects'[i] ELSE Seen[k]
         /\ Seen[i] = projects[i]
BY DEF Seen, Over

LEMMA BesideSeen ==
  ASSUME SeenInv, NEW i \in Ids, UNCHANGED job, used' \in Nat, used \in Nat, used <= used',
         \A k \in Ids : k # i => projects'[k] = projects[k] /\ links'[k] = links[k],
         projects'[i] = None => links'[i] = NoLinks,
         job # None => OneOfAward(Seen') /\ (Seen'[i] = None => SeenLinks'[i] = NoLinks)
  PROVE  SeenInv'
<1>1. LinksHaveRows(projects', links')
  BY DEF SeenInv, LinksHaveRows
<1>2. CASE job = None
  BY <1>1, <1>2 DEF SeenInv, LinksHaveRows, NoLinks
<1>3. CASE job # None
  <2>1. \A k \in Ids : k # i => Seen'[k] = Seen[k] /\ SeenLinks'[k] = SeenLinks[k]
    BY DEF Seen, SeenLinks, Over
  <2>2. LinksHaveRows(Seen', SeenLinks')
    BY <1>3, <2>1 DEF SeenInv, LinksHaveRows
  <2>3. DOMAIN job'.mine \subseteq 1..used' /\ job'.todo \subseteq 1..used'
    <3>1. 1..used \subseteq 1..used'
      OBVIOUS
    <3> QED BY <1>3, <3>1 DEF SeenInv
  <2> QED BY <1>1, <1>3, <2>2, <2>3 DEF SeenInv, LinksHaveRows, NoLinks, OneOfAward
<1> QED BY <1>2, <1>3

LEMMA PostProjectSeen ==
  ASSUME TypeOK, SeenInv, NEW a \in Awards \cup {None}, NEW text \in Texts, NEW has \in Entered,
         PostProject(a, text, has)
  PROVE  TypeOK' /\ SeenInv'
<1>1. PICK i, x : i = used + 1 /\ x = [award |-> a, text |-> text, has |-> has, indexed |-> TRUE]
  OBVIOUS
<1>2. /\ used < MaxProjects /\ used' = i /\ projects' = [projects EXCEPT ![i] = x]
      /\ begun' = begun + 1 /\ begun < MaxBegun /\ OfAward(projects, a) = {}
      /\ job # None => OfAward(Seen, a) = {}
      /\ vectors' = [vectors EXCEPT ![i] = text] /\ UNCHANGED <<overlap, links, torn, job>>
      /\ types' = IF Active # {} THEN types
                  ELSE [t \in Types |-> IF types[t] = "absent" THEN "active" ELSE types[t]]
  BY <1>1 DEF PostProject, MayRun, Served
<1>3. i \in Ids /\ used' \in 0..MaxProjects /\ begun' \in 0..MaxBegun /\ i \notin 1..used
      /\ used' \in Nat /\ used \in Nat /\ used <= used' /\ 1..used \subseteq 1..used' /\ i \in 1..used'
  BY <1>1, <1>2, RegistryAssumption DEF TypeOK, Ids
<1>4. x \in Project /\ x # None /\ x.award = a
  <2>1. x \in Project /\ x.award = a
    BY <1>1, RegistryAssumption DEF Project
  <2> QED BY <2>1, Apart
<1>5. /\ projects' \in [Ids -> Project \cup {None}] /\ projects'[i] = x
      /\ \A k \in Ids : k # i => projects'[k] = projects[k]
      /\ vectors' \in [Ids -> Texts \cup {None}]
  BY <1>2, <1>3, <1>4 DEF TypeOK
<1>6. OneOfAward(projects')
  <2>1. \A k \in Ids : projects'[k] = IF k = i THEN x ELSE projects[k]
    BY <1>5
  <2>2. OneOfAward(projects) /\ OfAward(projects, x.award) \ {i} = {} /\ i \in Ids
    BY <1>2, <1>3, <1>4, CommittedOnce
  <2> QED BY ONLY <2>1, <2>2, OneMore
<1>7. Live(projects') \subseteq 1..used'
  BY <1>3, <1>5 DEF Live, TypeOK
<1>8. TypeOK'
  <2>1. types' \in [Types -> {"absent", "active", "inactive"}]
    BY <1>2 DEF TypeOK
  <2>2. /\ overlap \in BOOLEAN /\ links' \in [Ids -> [Types -> Link \cup {None}]]
        /\ torn' \subseteq Ids /\ job' \in JobState \cup {None}
    BY <1>2 DEF TypeOK
  <2> QED BY <1>2, <1>3, <1>5, <1>6, <1>7, <2>1, <2>2, CommittedTyped
<1>9. ASSUME job # None PROVE OneOfAward(Seen') /\ Seen'[i] # None
  <2>1. i \notin DOMAIN job.mine /\ OneOfAward(Seen)
    BY <1>3, <1>9 DEF SeenInv
  <2>2. \A k \in Ids : Seen'[k] = IF k = i THEN x ELSE Seen[k]
    BY <1>2, <1>3, <1>5, <1>9, <2>1, SeenBeside
  <2>3. OfAward(Seen, x.award) \ {i} = {}
    BY <1>2, <1>4, <1>9
  <2> QED BY <1>3, <1>4, <2>1, <2>2, <2>3, OneMore
<1>10. UNCHANGED <<links, job>> /\ projects'[i] # None
  BY <1>2, <1>4, <1>5
<1> QED BY <1>3, <1>5, <1>8, <1>9, <1>10, BesideSeen
LEMMA Counted ==
  ASSUME TypeOK, begun < MaxBegun, begun' = begun + 1, used' = used
  PROVE  begun' \in 0..MaxBegun /\ used' \in Nat /\ used \in Nat /\ used <= used' /\ used' \in 0..MaxProjects
BY RegistryAssumption DEF TypeOK

LEMMA PatchProjectSeen ==
  ASSUME TypeOK, SeenInv, NEW i \in Ids, NEW a, NEW text \in Texts, NEW has \in Entered,
         projects[i] # None, a \in Awards \cup {projects[i].award}, PatchProject(i, a, text, has)
  PROVE  TypeOK' /\ SeenInv'
<1>1. PICK all, x : /\ all = has \cup projects[i].has
                    /\ x = [award |-> a, text |-> text, has |-> all, indexed |-> TRUE]
  OBVIOUS
<1>2. /\ projects' = projects \/ projects' = [projects EXCEPT ![i] = x]
      /\ begun' = begun + 1 /\ begun < MaxBegun /\ vectors' = [vectors EXCEPT ![i] = text]
      /\ torn' \in {torn \ {i}, torn \cup {i}} /\ (job # None => i \notin DOMAIN job.mine)
      /\ UNCHANGED <<overlap, used, links, types, job>>
  BY <1>1 DEF PatchProject, MayRun, Served, Unlocked, TypeOK
<1>3. \/ a = projects[i].award
      \/ OfAward(projects, a) = {} /\ (job # None => OfAward(Seen, a) = {})
  BY DEF PatchProject
<1>4. projects[i] \in Project /\ a \in Awards \cup {None}
  BY DEF TypeOK, Project
<1>5. x \in Project /\ x # None /\ x.award = a
  <2>1. x \in Project /\ x.award = a
    BY <1>1, <1>4, RegistryAssumption DEF Project, Evidence
  <2> QED BY <2>1, Apart
<1>6. /\ begun' \in 0..MaxBegun /\ used' \in Nat /\ used \in Nat /\ used <= used'
      /\ torn' \subseteq Ids /\ vectors' \in [Ids -> Texts \cup {None}]
      /\ used' \in 0..MaxProjects
  <2>1. begun' = begun + 1 /\ begun < MaxBegun /\ used' = used
    BY <1>2
  <2>2. torn' \subseteq Ids /\ vectors' \in [Ids -> Texts \cup {None}]
    BY <1>2 DEF TypeOK
  <2> QED BY <2>1, <2>2, Counted
<1>7. /\ projects' \in [Ids -> Project \cup {None}]
      /\ \A k \in Ids : k # i => projects'[k] = projects[k]
      /\ projects'[i] \in {projects[i], x} /\ projects'[i] # None
  BY <1>2, <1>5 DEF TypeOK
<1>8. ASSUME NEW S, OneOfAward(S), S[i] = projects[i],
             a = projects[i].award \/ OfAward(S, a) = {}
      PROVE  \A T : (\A k \in Ids : T[k] = IF k = i THEN projects'[i] ELSE S[k]) => OneOfAward(T)
  <2>1. a = None \/ OfAward(S, a) \ {i} = {}
    BY <1>8 DEF OfAward, Live, OneOfAward
  <2>2. projects[i].award = None \/ OfAward(S, projects[i].award) \ {i} = {}
    BY <1>8 DEF OfAward, Live, OneOfAward
  <2>3. PICK y : y = projects'[i]
    OBVIOUS
  <2>4. y = None \/ y.award = None \/ OfAward(S, y.award) \ {i} = {}
    BY <1>5, <1>7, <2>1, <2>2, <2>3
  <2>5. ASSUME NEW T, \A k \in Ids : T[k] = IF k = i THEN y ELSE S[k] PROVE OneOfAward(T)
    BY ONLY <1>8, <2>4, <2>5, i \in Ids, OneMore
  <2> QED BY <2>3, <2>5
<1>9. OneOfAward(projects')
  <2>1. \A k \in Ids : projects'[k] = IF k = i THEN projects'[i] ELSE projects[k]
    BY <1>7
  <2> QED BY <1>3, <1>8, <2>1, CommittedOnce
<1>10. Live(projects') \subseteq 1..used'
  BY <1>2, <1>7 DEF Live, TypeOK
<1>11. TypeOK'
  <2>1. /\ overlap \in BOOLEAN /\ links' \in [Ids -> [Types -> Link \cup {None}]]
        /\ types' \in [Types -> {"absent", "active", "inactive"}] /\ job' \in JobState \cup {None}
        /\ UNCHANGED overlap
    BY <1>2 DEF TypeOK
  <2> QED BY <1>6, <1>7, <1>9, <1>10, <2>1, CommittedTyped
<1>12. ASSUME job # None PROVE OneOfAward(Seen') /\ Seen'[i] # None
  <2>1. i \notin DOMAIN job.mine /\ OneOfAward(Seen)
    BY <1>2, <1>12 DEF SeenInv
  <2>2. /\ \A k \in Ids : Seen'[k] = IF k = i THEN projects'[i] ELSE Seen[k]
        /\ Seen[i] = projects[i]
    BY <1>2, <1>7, <1>12, <2>1, SeenBeside
  <2> QED BY <1>3, <1>7, <1>8, <1>12, <2>1, <2>2
<1>13. UNCHANGED <<links, job>>
  BY <1>2
<1> QED BY <1>6, <1>7, <1>11, <1>12, <1>13, BesideSeen

\* The transaction of a deletion is lost.
LEMMA DeleteLost ==
  ASSUME TypeOK, SeenInv, NEW i \in Ids, DeleteProject(i), UNCHANGED <<projects, links>>
  PROVE  TypeOK' /\ SeenInv'
<1>1. /\ begun' = begun + 1 /\ begun < MaxBegun /\ UNCHANGED <<overlap, used, projects, links, types, job>>
      /\ vectors' \in {vectors, [vectors EXCEPT ![i] = None]} /\ torn' \in {torn, torn \cup {i}}
  BY DEF DeleteProject, MayRun, Served
<1>2. begun' \in 0..MaxBegun
  BY <1>1, Counted
<1>3. vectors' \in [Ids -> Texts \cup {None}] /\ torn' \subseteq Ids
  BY <1>1 DEF TypeOK
<1>4. TypeOK'
  BY <1>1, <1>2, <1>3 DEF TypeOK, Live
<1>5. Seen' = Seen /\ SeenLinks' = SeenLinks
  BY <1>1 DEF Seen, SeenLinks
<1>6. SeenInv'
  BY <1>1, <1>5 DEF SeenInv, OneOfAward, LinksHaveRows, NoLinks
<1> QED BY <1>4, <1>6

LEMMA DeleteProjectSeen ==
  ASSUME TypeOK, SeenInv, NEW i \in Ids, DeleteProject(i)
  PROVE  TypeOK' /\ SeenInv'
<1> SUFFICES ASSUME projects' = [projects EXCEPT ![i] = None], links' = [links EXCEPT ![i] = NoLinks]
             PROVE  TypeOK' /\ SeenInv'
  BY DeleteLost DEF DeleteProject
<1>1. /\ projects' = [projects EXCEPT ![i] = None] /\ links' = [links EXCEPT ![i] = NoLinks]
      /\ begun' = begun + 1 /\ begun < MaxBegun
      /\ vectors' \in {vectors, [vectors EXCEPT ![i] = None]}
      /\ job # None => i \notin DOMAIN job.mine /\ i \notin DOMAIN job.tags
      /\ torn' \in {torn, torn \cup {i}} /\ UNCHANGED <<overlap, used, types, job>>
  BY DEF DeleteProject, MayRun, Served, Unlocked, Unlinking
<1>2. /\ begun' \in 0..MaxBegun /\ used' \in Nat /\ used \in Nat /\ used <= used'
      /\ vectors' \in [Ids -> Texts \cup {None}] /\ used' \in 0..MaxProjects
  <2>1. begun' = begun + 1 /\ begun < MaxBegun /\ used' = used
    BY <1>1
  <2>2. vectors' \in [Ids -> Texts \cup {None}]
    BY <1>1 DEF TypeOK
  <2> QED BY <2>1, <2>2, Counted
<1>3. /\ projects' \in [Ids -> Project \cup {None}] /\ links' \in [Ids -> [Types -> Link \cup {None}]]
      /\ \A k \in Ids : k # i => projects'[k] = projects[k] /\ links'[k] = links[k]
      /\ projects'[i] = None /\ links'[i] = NoLinks
  BY <1>1 DEF TypeOK, NoLinks
<1>4. OneOfAward(projects')
  <2>1. \A k \in Ids : projects'[k] = IF k = i THEN None ELSE projects[k]
    BY <1>3
  <2>2. OneOfAward(projects)
    BY CommittedOnce
  <2> QED BY ONLY <2>1, <2>2, i \in Ids, OneMore
<1>5. TypeOK'
  <2>1. Live(projects') \subseteq 1..used'
    BY <1>1, <1>3 DEF Live, TypeOK
  <2>2. /\ overlap \in BOOLEAN /\ types' \in [Types -> {"absent", "active", "inactive"}]
        /\ job' \in JobState \cup {None} /\ UNCHANGED overlap /\ torn' \subseteq Ids
    BY <1>1 DEF TypeOK
  <2> QED BY <1>2, <1>3, <1>4, <2>1, <2>2, CommittedTyped
<1>6. ASSUME job # None PROVE OneOfAward(Seen') /\ SeenLinks'[i] = NoLinks
  <2>1. i \notin DOMAIN job.mine /\ i \notin DOMAIN job.tags /\ OneOfAward(Seen)
    BY <1>1, <1>6 DEF SeenInv
  <2>2. \A k \in Ids : Seen'[k] = IF k = i THEN None ELSE Seen[k]
    BY <1>1, <1>3, <1>6, <2>1, SeenBeside
  <2>3. SeenLinks'[i] = NoLinks
    BY <1>1, <1>3, <2>1 DEF SeenLinks, Over
  <2> QED BY <2>1, <2>2, <2>3, OneMore
<1>7. UNCHANGED job
  BY <1>1
<1> QED BY <1>2, <1>3, <1>5, <1>6, <1>7, BesideSeen

\* A link changed on a project that is there.
LEMMA RelinkedSeen ==
  ASSUME TypeOK, SeenInv, NEW i \in Ids, NEW t \in Types, NEW x \in Link \cup {None},
         projects[i] # None, links' = [links EXCEPT ![i][t] = x],
         job # None /\ Seen[i] = None => i \in DOMAIN job.tags,
         begun' = begun + 1, begun < MaxBegun,
         UNCHANGED <<overlap, used, projects, types, vectors, torn, job>>
  PROVE  TypeOK' /\ SeenInv'
<1>1. /\ links' \in [Ids -> [Types -> Link \cup {None}]]
      /\ \A k \in Ids : k # i => links'[k] = links[k]
  BY DEF TypeOK
<1>2. begun' \in 0..MaxBegun /\ used' \in Nat /\ used \in Nat /\ used <= used'
  BY RegistryAssumption DEF TypeOK
<1>3. TypeOK'
  BY <1>1, <1>2 DEF TypeOK, Live
<1>4. ASSUME job # None PROVE OneOfAward(Seen') /\ (Seen'[i] = None => SeenLinks'[i] = NoLinks)
  <2>1. Seen' = Seen
    BY DEF Seen
  <2>2. OneOfAward(Seen) /\ (Seen[i] = None => SeenLinks[i] = NoLinks)
    BY <1>4 DEF SeenInv, LinksHaveRows
  <2>3. i \in DOMAIN job.tags => SeenLinks'[i] = SeenLinks[i]
    BY DEF SeenLinks, Over
  <2> QED BY <1>4, <2>1, <2>2, <2>3
<1> QED BY <1>1, <1>2, <1>3, <1>4, BesideSeen

LEMMA TagProjectSeen ==
  ASSUME TypeOK, SeenInv, NEW i \in Ids, NEW t \in Types, TagProject(i, t)
  PROVE  TypeOK' /\ SeenInv'
<1>1. job # None => Seen[i] = projects[i]
  BY OverIs DEF TagProject, Unlocked, Seen
<1> QED BY <1>1, RelinkedSeen DEF TagProject, MayRun, Served, Link

LEMMA UntagSeen ==
  ASSUME TypeOK, SeenInv, NEW i \in Ids, NEW t \in Types, Untag(i, t)
  PROVE  TypeOK' /\ SeenInv'
<1>1. projects[i] # None
  BY DEF Untag, SeenInv, LinksHaveRows, NoLinks
<1>2. ASSUME job # None, Seen[i] = None PROVE i \in DOMAIN job.tags
  <2>1. SeenLinks[i] = NoLinks
    BY <1>2 DEF SeenInv, LinksHaveRows
  <2>2. i \notin DOMAIN job.tags => SeenLinks[i] = links[i]
    BY OverIs DEF SeenLinks
  <2> QED BY <2>1, <2>2 DEF Untag, NoLinks
<1> QED BY <1>1, <1>2, RelinkedSeen DEF Untag, MayRun, Served

LEMMA DeactivateSeen ==
  ASSUME TypeOK, SeenInv, NEW t \in Types, Deactivate(t)
  PROVE  TypeOK' /\ SeenInv'
<1>1. /\ types' = [types EXCEPT ![t] = "inactive"] /\ begun' = begun + 1 /\ begun < MaxBegun
      /\ UNCHANGED <<overlap, used, projects, links, vectors, torn, job>>
  BY DEF Deactivate, MayRun, Served
<1>2. TypeOK'
  BY <1>1, RegistryAssumption DEF TypeOK, Live
<1>3. Seen' = Seen /\ SeenLinks' = SeenLinks
  BY <1>1 DEF Seen, SeenLinks
<1> QED BY <1>1, <1>2, <1>3 DEF SeenInv, OneOfAward, LinksHaveRows, NoLinks

LEMMA LoadSeedSeen ==
  ASSUME TypeOK, SeenInv, LoadSeed
  PROVE  TypeOK' /\ SeenInv'
<1>1. /\ job = None /\ begun' = begun + 1 /\ begun < MaxBegun
      /\ types' = [t \in Types |-> IF types[t] = "absent" THEN "active" ELSE types[t]]
      /\ links' = [i \in Ids |-> [t \in Types |->
           IF \E ref \in SeedRefs : ref[2] = t /\ i \in OfAward(projects, ref[1]) THEN "SEED"
           ELSE links[i][t]]]
      /\ UNCHANGED <<overlap, used, projects, vectors, torn, job>>
  BY DEF LoadSeed, Idle, Served
<1>2. TypeOK'
  <2>1. links' \in [Ids -> [Types -> Link \cup {None}]]
    BY <1>1 DEF TypeOK, Link
  <2>2. types' \in [Types -> {"absent", "active", "inactive"}] /\ begun' \in 0..MaxBegun
    BY <1>1, RegistryAssumption DEF TypeOK
  <2> QED BY <1>1, <2>1, <2>2 DEF TypeOK, Live
<1>3. ASSUME NEW i \in Ids, projects[i] = None PROVE links'[i] = NoLinks
  <2>1. \A a : i \notin OfAward(projects, a)
    BY <1>3 DEF OfAward, Live
  <2>2. links'[i] = [t \in Types |-> links[i][t]]
    BY <1>1, <2>1
  <2>3. links[i] = NoLinks
    BY <1>3 DEF SeenInv, LinksHaveRows
  <2> QED BY <2>2, <2>3 DEF NoLinks
<1>4. LinksHaveRows(projects, links)'
  BY <1>1, <1>3 DEF LinksHaveRows, NoLinks
<1> QED BY <1>1, <1>2, <1>4 DEF SeenInv
-----------------------------------------------------------------------------
(* What an upload reports is what it wrote.  The row in hand is followed until it is   *)
(* reported, with the links it has so far; nothing that runs beside the job reaches a  *)
(* row it has written, which is not committed.                                         *)

\* n counts the links, all of them inferred.
Tally(row, n) ==
  /\ IsFiniteSet({t \in Types : row[t] # None})
  /\ n = Cardinality({t \in Types : row[t] # None})
  /\ \A t \in Types : row[t] \in {None, "INFERRED"}

Stands(row) == row.outcome = "CREATED" =>
  /\ row.id \in DOMAIN job.mine /\ Tally(SeenLinks[row.id], row.linked)
  /\ row.visible = Visible(job.mine[row.id].has, row.linked)
  /\ job.now # None => row.id # job.now.id

Reported == {job.rows[r] : r \in DOMAIN job.rows} \cup
            UNION {{job.report[f].rows[r] : r \in DOMAIN job.report[f].rows} : f \in DOMAIN job.report}

\* The row in hand: not created yet, created, or indexed and being linked.
HandInv ==
  LET now == job.now IN
  /\ now.id = None => now.linked = 0 /\ now.todo = {}
  /\ now.id # None =>
       /\ now.id \in DOMAIN job.mine /\ job.mine[now.id].text = now.row.text
       /\ job.mine[now.id].has = now.row.has
       /\ Tally(SeenLinks[now.id], now.linked)
       /\ \A t \in now.todo : SeenLinks[now.id][t] = None
       /\ ~job.mine[now.id].indexed => SeenLinks[now.id] = NoLinks /\ now.todo = {}

ImportInv == job # None /\ job.op = "import" =>
  /\ \A i \in DOMAIN job.mine : projects[i] = None /\ job.mine[i] # None
  /\ DOMAIN job.tags \subseteq DOMAIN job.mine
  /\ job.now # None => HandInv
  /\ \A row \in Reported : Stands(row)

LEMMA TallyNone == Tally(NoLinks, 0)
<1>1. {t \in Types : NoLinks[t] # None} = {}
  BY DEF NoLinks
<1>2. \A t \in Types : NoLinks[t] = None
  BY DEF NoLinks
<1> QED BY <1>1, <1>2, FS_EmptySet DEF Tally

LEMMA TallyMore ==
  ASSUME NEW row \in [Types -> Link \cup {None}], NEW n \in Nat, Tally(row, n),
         NEW t \in Types, row[t] = None
  PROVE  Tally([row EXCEPT ![t] = "INFERRED"], n + 1)
<1> DEFINE S == {u \in Types : row[u] # None}
           new == [row EXCEPT ![t] = "INFERRED"]
<1>1. None # "INFERRED"
  BY Apart DEF Link
<1>2. {u \in Types : new[u] # None} = S \cup {t}
  BY <1>1
<1>3. t \notin S /\ IsFiniteSet(S) /\ n = Cardinality(S)
  BY DEF Tally
<1>4. IsFiniteSet(S \cup {t}) /\ Cardinality(S \cup {t}) = n + 1
  BY <1>3, FS_AddElement
<1>5. \A u \in Types : new[u] \in {None, "INFERRED"}
  BY DEF Tally
<1> QED BY <1>2, <1>4, <1>5 DEF Tally

LEMMA TallySays ==
  ASSUME NEW row, NEW n, Tally(row, n)
  PROVE  n > 0 <=> \E t \in Types : row[t] = "INFERRED"
<1> DEFINE S == {t \in Types : row[t] # None}
<1>1. IsFiniteSet(S) /\ n = Cardinality(S) /\ None # "INFERRED"
  BY Apart DEF Tally, Link
<1>2. CASE S = {}
  BY <1>1, <1>2, FS_EmptySet DEF Tally
<1>3. CASE S # {}
  <2>1. n \in Nat /\ n # 0
    <3> HIDE DEF S
    <3> QED BY <1>1, <1>3, FS_CardinalityType, FS_EmptySet
  <2>2. \E t \in Types : row[t] = "INFERRED"
    BY <1>3 DEF Tally
  <2> QED BY <2>1, <2>2
<1> QED BY <1>2, <1>3

LEMMA ReportedSame ==
  ASSUME job'.rows = job.rows, job'.report = job.report PROVE Reported' = Reported
BY DEF Reported

LEMMA ReportedMore ==
  ASSUME job \in JobState, NEW row, job'.rows = Append(job.rows, row), job'.report = job.report
  PROVE  Reported' \subseteq Reported \cup {row}
<1>1. job.rows \in Seq(RowReport)
  BY DEF JobState
<1>2. PICK rows, new : rows = job.rows /\ new = Append(rows, row)
  OBVIOUS
<1>3. \A r \in DOMAIN new : new[r] = row \/ (r \in DOMAIN rows /\ new[r] = rows[r])
  BY <1>1, <1>2
<1>4. job'.rows = new
  BY <1>2
<1> QED BY <1>2, <1>3, <1>4 DEF Reported

LEMMA ReportedFile ==
  ASSUME job \in JobState, NEW outcome, NEW rows, rows \in {<<>>, job.rows}, job'.rows = <<>>,
         job'.report = Append(job.report, [outcome |-> outcome, rows |-> rows])
  PROVE  Reported' \subseteq Reported
<1>1. job.report \in Seq(FileReport)
  BY DEF JobState
<1>2. PICK report, entry, new :
        /\ report = job.report /\ entry = [outcome |-> outcome, rows |-> rows]
        /\ new = Append(report, entry)
  OBVIOUS
<1>3. \A f \in DOMAIN new : new[f] = entry \/ (f \in DOMAIN report /\ new[f] = report[f])
  BY <1>1, <1>2
<1>4. entry.rows = rows /\ DOMAIN <<>> = {}
  BY <1>2
<1>5. job'.report = new
  BY <1>2
<1>6. ASSUME NEW f \in DOMAIN new, NEW r \in DOMAIN new[f].rows PROVE new[f].rows[r] \in Reported
  <2>1. CASE f \in DOMAIN report /\ new[f] = report[f]
    BY <1>2, <2>1 DEF Reported
  <2>2. CASE new[f] = entry
    <3>1. r \in DOMAIN job.rows /\ new[f].rows[r] = job.rows[r]
      BY <1>4, <2>2
    <3> QED BY <3>1 DEF Reported
  <2> QED BY <1>3, <2>1, <2>2
<1> QED BY <1>4, <1>5, <1>6 DEF Reported

LEMMA StandsOn ==
  ASSUME NEW row, Stands(row), DOMAIN job.mine \subseteq DOMAIN job'.mine,
         row.outcome = "CREATED" => job'.mine[row.id].has = job.mine[row.id].has,
         row.outcome = "CREATED" => SeenLinks'[row.id] = SeenLinks[row.id],
         job'.now # None => (row.outcome = "CREATED" => row.id # job'.now.id)
  PROVE  Stands(row)'
BY DEF Stands, Tally
LEMMA StaysImport ==
  ASSUME TypeOK, SeenInv, ImportInv, Stays, job.op = "import",
         job'.now # None => HandInv' /\ job'.now.id = None,
         \A row \in Reported' : row \in Reported \/ Stands(row)'
  PROVE  ImportInv'
<1>1. /\ job # None /\ job' # None /\ job'.op = "import" /\ job \in JobState
      /\ job'.mine = job.mine /\ job'.tags = job.tags /\ UNCHANGED projects
      /\ SeenLinks' = SeenLinks
  BY Apart, StaysSeen DEF Stays, TablesKept, Goes
<1>2. /\ \A i \in DOMAIN job.mine : projects[i] = None /\ job.mine[i] # None
      /\ DOMAIN job.tags \subseteq DOMAIN job.mine /\ \A row \in Reported : Stands(row)
  BY <1>1 DEF ImportInv
<1>3. None \notin DOMAIN job.mine
  <2>1. job.mine \in Writes(Project \cup {None})
    BY <1>1 DEF JobState
  <2> QED BY <2>1, WritesAre, Apart
<1>4. ASSUME NEW row \in Reported' PROVE Stands(row)'
  <2>1. CASE row \in Reported
    <3>1. Stands(row)
      BY <1>2, <2>1
    <3>2. row.outcome = "CREATED" => row.id \in DOMAIN job.mine
      BY <3>1 DEF Stands
    <3> QED BY <1>1, <1>3, <3>1, <3>2, StandsOn
  <2> QED BY <2>1
<1>5. (\A i \in DOMAIN job.mine : projects[i] = None /\ job.mine[i] # None)'
  BY <1>1, <1>2
<1> QED BY <1>1, <1>2, <1>4, <1>5 DEF ImportInv

LEMMA RejectFileImport ==
  ASSUME TypeOK, SeenInv, ImportInv, RejectFile PROVE ImportInv'
<1>1. Stays /\ job \in JobState /\ job.op = "import" /\ job'.now = None
  BY RejectFileStep DEF Stays
<1>2. Reported' \subseteq Reported
  BY <1>1, RejectFileStep, ReportedFile
<1> QED BY <1>1, <1>2, StaysImport

LEMMA EndFileImport ==
  ASSUME TypeOK, SeenInv, ImportInv, EndFile PROVE ImportInv'
<1>1. Stays /\ job \in JobState /\ job.op = "import" /\ job'.now = None
  BY EndFileStep DEF Stays
<1>2. Reported' \subseteq Reported
  BY <1>1, EndFileStep, ReportedFile
<1> QED BY <1>1, <1>2, StaysImport

LEMMA ReadRowImport ==
  ASSUME TypeOK, SeenInv, ImportInv, ReadRow PROVE ImportInv'
<1>1. Stays /\ job \in JobState /\ job.op = "import" /\ job'.report = job.report
  BY ReadRowStep DEF Stays
<1>2. CASE /\ job'.now # None /\ job'.rows = job.rows
           /\ job'.now.id = None /\ job'.now.linked = 0 /\ job'.now.todo = {}
  <2>1. Reported' = Reported
    BY <1>1, <1>2, ReportedSame
  <2>2. HandInv'
    BY <1>2 DEF HandInv
  <2> QED BY <1>1, <1>2, <2>1, <2>2, StaysImport
<1>3. ASSUME NEW row, row.outcome # "CREATED", job'.rows = Append(job.rows, row), job'.now = None
      PROVE  ImportInv'
  <2>1. Reported' \subseteq Reported \cup {row}
    BY <1>1, <1>3, ReportedMore
  <2>2. Stands(row)'
    BY <1>3 DEF Stands
  <2> QED BY <1>1, <1>3, <2>1, <2>2, StaysImport
<1> QED BY <1>2, <1>3, ReadRowStep

LEMMA RefuseRowImport ==
  ASSUME TypeOK, SeenInv, ImportInv, RefuseRow PROVE ImportInv'
<1>1. /\ Stays /\ job \in JobState /\ job.op = "import" /\ job'.report = job.report
      /\ job'.now = None
  BY RefuseRowStep DEF Stays
<1>2. PICK row : row.outcome # "CREATED" /\ job'.rows = Append(job.rows, row)
  BY RefuseRowStep
<1>3. Reported' \subseteq Reported \cup {row}
  BY <1>1, <1>2, ReportedMore
<1>4. Stands(row)'
  BY <1>2 DEF Stands
<1> QED BY <1>1, <1>3, <1>4, StaysImport

LEMMA FinishRowImport ==
  ASSUME TypeOK, SeenInv, ImportInv, FinishRow PROVE ImportInv'
<1>1. /\ Stays /\ job \in JobState /\ job.op = "import" /\ job'.report = job.report
      /\ job # None /\ job.now # None /\ job'.now = None /\ job.now.id \in Ids
  BY FinishRowStep, Apart DEF Stays
<1>2. PICK row \in RowReport :
        /\ row.outcome = "CREATED" /\ row.id = job.now.id /\ row.linked = job.now.linked
        /\ row.visible = Visible(job.now.row.has, job.now.linked)
        /\ job'.rows = Append(job.rows, row)
  BY FinishRowStep
<1>3. Reported' \subseteq Reported \cup {row}
  BY <1>1, <1>2, ReportedMore
<1>4. /\ job.now.id \in DOMAIN job.mine /\ Tally(SeenLinks[job.now.id], job.now.linked)
      /\ job.mine[job.now.id].has = job.now.row.has
  BY <1>1, Apart DEF ImportInv, HandInv
<1>5. job'.mine = job.mine /\ SeenLinks' = SeenLinks
  BY <1>1, StaysSeen DEF Stays, Goes
<1>6. Stands(row)'
  BY <1>1, <1>2, <1>4, <1>5 DEF Stands, Tally
<1> QED BY <1>1, <1>3, <1>6, StaysImport

LEMMA AddRowImport ==
  ASSUME TypeOK, SeenInv, ImportInv, AddRow PROVE ImportInv'
<1>1. /\ job # None /\ job' # None /\ job \in JobState /\ job' \in JobState /\ job.op = "import"
      /\ job.now # None /\ job'.now # None /\ job.now.id = None /\ Same(job, job')
      /\ job'.tags = job.tags /\ UNCHANGED <<projects, links>> /\ SeenLinks' = SeenLinks
  BY AddRowStep, AddRowSeen, Apart
<1>2. /\ \A i \in DOMAIN job.mine : projects[i] = None /\ job.mine[i] # None
      /\ DOMAIN job.tags \subseteq DOMAIN job.mine /\ HandInv /\ \A row \in Reported : Stands(row)
      /\ job.now.linked = 0 /\ job.now.todo = {}
  BY <1>1 DEF ImportInv, HandInv
<1>3. Reported' = Reported
  BY <1>1, ReportedSame DEF Same
<1>4. CASE UNCHANGED used /\ job'.mine = job.mine /\ job'.now = job.now
  <2>1. HandInv'
    BY <1>1, <1>2, <1>4 DEF HandInv
  <2>2. ASSUME NEW row \in Reported' PROVE Stands(row)'
    <3>1. Stands(row)
      BY <1>2, <1>3, <2>2
    <3> QED BY <1>1, <1>4, <3>1 DEF Stands, Tally
  <2> QED BY <1>1, <1>2, <1>4, <2>1, <2>2 DEF ImportInv, Same
<1>5. ASSUME NEW i, NEW x, i = used + 1, used < MaxProjects, job'.mine = Writing(job.mine, i, x),
             x # None, x.text = job.now.row.text, x.has = job.now.row.has, x.indexed = FALSE,
             job'.now.id = i, job'.now.row = job.now.row, job'.now.linked = job.now.linked,
             job'.now.todo = job.now.todo
      PROVE  ImportInv'
  <2>1. i \in Ids /\ i \notin DOMAIN job.mine /\ projects[i] = None
    <3>1. used \in Nat /\ Live(projects) \subseteq 1..used /\ DOMAIN job.mine \subseteq 1..used
      BY <1>1 DEF TypeOK, SeenInv
    <3>2. i \in Ids /\ i \notin 1..used
      BY <1>5, <3>1, RegistryAssumption DEF Ids
    <3> QED BY <3>1, <3>2 DEF Live
  <2>2. /\ DOMAIN job'.mine = DOMAIN job.mine \cup {i}
        /\ \A k \in DOMAIN job'.mine : job'.mine[k] = IF k = i THEN x ELSE job.mine[k]
    BY <1>5 DEF Writing
  <2>3. SeenLinks[i] = NoLinks
    <3>1. Seen[i] = None
      BY <2>1, OverIs DEF Seen
    <3> QED BY <1>1, <2>1, <3>1 DEF SeenInv, LinksHaveRows
  <2>4. i # None
    BY <2>1, Apart
  <2>5. HandInv'
    <3>1. /\ job'.now.id = i /\ i # None /\ job'.mine[i] = x /\ i \in DOMAIN job'.mine
          /\ job'.now.linked = 0 /\ job'.now.todo = {} /\ job'.now.row = job.now.row
      BY <1>2, <1>5, <2>2, <2>4
    <3>2. SeenLinks'[i] = NoLinks /\ Tally(SeenLinks'[i], 0)
      BY <1>1, <2>3, TallyNone
    <3> QED BY <1>5, <3>1, <3>2 DEF HandInv, Tally, NoLinks
  <2>6. ASSUME NEW row \in Reported' PROVE Stands(row)'
    <3>1. Stands(row)
      BY <1>2, <1>3, <2>6
    <3>2. row.outcome = "CREATED" => row.id # i /\ row.id \in DOMAIN job.mine
      BY <2>1, <3>1 DEF Stands
    <3>3. row.outcome = "CREATED" => job'.mine[row.id].has = job.mine[row.id].has
      BY <2>2, <3>2
    <3> QED BY <1>1, <1>5, <2>2, <3>1, <3>2, <3>3, StandsOn
  <2>7. (\A k \in DOMAIN job.mine : projects[k] = None /\ job.mine[k] # None)'
    BY <1>1, <1>2, <1>5, <2>1, <2>2
  <2> QED BY <1>1, <1>2, <2>2, <2>5, <2>6, <2>7 DEF ImportInv, Same
<1>6. PICK p : p = [award |-> job.now.row.award, text |-> job.now.row.text,
                 has |-> job.now.row.has, indexed |-> FALSE]
  OBVIOUS
<1>7. p # None /\ p.text = job.now.row.text /\ p.has = job.now.row.has /\ p.indexed = FALSE
  <2>1. p \in Project
    BY <1>6, HandTyped DEF AddRow, Project
  <2> QED BY <1>6, <2>1, Apart
<1> QED BY <1>4, <1>5, <1>6, <1>7, AddRowStep
LEMMA RowInHandIsWritten ==
  ASSUME TypeOK, ImportInv, InHand, job.now.id # None
  PROVE  job.now.id \in DOMAIN job.mine /\ job.mine[job.now.id] # None
BY HandTyped DEF ImportInv, HandInv, InHand, Importing, Running

LEMMA IndexRowImport ==
  ASSUME TypeOK, SeenInv, ImportInv, IndexRow PROVE ImportInv'
<1>1. job.now.id \in DOMAIN job.mine /\ job.mine[job.now.id] # None
  BY RowInHandIsWritten DEF IndexRow
<1>2. /\ job # None /\ job' # None /\ job \in JobState /\ job' \in JobState /\ job.op = "import"
      /\ job.now # None /\ job.now.id \in Ids /\ job'.tags = job.tags
      /\ ~job.mine[job.now.id].indexed /\ SeenLinks' = SeenLinks
  BY <1>1, IndexRowStep, IndexRowSeen, Apart
<1>3. CASE Stays /\ job'.now = None /\ job'.rows = <<>>
           /\ job'.report = Append(job.report, [outcome |-> "ERROR", rows |-> <<>>])
  <2>1. Reported' \subseteq Reported
    BY <1>2, <1>3, ReportedFile
  <2> QED BY <1>2, <1>3, <2>1, StaysImport
<1>4. ASSUME NEW i \in Ids, NEW x, i = job.now.id, x = [job.mine[i] EXCEPT !.indexed = TRUE],
             job'.mine = Writing(job.mine, i, x), Same(job, job'), job'.now # None,
             UNCHANGED projects, job'.now.id = i, job'.now.row = job.now.row,
             job'.now.linked = job.now.linked, job'.now.todo \subseteq Types
      PROVE  ImportInv'
  <2>1. /\ \A k \in DOMAIN job.mine : projects[k] = None /\ job.mine[k] # None
        /\ DOMAIN job.tags \subseteq DOMAIN job.mine /\ HandInv /\ \A row \in Reported : Stands(row)
    BY <1>2 DEF ImportInv
  <2>2. i # None /\ i \in DOMAIN job.mine /\ job.mine[i] \in Project
    <3>1. job.mine \in Writes(Project \cup {None})
      BY <1>2 DEF JobState
    <3> QED BY <1>1, <1>4, <3>1, WritesAre, Apart
  <2>3. x.text = job.mine[i].text /\ x.has = job.mine[i].has /\ x.indexed = TRUE /\ x \in Project
    BY <1>4, <2>2 DEF Project
  <2>4. x # None
    BY <2>3, Apart
  <2>5. /\ DOMAIN job'.mine = DOMAIN job.mine
        /\ \A k \in DOMAIN job'.mine : job'.mine[k] = IF k = i THEN x ELSE job.mine[k]
    <3>1. job'.mine = Writing(job.mine, i, x)
      BY <1>4
    <3> QED BY ONLY <2>2, <3>1 DEF Writing
  <2>6. /\ job.mine[i].text = job.now.row.text /\ Tally(SeenLinks[i], job.now.linked)
        /\ job.mine[i].has = job.now.row.has /\ SeenLinks[i] = NoLinks
    BY <1>2, <1>4, <2>1, <2>2 DEF HandInv
  <2>7. /\ job'.mine[i] = x /\ i \in DOMAIN job'.mine /\ job'.now.id = i
        /\ job'.now.linked = job.now.linked /\ job'.now.row = job.now.row
        /\ SeenLinks'[i] = NoLinks /\ Tally(NoLinks, job'.now.linked)
    BY <1>2, <1>4, <2>2, <2>5, <2>6
  <2>8. \A t \in job'.now.todo : SeenLinks'[i][t] = None
    BY <1>4, <2>7 DEF NoLinks
  <2>9. HandInv'
    BY ONLY <2>2, <2>3, <2>6, <2>7, <2>8 DEF HandInv, Tally, NoLinks
  <2>10. Reported' = Reported
    BY <1>4, ReportedSame DEF Same
  <2>11. ASSUME NEW row \in Reported' PROVE Stands(row)'
    <3>1. Stands(row) /\ job'.now.id = job.now.id
      BY <1>4, <2>1, <2>10, <2>11
    <3>2. row.outcome = "CREATED" => row.id # job'.now.id /\ row.id \in DOMAIN job.mine
      BY <1>2, <3>1 DEF Stands
    <3>3. row.outcome = "CREATED" => job'.mine[row.id].has = job.mine[row.id].has
      BY <2>3, <2>5, <3>2
    <3> QED BY <1>2, <2>5, <3>1, <3>2, <3>3, StandsOn
  <2>12. (\A k \in DOMAIN job.mine : projects[k] = None /\ job.mine[k] # None)'
    BY <1>4, <2>1, <2>4, <2>5
  <2>13. (DOMAIN job.tags \subseteq DOMAIN job.mine)' /\ job'.op = "import"
    BY <1>2, <1>4, <2>1, <2>5 DEF Same
  <2> QED BY ONLY <1>2, <2>9, <2>11, <2>12, <2>13 DEF ImportInv
<1> QED BY <1>1, <1>2, <1>3, <1>4, IndexRowStep

LEMMA TagRowImport ==
  ASSUME TypeOK, SeenInv, ImportInv, TagRow PROVE ImportInv'
<1>1. job.now.id \in DOMAIN job.mine /\ job.mine[job.now.id] # None
  BY RowInHandIsWritten DEF TagRow
<1>2. /\ job # None /\ job' # None /\ job \in JobState /\ job' \in JobState /\ job.op = "import"
      /\ job.now # None /\ job'.now # None /\ job.now.id \in Ids /\ Same(job, job')
      /\ job'.mine = job.mine /\ UNCHANGED <<projects, links>> /\ job.now.linked \in Nat
      /\ Seen[job.now.id].indexed /\ job'.now.id = job.now.id /\ job'.now.row = job.now.row
  BY TagRowStep, Apart DEF TablesKept
<1>3. PICK i : i = job.now.id
  OBVIOUS
<1>4. /\ \A k \in DOMAIN job.mine : projects[k] = None /\ job.mine[k] # None
      /\ DOMAIN job.tags \subseteq DOMAIN job.mine /\ HandInv /\ \A row \in Reported : Stands(row)
  BY <1>2 DEF ImportInv
<1>5. i # None /\ i \in Ids /\ job.mine[i].indexed
  BY <1>1, <1>2, <1>3, OverIs, Apart DEF Seen
<1>6. PICK t \in job.now.todo :
        /\ t \in Types /\ job'.now.todo = job.now.todo \ {t}
        /\ \/ /\ job'.now.linked = job.now.linked + 1
              /\ job'.tags = Writing(job.tags, i, [SeenLinks[i] EXCEPT ![t] = "INFERRED"])
           \/ job'.now.linked = job.now.linked /\ job'.tags = job.tags
  BY <1>3, TagRowStep
<1>7. /\ job.mine[i].text = job.now.row.text /\ Tally(SeenLinks[i], job.now.linked)
      /\ job.mine[i].has = job.now.row.has
      /\ \A u \in job.now.todo : SeenLinks[i][u] = None
  BY <1>3, <1>4, <1>5 DEF HandInv
<1>8. Reported' = Reported
  BY <1>2, ReportedSame DEF Same
<1>9. ASSUME /\ DOMAIN job'.tags \subseteq DOMAIN job.mine
             /\ \A k \in Ids : k # i => SeenLinks'[k] = SeenLinks[k]
             /\ Tally(SeenLinks'[i], job'.now.linked)
             /\ \A u \in job'.now.todo : SeenLinks'[i][u] = None
      PROVE  ImportInv'
  <2>1. /\ job'.now.id = i /\ i \in DOMAIN job'.mine /\ job'.mine[i].indexed
        /\ job'.mine[i].text = job'.now.row.text /\ job'.mine[i].has = job'.now.row.has
    BY <1>1, <1>2, <1>3, <1>5, <1>7
  <2>2. HandInv'
    BY <1>5, <1>9, <2>1 DEF HandInv, Tally
  <2>3. ASSUME NEW row \in Reported' PROVE Stands(row)'
    <3>1. Stands(row)
      BY <1>4, <1>8, <2>3
    <3>2. row.outcome = "CREATED" => row.id # i /\ row.id \in DOMAIN job.mine
      BY <1>2, <1>3, <3>1 DEF Stands
    <3>3. DOMAIN job.mine \subseteq Ids
      <4>1. job.mine \in Writes(Project \cup {None})
        BY <1>2 DEF JobState
      <4> QED BY <4>1, WritesAre
    <3>4. row.outcome = "CREATED" => SeenLinks'[row.id] = SeenLinks[row.id]
      BY <1>9, <3>2, <3>3
    <3> QED BY <1>2, <1>3, <3>1, <3>2, <3>4, StandsOn
  <2> QED BY <1>2, <1>4, <1>9, <2>2, <2>3 DEF ImportInv, Same
<1>10. CASE job'.now.linked = job.now.linked /\ job'.tags = job.tags
  <2>1. SeenLinks' = SeenLinks
    BY <1>2, <1>10, LinksSame
  <2>2. Tally(SeenLinks'[i], job'.now.linked) /\ \A u \in job'.now.todo : SeenLinks'[i][u] = None
    BY <1>6, <1>7, <1>10, <2>1
  <2> QED BY <1>4, <1>9, <1>10, <2>1, <2>2
<1>11. ASSUME NEW row, row = [SeenLinks[i] EXCEPT ![t] = "INFERRED"],
              job'.now.linked = job.now.linked + 1, job'.tags = Writing(job.tags, i, row)
       PROVE  ImportInv'
  <2>1. \A k \in Ids : SeenLinks'[k] = IF k = i THEN row ELSE SeenLinks[k]
    <3>1. job'.tags = Writing(job.tags, i, row) /\ UNCHANGED links
      BY <1>2, <1>11
    <3> QED BY ONLY <3>1, LinksWriting
  <2>2. SeenLinks[i] \in [Types -> Link \cup {None}]
    BY <1>2, <1>5, SeenTyped
  <2>3. Tally(row, job'.now.linked)
    <3>1. PICK old, n : old = SeenLinks[i] /\ n = job.now.linked
      OBVIOUS
    <3>2. Tally([old EXCEPT ![t] = "INFERRED"], n + 1)
      BY <1>2, <1>6, <1>7, <2>2, <3>1, TallyMore
    <3> QED BY <1>11, <3>1, <3>2
  <2>4. \A u \in job'.now.todo : row[u] = None
    BY <1>6, <1>7, <1>11, <2>2
  <2>5. DOMAIN job'.tags \subseteq DOMAIN job.mine
    <3>1. DOMAIN job'.tags = DOMAIN job.tags \cup {i}
      BY <1>11 DEF Writing
    <3> QED BY <1>1, <1>3, <1>4, <3>1
  <2> QED BY <1>5, <1>9, <2>1, <2>3, <2>4, <2>5
<1> QED BY <1>6, <1>10, <1>11

LEMMA StartImportInv ==
  ASSUME TypeOK, Started PROVE ImportInv'
<1>1. /\ job'.mine = <<>> /\ job'.tags = <<>> /\ job'.now = None /\ job'.report = <<>>
      /\ job'.rows = <<>>
  BY DEF Started, Fresh
<1>2. DOMAIN job'.mine = {} /\ DOMAIN job'.tags = {} /\ Reported' = {}
  BY <1>1 DEF Reported
<1> QED BY <1>1, <1>2 DEF ImportInv

\* A request leaves the rows of the job alone.
LEMMA RequestBeside ==
  ASSUME TypeOK, SeenInv, Request, job # None, NEW k \in Ids, k \in DOMAIN job.mine, projects[k] = None
  PROVE  projects'[k] = None /\ links'[k] = links[k] /\ UNCHANGED <<job, overlap>>
<1>1. CASE \E a \in Awards \cup {None}, text \in Texts, has \in Entered : PostProject(a, text, has)
  <2>1. k # used + 1
    BY DEF SeenInv, TypeOK
  <2> QED BY <1>1, <2>1 DEF PostProject, TypeOK
<1>2. CASE \E i \in Ids, text \in Texts, has \in Entered :
             /\ projects[i] # None
             /\ \E a \in Awards \cup {projects[i].award} : PatchProject(i, a, text, has)
  BY <1>2 DEF PatchProject, TypeOK
<1>3. CASE \E i \in Ids : DeleteProject(i)
  BY <1>3 DEF DeleteProject, TypeOK
<1>4. CASE \E i \in Ids, t \in Types : TagProject(i, t)
  BY <1>4 DEF TagProject, TypeOK
<1>5. CASE \E i \in Ids, t \in Types : Untag(i, t)
  <2>1. PICK i \in Ids, t \in Types : Untag(i, t)
    BY <1>5
  <2>2. projects[i] # None
    BY <2>1 DEF Untag, SeenInv, LinksHaveRows, NoLinks
  <2> QED BY <2>1, <2>2 DEF Untag, TypeOK
<1>6. CASE \E t \in Types : Deactivate(t)
  BY <1>6 DEF Deactivate
<1>7. CASE LoadSeed
  BY <1>7 DEF LoadSeed, Idle
<1> QED BY <1>1, <1>2, <1>3, <1>4, <1>5, <1>6, <1>7 DEF Request

LEMMA RequestImport ==
  ASSUME TypeOK, SeenInv, ImportInv, Request PROVE ImportInv'
<1>0. UNCHANGED job
  BY DEF Request, PostProject, PatchProject, DeleteProject, TagProject, Untag, Deactivate, LoadSeed
<1> SUFFICES ASSUME job # None, job.op = "import" PROVE ImportInv'
  BY <1>0 DEF ImportInv
<1>1. /\ \A i \in DOMAIN job.mine : projects[i] = None /\ job.mine[i] # None
      /\ DOMAIN job.tags \subseteq DOMAIN job.mine /\ (job.now # None => HandInv)
      /\ \A row \in Reported : Stands(row)
  BY DEF ImportInv
<1>2. DOMAIN job.mine \subseteq Ids
  <2>1. job.mine \in Writes(Project \cup {None})
    BY DEF TypeOK, JobState
  <2> QED BY <2>1, WritesAre
<1>3. \A k \in DOMAIN job.mine : projects'[k] = None /\ links'[k] = links[k]
  BY <1>1, <1>2, RequestBeside
<1>4. \A k \in DOMAIN job.mine : SeenLinks'[k] = SeenLinks[k]
  BY <1>0, <1>2, <1>3 DEF SeenLinks, Over
<1>5. Reported' = Reported
  BY <1>0, ReportedSame
<1>6. ASSUME NEW row \in Reported' PROVE Stands(row)'
  <2>1. Stands(row)
    BY <1>1, <1>5, <1>6
  <2>2. row.outcome = "CREATED" => SeenLinks'[row.id] = SeenLinks[row.id]
    BY <1>4, <2>1 DEF Stands
  <2>3. job'.now # None => (row.outcome = "CREATED" => row.id # job'.now.id)
    BY <1>0, <2>1 DEF Stands
  <2> QED BY <1>0, <2>1, <2>2, <2>3, StandsOn
<1>7. job'.now # None => HandInv'
  BY <1>0, <1>1, <1>4 DEF HandInv, Tally, NoLinks
<1>8. (\A i \in DOMAIN job.mine : projects[i] = None /\ job.mine[i] # None)'
  BY <1>0, <1>1, <1>3
<1> QED BY <1>0, <1>1, <1>6, <1>7, <1>8 DEF ImportInv
-----------------------------------------------------------------------------
(* A job that runs alone.  The awards it sees are all the awards there are, so the     *)
(* check before the INSERT is enough; and it changes a vector only of a row it has     *)
(* written from the same text, so that its commit leaves nothing out of step.          *)

AloneInv == ~overlap =>
  /\ IndexedMeansFound
  /\ job # None =>
       /\ job.failed # "duplicate"
       /\ job.now # None /\ job.now.id = None => OfAward(Seen, job.now.row.award) = {}
       /\ job.failed = None =>
            /\ \A i \in job.touched : Seen[i] # None /\ Seen[i].indexed => vectors[i] = Seen[i].text
            /\ \A i \in DOMAIN job.mine \ job.touched : job.mine[i] # None => ~job.mine[i].indexed

LEMMA NotDuplicate == None # "duplicate" /\ None # "gone" /\ None # "vector"
BY Apart DEF Failure

LEMMA FoundOn ==
  ASSUME TypeOK, IndexedMeansFound, UNCHANGED <<overlap, projects, torn>>, job # None, job' # None,
         job.touched \subseteq job'.touched, \A k \in Ids \ job'.touched : vectors'[k] = vectors[k]
  PROVE  IndexedMeansFound'
BY DEF IndexedMeansFound, Live, Moving

\* Nothing that the job has written or stored changes.
LEMMA AloneKept ==
  ASSUME TypeOK, AloneInv, UNCHANGED <<overlap, projects, torn, vectors>>, job # None, job' # None,
         job'.mine = job.mine, job'.touched = job.touched,
         job'.failed \in {job.failed, "misfit", "vector"},
         ~overlap /\ job'.now # None /\ job'.now.id = None => OfAward(Seen, job'.now.row.award) = {}
  PROVE  AloneInv'
<1> SUFFICES ASSUME ~overlap PROVE AloneInv'
  BY DEF AloneInv
<1>1. Seen' = Seen
  BY SeenSame
<1>2. IndexedMeansFound'
  BY FoundOn DEF AloneInv
<1>3. job'.failed # "duplicate" /\ (job'.failed = None => job.failed = None)
  BY Apart DEF AloneInv, Failure
<1>4. job'.now # None /\ job'.now.id = None => OfAward(Seen', job'.now.row.award) = {}
  BY <1>1
<1> QED BY <1>1, <1>2, <1>3, <1>4 DEF AloneInv, OfAward, Live

\* Project i is written, or deleted, and its vector changed with it.
LEMMA AloneWriting ==
  ASSUME TypeOK, AloneInv, ~overlap, UNCHANGED <<overlap, projects, torn>>, job # None, job' # None,
         job.failed = None, job'.failed = None, job'.now = None \/ job'.now.id # None,
         NEW i \in Ids, NEW x, job'.mine = Writing(job.mine, i, x),
         job'.touched = job.touched \cup {i}, \A k \in Ids : k # i => vectors'[k] = vectors[k],
         x # None => vectors'[i] = x.text, job \in JobState
  PROVE  AloneInv'
<1>1. \A k \in Ids : Seen'[k] = IF k = i THEN x ELSE Seen[k]
  <2>1. UNCHANGED projects
    OBVIOUS
  <2> QED BY ONLY <2>1, job'.mine = Writing(job.mine, i, x), SeenWriting
<1>2. IndexedMeansFound'
  BY FoundOn DEF AloneInv
<1>3. job.touched \subseteq Ids
  BY DEF JobState
<1>4. \A k \in job'.touched : Seen'[k] # None /\ Seen'[k].indexed => vectors'[k] = Seen'[k].text
  BY <1>1, <1>3 DEF AloneInv
<1>5. \A k \in DOMAIN job'.mine \ job'.touched : job'.mine[k] # None => ~job'.mine[k].indexed
  <2>1. /\ DOMAIN job'.mine = DOMAIN job.mine \cup {i}
        /\ \A k \in DOMAIN job'.mine : job'.mine[k] = IF k = i THEN x ELSE job.mine[k]
    BY ONLY job'.mine = Writing(job.mine, i, x) DEF Writing
  <2> QED BY <2>1 DEF AloneInv
<1> QED BY <1>2, <1>4, <1>5, NotDuplicate DEF AloneInv

LEMMA StaysAlone ==
  ASSUME TypeOK, AloneInv, Stays, job.failed = None,
         job'.now = None \/ (job'.now.id = None => OfAward(Seen, job'.now.row.award) = {})
  PROVE  AloneInv'
BY Apart, AloneKept DEF Stays, TablesKept, Goes

LEMMA AddRowAlone ==
  ASSUME TypeOK, SeenInv, AloneInv, AddRow PROVE AloneInv'
<1>1. /\ job # None /\ job' # None /\ job \in JobState /\ job' \in JobState /\ job.failed = None
      /\ job.now # None /\ job.now.id = None /\ job'.touched = job.touched
      /\ UNCHANGED <<overlap, projects, vectors, torn>>
  BY AddRowStep, Apart
<1> SUFFICES ASSUME ~overlap PROVE AloneInv'
  BY <1>1 DEF AloneInv
<1>2. OfAward(Seen, job.now.row.award) = {}
  BY <1>1 DEF AloneInv
<1>3. CASE job'.mine = job.mine /\ job'.now = job.now
           /\ (job'.failed = "duplicate" => OfAward(Seen, job.now.row.award) # {})
  <2>1. job'.failed \in {"misfit", "gone", "vector", None}
    BY <1>1, <1>2, <1>3 DEF JobState, Failure
  <2>2. Seen' = Seen
    BY <1>1, <1>3, SeenSame
  <2>3. IndexedMeansFound'
    BY <1>1, FoundOn DEF AloneInv
  <2>4. job'.failed # "duplicate"
    BY <2>1, NotDuplicate
  <2> QED BY <1>1, <1>2, <1>3, <2>2, <2>3, <2>4 DEF AloneInv, OfAward, Live
<1>4. ASSUME NEW i, NEW x, i = used + 1, used < MaxProjects, job'.mine = Writing(job.mine, i, x),
             x.indexed = FALSE, job'.now.id = i, job'.failed = None
      PROVE  AloneInv'
  <2>1. i \in Ids /\ i # None
    BY <1>4, RegistryAssumption, Apart DEF Ids, TypeOK
  <2>2. \A k \in Ids : Seen'[k] = IF k = i THEN x ELSE Seen[k]
    BY <1>1, <1>4, SeenWriting
  <2>3. IndexedMeansFound'
    BY <1>1, FoundOn DEF AloneInv
  <2>4. job.touched \subseteq Ids
    BY <1>1 DEF JobState
  <2>5. \A k \in job'.touched : Seen'[k] # None /\ Seen'[k].indexed => vectors'[k] = Seen'[k].text
    BY <1>1, <1>4, <2>2, <2>4 DEF AloneInv
  <2>6. \A k \in DOMAIN job'.mine \ job'.touched : job'.mine[k] # None => ~job'.mine[k].indexed
    <3>1. /\ DOMAIN job'.mine = DOMAIN job.mine \cup {i}
          /\ \A k \in DOMAIN job'.mine : job'.mine[k] = IF k = i THEN x ELSE job.mine[k]
      BY <1>4 DEF Writing
    <3> QED BY <1>1, <1>4, <3>1 DEF AloneInv
  <2> QED BY <1>1, <1>4, <2>1, <2>3, <2>5, <2>6, NotDuplicate DEF AloneInv
<1>5. PICK p : p = [award |-> job.now.row.award, text |-> job.now.row.text,
                 has |-> job.now.row.has, indexed |-> FALSE]
  OBVIOUS
<1>6. p.indexed = FALSE
  BY <1>5
<1> QED BY <1>3, <1>4, <1>5, <1>6, AddRowStep

LEMMA IndexRowAlone ==
  ASSUME TypeOK, SeenInv, ImportInv, AloneInv, IndexRow PROVE AloneInv'
<1>1. job.now.id \in DOMAIN job.mine /\ job.mine[job.now.id] # None
  BY RowInHandIsWritten DEF IndexRow
<1>2. /\ job # None /\ job' # None /\ job \in JobState /\ job.op = "import" /\ job.failed = None
      /\ job'.failed = None /\ job.now # None /\ job.now.id \in Ids
  BY <1>1, IndexRowStep, Apart
<1>3. CASE Stays /\ job'.now = None
  BY <1>2, <1>3, StaysAlone
<1>4. ASSUME NEW i \in Ids, NEW x, i = job.now.id, x = [job.mine[i] EXCEPT !.indexed = TRUE],
             job'.mine = Writing(job.mine, i, x), job'.now.id = i,
             vectors' = [vectors EXCEPT ![i] = job.now.row.text],
             UNCHANGED <<overlap, projects, torn>>, job'.touched = job.touched \cup {i}
      PROVE  AloneInv'
  <2>1. job.mine[i].text = job.now.row.text /\ i # None
    BY <1>2, <1>4, Apart DEF ImportInv, HandInv
  <2>2. job.mine[i] \in Project
    <3>1. job.mine \in Writes(Project \cup {None})
      BY <1>2 DEF JobState
    <3> QED BY <1>1, <1>4, <3>1, WritesAre
  <2>3. x.text = job.now.row.text
    BY <1>4, <2>1, <2>2 DEF Project
  <2>4. (\A k \in Ids : k # i => vectors'[k] = vectors[k]) /\ vectors'[i] = x.text
    BY <1>4, <2>3 DEF TypeOK
  <2>5. /\ job'.mine = Writing(job.mine, i, x) /\ job'.now.id # None
        /\ UNCHANGED <<overlap, projects, torn>> /\ job'.touched = job.touched \cup {i}
    BY <1>4, <2>1
  <2>6. CASE overlap
    BY <2>5, <2>6 DEF AloneInv
  <2>7. CASE ~overlap
    BY ONLY TypeOK, AloneInv, <1>2, <2>4, <2>5, <2>7, i \in Ids, AloneWriting
  <2> QED BY <2>6, <2>7
<1> QED BY <1>1, <1>2, <1>3, <1>4, IndexRowStep
LEMMA DeleteNextAlone ==
  ASSUME TypeOK, SeenInv, AloneInv, DeleteNext PROVE AloneInv'
<1>1. /\ job # None /\ job' # None /\ job \in JobState /\ job.failed = None /\ job'.failed = None
      /\ job.op # "import" /\ job'.now = job.now /\ UNCHANGED <<overlap, projects, torn>>
  BY DeleteNextStep, Apart
<1>2. PICK i \in job.todo :
        /\ i \in Ids /\ vectors' \in {vectors, [vectors EXCEPT ![i] = None]}
        /\ job'.mine = Writing(job.mine, i, None) /\ job'.touched = job.touched \cup {i}
  BY DeleteNextStep
<1>3. job'.now = None
  BY <1>1 DEF SeenInv
<1>4. \A k \in Ids : k # i => vectors'[k] = vectors[k]
  BY <1>2 DEF TypeOK
<1>5. CASE overlap
  BY <1>1, <1>5 DEF AloneInv
<1>6. CASE ~overlap
  BY ONLY TypeOK, AloneInv, <1>1, <1>2, <1>3, <1>4, <1>6, AloneWriting
<1> QED BY <1>5, <1>6

LEMMA BackfillNextAlone ==
  ASSUME TypeOK, SeenInv, AloneInv, BackfillNext PROVE AloneInv'
<1>0. \A i \in job.todo : job.read[i] # None
  BY DEF BackfillNext, Running, SeenInv
<1>1. /\ job # None /\ job' # None /\ job \in JobState /\ job.failed = None
      /\ job.op # "import" /\ job'.now = job.now /\ UNCHANGED <<overlap, projects, torn>>
  BY <1>0, BackfillNextStep, Apart
<1>2. job'.now = None
  BY <1>1 DEF SeenInv
<1>3. CASE overlap
  BY <1>1, <1>3 DEF AloneInv
<1>4. CASE UNCHANGED vectors /\ job'.mine = job.mine /\ job'.touched = job.touched /\ job'.failed = "vector"
  BY <1>1, <1>2, <1>4, AloneKept
<1>5. ASSUME ~overlap, NEW i \in Ids, job.read[i] \in Project, job'.touched = job.touched \cup {i},
             vectors' = [vectors EXCEPT ![i] = job.read[i].text], job'.mine = job.mine,
             job'.failed = "gone"
      PROVE  AloneInv'
  <2>1. \A k \in Ids \ job'.touched : vectors'[k] = vectors[k]
    BY <1>5 DEF TypeOK
  <2>2. IndexedMeansFound'
    BY <1>1, <1>5, <2>1, FoundOn DEF AloneInv
  <2> QED BY <1>1, <1>2, <1>5, <2>2, NotDuplicate DEF AloneInv
<1>6. ASSUME ~overlap, NEW i \in Ids, job.read[i] \in Project, job'.touched = job.touched \cup {i},
             vectors' = [vectors EXCEPT ![i] = job.read[i].text], job'.failed = None,
             NEW x, x = [job.read[i] EXCEPT !.indexed = TRUE], job'.mine = Writing(job.mine, i, x)
      PROVE  AloneInv'
  <2>1. x.text = job.read[i].text
    BY <1>6 DEF Project
  <2>2. (\A k \in Ids : k # i => vectors'[k] = vectors[k]) /\ vectors'[i] = x.text
    BY <1>6, <2>1 DEF TypeOK
  <2>3. /\ job'.mine = Writing(job.mine, i, x) /\ job'.failed = None /\ ~overlap
        /\ job'.touched = job.touched \cup {i}
    BY <1>6
  <2> QED BY ONLY TypeOK, AloneInv, <1>1, <1>2, <2>2, <2>3, i \in Ids, AloneWriting
<1> QED BY <1>0, <1>3, <1>4, <1>5, <1>6, BackfillNextStep

\* The other steps of a job write no project and store no vector.
LEMMA QuietAlone ==
  ASSUME TypeOK, SeenInv, ImportInv, AloneInv,
         RejectFile \/ EndFile \/ ReadRow \/ RefuseRow \/ FinishRow \/ TagRow \/ ListAgain \/ TagNext
  PROVE  AloneInv'
<1>1. CASE RejectFile
  BY <1>1, RejectFileStep, StaysAlone
<1>2. CASE EndFile
  BY <1>2, EndFileStep, StaysAlone
<1>3. CASE ReadRow
  BY <1>3, ReadRowStep, StaysAlone
<1>4. CASE FinishRow
  BY <1>4, FinishRowStep, StaysAlone
<1>5. CASE TagRow
  <2>1. /\ job # None /\ job' # None /\ UNCHANGED <<overlap, projects, torn, vectors>>
        /\ job'.mine = job.mine /\ job'.touched = job.touched /\ job'.failed = job.failed
        /\ job'.now.id \in Ids
    BY <1>5, TagRowStep, Apart DEF TablesKept
  <2> QED BY <2>1, Apart, AloneKept
<1>6. CASE ListAgain
  <2>1. /\ job # None /\ job' # None /\ UNCHANGED <<overlap, projects, torn, vectors>>
        /\ job'.mine = job.mine /\ job'.touched = job.touched /\ job'.failed = job.failed
        /\ job'.now = job.now /\ job.op # "import"
    BY <1>6, ListAgainStep, Apart DEF TablesKept, Goes
  <2>2. job'.now = None
    BY <2>1 DEF SeenInv
  <2> QED BY <2>1, <2>2, AloneKept
<1>7. CASE TagNext
  <2>1. /\ job # None /\ job' # None /\ UNCHANGED <<overlap, projects, torn, vectors>>
        /\ job'.mine = job.mine /\ job'.touched = job.touched /\ job'.failed = job.failed
        /\ job'.now = job.now /\ job.op # "import"
    BY <1>7, TagNextStep, Apart DEF TablesKept
  <2>2. job'.now = None
    BY <2>1 DEF SeenInv
  <2> QED BY <2>1, <2>2, AloneKept
<1>8. CASE RefuseRow
  BY <1>8, RefuseRowStep, StaysAlone
<1> QED BY <1>1, <1>2, <1>3, <1>4, <1>5, <1>6, <1>7, <1>8

LEMMA StartAlone ==
  ASSUME TypeOK, AloneInv, Started PROVE AloneInv'
<1>1. /\ job = None /\ job' # None /\ UNCHANGED <<overlap, projects, torn, vectors>>
      /\ job'.mine = <<>> /\ job'.touched = {} /\ job'.now = None /\ job'.failed = None
  BY Apart DEF Started, Fresh
<1>2. ~overlap => IndexedMeansFound'
  BY <1>1 DEF AloneInv, IndexedMeansFound, Live, Moving
<1>3. DOMAIN job'.mine = {}
  BY <1>1
<1> QED BY <1>1, <1>2, <1>3, NotDuplicate DEF AloneInv

LEMMA CommitAlone ==
  ASSUME TypeOK, SeenInv, AloneInv, Commit PROVE AloneInv'
<1>1. /\ job # None /\ job.failed = None /\ projects' = Seen /\ torn' = torn \ job.touched
      /\ job' = None /\ UNCHANGED <<overlap, vectors>>
  BY DEF Commit, Committing
<1> SUFFICES ASSUME ~overlap PROVE AloneInv'
  BY <1>1 DEF AloneInv
<1>2. ASSUME NEW i \in Ids, Seen[i] # None, i \notin torn \ job.touched, Seen[i].indexed
      PROVE  vectors[i] = Seen[i].text
  <2>1. CASE i \in job.touched
    BY <1>1, <1>2, <2>1 DEF AloneInv
  <2>2. CASE i \notin job.touched
    <3>1. Seen[i] = IF i \in DOMAIN job.mine THEN job.mine[i] ELSE projects[i]
      BY OverIs DEF Seen
    <3>2. i \notin DOMAIN job.mine
      BY <1>1, <1>2, <2>2, <3>1 DEF AloneInv
    <3>3. Seen[i] = projects[i] /\ i \notin torn /\ i \in Live(projects)
      BY <1>2, <2>2, <3>1, <3>2 DEF Live
    <3> QED BY <1>1, <1>2, <2>2, <3>3 DEF AloneInv, IndexedMeansFound, Moving
  <2> QED BY <2>1, <2>2
<1>3. IndexedMeansFound'
  BY <1>1, <1>2 DEF IndexedMeansFound, Live, Moving
<1> QED BY <1>1, <1>3 DEF AloneInv

LEMMA LoseAlone ==
  ASSUME TypeOK, AloneInv, Lose PROVE AloneInv'
BY DEF Lose, AloneInv, IndexedMeansFound, Live, Moving

LEMMA RequestAlone ==
  ASSUME TypeOK, AloneInv, Request PROVE AloneInv'
<1>1. UNCHANGED <<overlap, job>> /\ (job # None => overlap)
  BY DEF Request, PostProject, PatchProject, DeleteProject, TagProject, Untag, Deactivate, LoadSeed,
         MayRun, Idle
<1> SUFFICES ASSUME ~overlap PROVE IndexedMeansFound'
  BY <1>1 DEF AloneInv
<1>2. /\ job = None /\ job' = None
      /\ \A i \in Live(projects) \ torn : projects[i].indexed => vectors[i] = projects[i].text
  BY <1>1 DEF AloneInv, IndexedMeansFound, Moving
<1>3. ASSUME NEW i \in Ids, NEW x, x.text \in Texts, projects' = [projects EXCEPT ![i] = x],
             vectors' = [vectors EXCEPT ![i] = x.text], \A k \in Ids : k # i => (k \in torn => k \in torn')
      PROVE  IndexedMeansFound'
  BY <1>2, <1>3 DEF IndexedMeansFound, Live, Moving, TypeOK
<1>4. ASSUME NEW a \in Awards \cup {None}, NEW text \in Texts, NEW has, PostProject(a, text, has)
      PROVE  IndexedMeansFound'
  <2>1. used + 1 \in Ids
    BY <1>4, RegistryAssumption DEF PostProject, Ids, TypeOK
  <2>2. PICK i, x : i = used + 1 /\ x = [award |-> a, text |-> text, has |-> has, indexed |-> TRUE]
    OBVIOUS
  <2>3. /\ projects' = [projects EXCEPT ![i] = x] /\ vectors' = [vectors EXCEPT ![i] = x.text]
        /\ UNCHANGED torn /\ x.text \in Texts /\ i \in Ids
    BY <1>4, <2>1, <2>2 DEF PostProject
  <2> QED BY ONLY <1>3, <2>3
<1>5. ASSUME NEW i \in Ids, NEW a, NEW text \in Texts, NEW has, PatchProject(i, a, text, has)
      PROVE  IndexedMeansFound'
  <2>1. CASE torn' = torn \cup {i} /\ UNCHANGED projects
    BY <1>2, <1>5, <2>1 DEF PatchProject, IndexedMeansFound, Live, Moving, TypeOK
  <2>2. ASSUME torn' = torn \ {i}, NEW all,
               projects' = [projects EXCEPT ![i] =
                              [award |-> a, text |-> text, has |-> all, indexed |-> TRUE]]
        PROVE  IndexedMeansFound'
    BY <1>3, <1>5, <2>2 DEF PatchProject
  <2> QED BY <1>5, <2>1, <2>2 DEF PatchProject
<1>6. ASSUME NEW i \in Ids, DeleteProject(i) PROVE IndexedMeansFound'
  BY <1>2, <1>6 DEF DeleteProject, IndexedMeansFound, Live, Moving, TypeOK
<1>7. ASSUME UNCHANGED <<projects, vectors, torn>> PROVE IndexedMeansFound'
  BY <1>2, <1>7 DEF IndexedMeansFound, Live, Moving
<1> QED BY <1>4, <1>5, <1>6, <1>7 DEF Request, TagProject, Untag, Deactivate, LoadSeed
-----------------------------------------------------------------------------
(* The invariant, and what follows from it. *)

RegInv == TypeOK /\ SeenInv /\ ImportInv /\ AloneInv

LEMMA RegInvInit == ASSUME Init PROVE RegInv
<1>1. TypeOK
  BY RegistryAssumption DEF Init, TypeOK, Live, NoLinks
<1>2. job = None /\ \A i \in Ids : projects[i] = None /\ links[i] = NoLinks
  BY DEF Init
<1> QED BY <1>1, <1>2
     DEF RegInv, SeenInv, LinksHaveRows, ImportInv, AloneInv, IndexedMeansFound, Live

LEMMA RegInvStart ==
  ASSUME RegInv, StartImport \/ StartDelete \/ StartDeleteAll \/ StartBackfill \/ StartTagging
  PROVE  RegInv'
BY StartsFresh, StartSeen, StartImportInv, StartAlone DEF RegInv

LEMMA RegInvRow ==
  ASSUME RegInv,
         RejectFile \/ EndFile \/ ReadRow \/ RefuseRow \/ AddRow \/ IndexRow \/ TagRow \/ FinishRow
  PROVE  RegInv'
<1>1. CASE RejectFile
  BY <1>1, RejectFileStep, StaysSeen, RejectFileImport, QuietAlone DEF RegInv
<1>2. CASE EndFile
  BY <1>2, EndFileStep, StaysSeen, EndFileImport, QuietAlone DEF RegInv
<1>3. CASE ReadRow
  BY <1>3, ReadRowStep, StaysSeen, ReadRowImport, QuietAlone DEF RegInv
<1>4. CASE AddRow
  BY <1>4, AddRowSeen, AddRowImport, AddRowAlone DEF RegInv
<1>5. CASE IndexRow
  <2>1. job.now.id \in DOMAIN job.mine /\ job.mine[job.now.id] # None
    BY <1>5, RowInHandIsWritten DEF RegInv, IndexRow
  <2> QED BY <1>5, <2>1, IndexRowSeen, IndexRowImport, IndexRowAlone DEF RegInv
<1>6. CASE TagRow
  BY <1>6, TagRowSeen, TagRowImport, QuietAlone DEF RegInv
<1>7. CASE FinishRow
  BY <1>7, FinishRowStep, StaysSeen, FinishRowImport, QuietAlone DEF RegInv
<1>8. CASE RefuseRow
  BY <1>8, RefuseRowStep, StaysSeen, RefuseRowImport, QuietAlone DEF RegInv
<1> QED BY <1>1, <1>2, <1>3, <1>4, <1>5, <1>6, <1>7, <1>8

LEMMA RegInvScript ==
  ASSUME RegInv, DeleteNext \/ ListAgain \/ BackfillNext \/ TagNext
  PROVE  RegInv'
<1>1. job \in JobState /\ job.op # "import" /\ job # None /\ job' # None /\ job'.op = job.op
  <2>1. CASE DeleteNext
    BY <2>1, DeleteNextStep, Apart DEF RegInv
  <2>2. CASE ListAgain
    BY <2>2, ListAgainStep, Apart DEF RegInv, Goes
  <2>3. CASE BackfillNext
    <3>1. \A i \in job.todo : job.read[i] # None
      BY <2>3 DEF BackfillNext, Running, RegInv, SeenInv
    <3> QED BY <2>3, <3>1, BackfillNextStep, Apart DEF RegInv
  <2>4. CASE TagNext
    BY <2>4, TagNextStep, Apart DEF RegInv, Same
  <2> QED BY <2>1, <2>2, <2>3, <2>4
<1>2. ImportInv'
  BY <1>1 DEF ImportInv
<1>3. TypeOK' /\ SeenInv'
  BY DeleteNextSeen, ListAgainSeen, BackfillNextSeen, TagNextSeen DEF RegInv
<1>4. AloneInv'
  BY DeleteNextAlone, BackfillNextAlone, QuietAlone DEF RegInv
<1> QED BY <1>2, <1>3, <1>4 DEF RegInv

LEMMA RegInvEnd ==
  ASSUME RegInv, Commit \/ Lose
  PROVE  RegInv'
<1>1. ImportInv'
  BY DEF Commit, Lose, ImportInv
<1> QED BY <1>1, CommitSeen, LoseSeen, CommitAlone, LoseAlone DEF RegInv

LEMMA RegInvRequest ==
  ASSUME RegInv, Request
  PROVE  RegInv'
<1>1. TypeOK' /\ SeenInv'
  <2>1. CASE \E a \in Awards \cup {None}, text \in Texts, has \in Entered : PostProject(a, text, has)
    BY <2>1, PostProjectSeen DEF RegInv
  <2>2. CASE \E i \in Ids, text \in Texts, has \in Entered :
               /\ projects[i] # None
               /\ \E a \in Awards \cup {projects[i].award} : PatchProject(i, a, text, has)
    BY <2>2, PatchProjectSeen DEF RegInv
  <2>3. CASE \E i \in Ids : DeleteProject(i)
    BY <2>3, DeleteProjectSeen DEF RegInv
  <2>4. CASE \E i \in Ids, t \in Types : TagProject(i, t) \/ Untag(i, t)
    BY <2>4, TagProjectSeen, UntagSeen DEF RegInv
  <2>5. CASE \E t \in Types : Deactivate(t)
    BY <2>5, DeactivateSeen DEF RegInv
  <2>6. CASE LoadSeed
    BY <2>6, LoadSeedSeen DEF RegInv
  <2> QED BY <2>1, <2>2, <2>3, <2>4, <2>5, <2>6 DEF Request
<1> QED BY <1>1, RequestImport, RequestAlone DEF RegInv

LEMMA RegInvNext == ASSUME RegInv, [Next]_vars PROVE RegInv'
<1>1. CASE Job
  BY <1>1, RegInvStart, RegInvRow, RegInvScript, RegInvEnd DEF Job
<1>2. CASE Request
  BY <1>2, RegInvRequest
<1>3. CASE UNCHANGED vars
  <2>1. Seen' = Seen /\ SeenLinks' = SeenLinks
    BY <1>3 DEF vars, Seen, SeenLinks
  <2>2. TypeOK'
    BY <1>3 DEF RegInv, TypeOK, vars, Live
  <2>3. SeenInv'
    BY <1>3, <2>1 DEF RegInv, SeenInv, vars, OneOfAward, LinksHaveRows, NoLinks
  <2>4. ImportInv'
    <3>1. UNCHANGED <<projects, job>> /\ Reported' = Reported
      BY <1>3 DEF vars, Reported
    <3>2. \A row : Stands(row)' = Stands(row)
      BY <2>1, <3>1 DEF Stands, Tally
    <3>3. HandInv' = HandInv
      BY <2>1, <3>1 DEF HandInv, Tally, NoLinks
    <3> QED BY <3>1, <3>2, <3>3 DEF RegInv, ImportInv
  <2>5. AloneInv'
    BY <1>3, <2>1 DEF RegInv, AloneInv, vars, IndexedMeansFound, Live, Moving, OfAward
  <2> QED BY <2>2, <2>3, <2>4, <2>5 DEF RegInv
<1> QED BY <1>1, <1>2, <1>3 DEF Next

\* The conjunction is inductive: none of its parts is without the others.
THEOREM Invariant == Spec => []RegInv
<1>1. Init => RegInv
  BY RegInvInit
<1>2. RegInv /\ [Next]_vars => RegInv'
  BY RegInvNext
<1> QED BY <1>1, <1>2, PTL DEF Spec

\* Rows, links, vectors and the job keep their shape, and an award names one committed
\* project: the check at the commit is what the job saw
\* (ix_past_projects_loa_reference_normalised).
THEOREM TypesHold == Spec => []TypeOK
<1>1. RegInv => TypeOK
  BY DEF RegInv
<1> QED BY <1>1, Invariant, PTL

\* Until the batch commits, what an upload reports of a row is what it wrote, whatever
\* requests run beside it: the row, the number of its links, and whether it has all
\* that makes it evidence (ProjectRowResult, _finish).
THEOREM ReportsAreTrue == Spec => []ReportedRowsStand
<1>1. RegInv => ReportedRowsStand
  <2> SUFFICES ASSUME RegInv, job # None, job.failed = None,
                      NEW f \in DOMAIN job.report, NEW r \in DOMAIN job.report[f].rows,
                      job.report[f].rows[r].outcome = "CREATED"
               PROVE  LET row == job.report[f].rows[r] IN
                      /\ row.id \in DOMAIN job.mine /\ job.mine[row.id] # None
                      /\ row.linked = Cardinality({t \in Types : SeenLinks[row.id][t] # None})
                      /\ row.visible <=>
                           /\ job.mine[row.id].has = {"value", "certificate"}
                           /\ \E t \in Types : SeenLinks[row.id][t] = "INFERRED"
    BY DEF ReportedRowsStand
  <2>1. PICK row : row = job.report[f].rows[r]
    OBVIOUS
  <2>2. job.op = "import"
    BY DEF RegInv, SeenInv
  <2>3. row \in Reported /\ \A i \in DOMAIN job.mine : job.mine[i] # None
    BY <2>1, <2>2 DEF RegInv, ImportInv, Reported
  <2>4. Stands(row)
    BY <2>2, <2>3 DEF RegInv, ImportInv
  <2>5. /\ row.id \in DOMAIN job.mine /\ Tally(SeenLinks[row.id], row.linked)
        /\ row.visible = Visible(job.mine[row.id].has, row.linked)
    BY <2>1, <2>4 DEF Stands
  <2>6. row.linked > 0 <=> \E t \in Types : SeenLinks[row.id][t] = "INFERRED"
    BY <2>5, TallySays
  <2>7. row.visible <=> /\ job.mine[row.id].has = {"value", "certificate"}
                        /\ \E t \in Types : SeenLinks[row.id][t] = "INFERRED"
    BY <2>5, <2>6 DEF Visible
  <2> QED BY <2>1, <2>3, <2>5, <2>7 DEF Tally
<1> QED BY <1>1, Invariant, PTL

\* Without requests beside a job, a project marked indexed has the vector of its own text,
\* unless the transaction that stored or removed the vector was lost or has not ended
\* (PastProjectService._index, patch, delete_many and the indexing script).
THEOREM IndexedIsFound == Spec => []IndexedMeansFound
<1>1. RegInv => IndexedMeansFound
  BY DEF RegInv, AloneInv, IndexedMeansFound
<1> QED BY <1>1, Invariant, PTL

\* A batch alone never writes an award twice: the search before the INSERT sees the
\* committed rows and the batch's own (_import_row).
THEOREM BatchKnowsItsAwards == Spec => []NoDuplicatePoison
<1>1. RegInv => NoDuplicatePoison
  BY DEF RegInv, AloneInv, NoDuplicatePoison
<1> QED BY <1>1, Invariant, PTL
=============================================================================
