----------------------------- MODULE ResultStore -----------------------------
(***************************************************************************)
(* The stored screening result of one tender: a header row in              *)
(* tender_eligibility and the rows of two child tables, replaced wholesale *)
(* by upsert() while other screens of the tender, its deletion and readers *)
(* run beside it.  A transaction's rows are invisible until it commits;    *)
(* the header row it flushed stays locked until then.                      *)
(***************************************************************************)
EXTENDS FiniteSets

CONSTANTS
  Evals,    \* the evaluations, each by one request
  Readers,  \* requests that read the result
  None,     \* no row
  Verdict   \* the verdict columns each evaluation writes

\* at: evaluated_at, which no two evaluations share; verdict: every other column.
Header == [at : Evals, verdict : {Verdict[e] : e \in Evals}]

ASSUME ResultStoreAssumption ==
  /\ Evals \cap Readers = {}
  /\ None \notin Header \cup Evals

VARIABLES
  alive,     \* the tender exists
  header,    \* the committed header row
  matches,   \* the evaluations that wrote the committed work-type rows
  projects,  \* the evaluations that wrote the committed project rows
  pc,        \* where each request is
  selected,  \* the header it has read
  draft,     \* the header it has flushed
  gone,      \* the work-type and the project rows it has deleted
  rows       \* the child rows it has read

vars == <<alive, header, matches, projects, pc, selected, draft, gone, rows>>

Init ==
  /\ alive = TRUE
  /\ header = None /\ matches = {} /\ projects = {}
  /\ pc = [p \in Evals \cup Readers |-> "start"]
  /\ selected = [p \in Evals \cup Readers |-> None]
  /\ draft = [e \in Evals |-> None]
  /\ gone = [e \in Evals |-> [matches |-> {}, projects |-> {}]]
  /\ rows = [r \in Readers |-> [matches |-> {}, projects |-> {}]]

Goto(p, where) == pc' = [pc EXCEPT ![p] = where]
Unlocked == \A e \in Evals : draft[e] = None
Release(e, where) == Goto(e, where) /\ draft' = [draft EXCEPT ![e] = None]

-----------------------------------------------------------------------------
\* upsert()

Select(e) ==
  /\ pc[e] = "start" /\ alive
  /\ selected' = [selected EXCEPT ![e] = header]
  /\ Goto(e, "flush")
  /\ UNCHANGED <<alive, header, matches, projects, draft, gone, rows>>

\* Mutant of Flush: the header is written without its evaluated_at.
FlushUndated(e) ==
  /\ pc[e] = "flush" /\ Unlocked
  /\ draft' = [draft EXCEPT ![e] = [at |-> None, verdict |-> Verdict[e]]]
  /\ Goto(e, "matches")
  /\ UNCHANGED <<alive, header, matches, projects, selected, gone, rows>>

\* INSERT, or an UPDATE of the columns that differ from the row selected, once
\* no other transaction holds the row.  A row inserted since fails the first,
\* a row deleted since the second, a tender deleted since both.
Flush(e) ==
  LET mine == [at |-> e, verdict |-> Verdict[e]]
      old  == selected[e]
  IN
  /\ pc[e] = "flush" /\ Unlocked
  /\ IF ~alive \/ (old = None) # (header = None)
     THEN Release(e, "failed")
     ELSE /\ draft' = [draft EXCEPT ![e] =
                IF old = None THEN mine
                ELSE [c \in {"at", "verdict"} |->
                        IF mine[c] # old[c] THEN mine[c] ELSE header[c]]]
          /\ Goto(e, "matches")
  /\ UNCHANGED <<alive, header, matches, projects, selected, gone, rows>>

\* Mutant of DeleteMatches: the earlier rows stay.
DeleteNoMatches(e) ==
  /\ pc[e] = "matches"
  /\ Goto(e, "projects")
  /\ UNCHANGED <<alive, header, matches, projects, selected, draft, gone, rows>>

DeleteMatches(e) ==
  /\ pc[e] = "matches"
  /\ gone' = [gone EXCEPT ![e].matches = matches]
  /\ Goto(e, "projects")
  /\ UNCHANGED <<alive, header, matches, projects, selected, draft, rows>>

DeleteProjects(e) ==
  /\ pc[e] = "projects"
  /\ gone' = [gone EXCEPT ![e].projects = projects]
  /\ Goto(e, "commit")
  /\ UNCHANGED <<alive, header, matches, projects, selected, draft, rows>>

\* The new rows are added, and the request commits.
Commit(e) ==
  /\ pc[e] = "commit"
  /\ header' = draft[e]
  /\ matches' = (matches \ gone[e].matches) \cup {e}
  /\ projects' = (projects \ gone[e].projects) \cup {e}
  /\ Release(e, "done")
  /\ UNCHANGED <<alive, selected, gone, rows>>

Abort(e) ==
  /\ pc[e] \in {"flush", "matches", "projects", "commit"}
  /\ Release(e, "failed")
  /\ UNCHANGED <<alive, header, matches, projects, selected, gone, rows>>

\* DELETE /tenders/{id} cascades to the header and through it to the rows.
DeleteTender ==
  /\ alive /\ Unlocked
  /\ alive' = FALSE
  /\ header' = None /\ matches' = {} /\ projects' = {}
  /\ UNCHANGED <<pc, selected, draft, gone, rows>>

-----------------------------------------------------------------------------
\* get(): three SELECTs.

ReadHeader(r) ==
  /\ pc[r] = "start" /\ header # None
  /\ selected' = [selected EXCEPT ![r] = header]
  /\ Goto(r, "matches")
  /\ UNCHANGED <<alive, header, matches, projects, draft, gone, rows>>

ReadMatches(r) ==
  /\ pc[r] = "matches"
  /\ rows' = [rows EXCEPT ![r].matches = matches]
  /\ Goto(r, "projects")
  /\ UNCHANGED <<alive, header, matches, projects, selected, draft, gone>>

ReadProjects(r) ==
  /\ pc[r] = "projects"
  /\ rows' = [rows EXCEPT ![r].projects = projects]
  /\ Goto(r, "done")
  /\ UNCHANGED <<alive, header, matches, projects, selected, draft, gone>>

Next ==
  \/ \E e \in Evals :
       \/ Select(e) \/ Flush(e) \/ DeleteMatches(e) \/ DeleteProjects(e)
       \/ Commit(e) \/ Abort(e)
  \/ DeleteTender
  \/ \E r \in Readers : ReadHeader(r) \/ ReadMatches(r) \/ ReadProjects(r)

Spec == Init /\ [][Next]_vars

-----------------------------------------------------------------------------
TypeOK ==
  /\ alive \in BOOLEAN
  /\ header \in Header \cup {None}
  /\ matches \subseteq Evals /\ projects \subseteq Evals
  /\ pc \in [Evals \cup Readers ->
               {"start", "flush", "matches", "projects", "commit", "done", "failed"}]
  /\ selected \in [Evals \cup Readers -> Header \cup {None}]
  /\ draft \in [Evals -> Header \cup {None}]
  /\ gone \in [Evals -> [matches : SUBSET Evals, projects : SUBSET Evals]]
  /\ rows \in [Readers -> [matches : SUBSET Evals, projects : SUBSET Evals]]

\* The rows of both child tables come from the one evaluation the header's
\* evaluated_at names, however screens of the tender overlap: the flush of the
\* header takes its lock before the first row is deleted.
RowsBelongToHeader ==
  LET named == IF header = None THEN {} ELSE {header.at} IN
  matches = named /\ projects = named

\* upsert: "a screen result is a snapshot of one evaluation, and merging two
\* evaluations would produce a row describing neither".
HeaderIsOneEvaluation == header # None => header.verdict = Verdict[header.at]

\* What a reader is answered with is a snapshot of one evaluation as well.
ReaderSeesOneEvaluation ==
  \A r \in Readers : pc[r] = "done" =>
    rows[r].matches = {selected[r].at} /\ rows[r].projects = {selected[r].at}
=============================================================================
