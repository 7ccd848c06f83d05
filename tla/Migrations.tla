------------------------------ MODULE Migrations ------------------------------
(***************************************************************************)
(* The chain of database revisions under alembic/versions, and the tables  *)
(* the models of orm.py expect to find at its end.                         *)
(*                                                                         *)
(* A revision is a list of operations, up and down.  "alembic upgrade" and *)
(* "alembic downgrade" run the operations of the revisions in between, all *)
(* of them in one transaction: an operation the database refuses, or the   *)
(* death of the command, leaves what was committed.  Between two commands  *)
(* the program of that revision runs, and writes what its tables admit.    *)
(*                                                                         *)
(* A table is its columns, which of them are required or unique, which     *)
(* are indexed and what they refer to; the types of columns are left out.  *)
(* Only the rows some revision rewrites are kept: accounts, role           *)
(* assignments and reviews.                                                *)
(***************************************************************************)
EXTENDS Integers, Sequences, SequencesExt

CONSTANTS
  Emails,     \* addresses, normalised
  Bootstrap,  \* BOOTSTRAP_SUPER_ADMIN_EMAIL, or None
  MaxWrites,  \* bound on what the program writes
  None        \* NULL

ASSUME MigrationsAssumption ==
  /\ None \notin Emails /\ Bootstrap \in Emails \cup {None} /\ MaxWrites \in Nat

VARIABLES
  db,      \* what is committed: the revision, its tables and its rows
  tx,      \* the same as the command under way has it
  cmd,     \* the command under way: the revision it goes to, and its next operation
  writes   \* writes of the program so far

vars == <<db, tx, cmd, writes>>

-----------------------------------------------------------------------------
(* Tables *)

Table(required, optional, unique, indexed, refers) ==
  [required |-> required, optional |-> optional, unique |-> unique,
   indexed |-> indexed, refers |-> refers]

Column(table) == table.required \cup table.optional
\* ON DELETE CASCADE, RESTRICT or SET NULL.
Refers(column, to, ondelete) == [column |-> column, to |-> to, ondelete |-> ondelete]
Stamps == {"created_at", "updated_at"}

Operation(do, table, column) == [do |-> do, table |-> table, column |-> column]
CreateTable(name, table) == [do |-> "create", table |-> name, as |-> table]
\* drop_index for the columns named, and drop_table.
DropTable(name, indexes) == [do |-> "drop", table |-> name, indexes |-> indexes]
AddColumn(name, column) == Operation("add", name, column)
DropColumn(name, column) == Operation("remove", name, column)
SetNotNull(name, column) == Operation("require", name, column)
DropNotNull(name, column) == Operation("relax", name, column)
CreateIndex(name, column) == Operation("index", name, column)
CreateUnique(name, column) == Operation("unique", name, column)
DropIndex(name, column) == Operation("unindex", name, column)
\* A statement over the rows of a table.
Rows(statement, name) == [do |-> statement, table |-> name]

-----------------------------------------------------------------------------
(* The revisions, first to last: what each upgrade and downgrade executes. *)

OfTender == Refers("tender_id", "tenders", "CASCADE")
AuditLogs(indexed) ==
  Table({"id", "action", "entity_type", "diff", "created_at"},
        {"entity_id", "actor_id", "ip_address", "user_agent"}, {}, indexed, {})
AuditIndexes == {"action", "actor_id", "created_at", "entity_id", "entity_type"}

initial_schema ==
  << CreateTable("audit_logs", AuditLogs(AuditIndexes)),
     CreateTable("past_projects",
       Table({"id", "name", "embedding_indexed"} \cup Stamps,
             {"client", "work_value", "category", "location", "description", "completion_date"},
             {}, {"category", "work_value"}, {})),
     CreateTable("tenders",
       Table({"id", "tender_number", "title", "status"} \cup Stamps,
             {"description", "estimated_value", "closing_date", "source_url", "department"},
             {"tender_number"}, {"status"}, {})),
     CreateTable("users",
       Table({"id", "email", "full_name", "role", "is_active"} \cup Stamps,
             {"hashed_password", "google_sub", "last_login_at"}, {"email", "google_sub"}, {}, {})),
     CreateTable("boq_items",
       Table({"id", "tender_id", "description", "confidence"},
             {"item_number", "unit", "quantity", "unit_rate", "amount", "category", "page_number"},
             {}, {"category", "tender_id"}, {OfTender})),
     CreateTable("tender_documents",
       Table({"id", "tender_id", "status", "attempt_count"} \cup Stamps,
             {"source_url", "file_name", "file_path", "file_size", "mime_type", "sha256",
              "last_error", "downloaded_at", "raw_text"},
             {}, {"sha256", "status", "tender_id"}, {OfTender})),
     CreateTable("tender_metadata",
       Table({"id", "tender_id", "fields", "raw_text"} \cup Stamps, {}, {"tender_id"}, {}, {OfTender})),
     CreateTable("tender_reviews",
       Table({"id", "tender_id", "reviewer_id", "verdict", "before_snapshot", "after_snapshot",
              "created_at"}, {"comments"}, {}, {"reviewer_id", "tender_id"},
             {OfTender, Refers("reviewer_id", "users", "RESTRICT")})),
     CreateTable("user_sessions",
       Table({"id", "user_id", "refresh_token_hash", "expires_at", "created_at"},
             {"ip_address", "user_agent", "revoked_at"}, {"refresh_token_hash"}, {"user_id"},
             {Refers("user_id", "users", "CASCADE")})) >>

initial_schema_down ==
  << DropTable("user_sessions", {"user_id", "refresh_token_hash"}),
     DropTable("tender_reviews", {"tender_id", "reviewer_id"}),
     DropTable("tender_metadata", {"tender_id"}),
     DropTable("tender_documents", {"tender_id", "status", "sha256"}),
     DropTable("boq_items", {"tender_id", "category"}),
     DropTable("users", {"google_sub", "email"}),
     DropTable("tenders", {"tender_number", "status"}),
     DropTable("past_projects", {"work_value", "category"}),
     DropTable("audit_logs", AuditIndexes) >>

collapse_roles == << Rows("collapse", "users") >>
collapse_roles_down == << Rows("split", "users") >>

drop_password == << DropColumn("users", "hashed_password") >>
drop_password_down == << AddColumn("users", "hashed_password") >>

create_role_assignments ==
  << CreateTable("role_assignments",
       Table({"id", "email", "role", "assigned_at"},
             {"assigned_by", "consumed_at", "consumed_user_id"},
             {"email"}, {"assigned_by", "consumed_user_id"},
             {Refers("assigned_by", "users", "SET_NULL"),
              Refers("consumed_user_id", "users", "SET_NULL")})) >>
create_role_assignments_down ==
  << DropTable("role_assignments", {"consumed_user_id", "assigned_by", "email"}) >>

bootstrap_super_admin == << Rows("seed", "role_assignments") >>
bootstrap_super_admin_down == << Rows("unseed", "role_assignments") >>

split_correction ==
  << AddColumn("tender_reviews", "kind"), Rows("backfill", "tender_reviews"), SetNotNull("tender_reviews", "kind"),
     DropNotNull("tender_reviews", "verdict"), CreateIndex("tender_reviews", "kind") >>
split_correction_down ==
  << DropIndex("tender_reviews", "kind"), Rows("delete", "tender_reviews"),
     SetNotNull("tender_reviews", "verdict"), DropColumn("tender_reviews", "kind") >>

restore_password == << AddColumn("users", "hashed_password") >>
restore_password_down == << DropColumn("users", "hashed_password") >>

OfScreening == Refers("tender_id", "tender_eligibility", "CASCADE")
OfWorkType == Refers("work_type_id", "work_types", "CASCADE")
OfProject == Refers("project_id", "past_projects", "CASCADE")

eligibility_screening ==
  << CreateTable("work_types",
       Table({"id", "code", "name", "category", "is_active"} \cup Stamps, {"description"},
             {"code"}, {"category", "is_active"}, {})),
     CreateTable("work_type_aliases",
       Table({"id", "work_type_id", "alias", "alias_normalised", "alias_kind"}, {},
             {"alias_normalised"}, {"work_type_id"}, {OfWorkType})),
     CreateTable("past_project_work_types",
       Table({"project_id", "work_type_id", "source"}, {"confidence", "evidence"}, {}, {},
             {OfProject, OfWorkType})),
     CreateTable("company_turnover",
       Table({"id", "financial_year", "contractual_turnover", "recorded_at"},
             {"certificate_document_id", "recorded_by"}, {"financial_year"}, {"recorded_by"},
             {Refers("recorded_by", "users", "SET_NULL")})),
     CreateTable("tender_eligibility",
       Table({"tender_id", "status", "reasons", "inputs_fingerprint", "evaluated_at"},
             {"financial_pass", "financial_required", "financial_actual", "technical_pass",
              "rule_satisfied"}, {}, {"status"}, {OfTender})),
     CreateTable("tender_eligibility_work_types",
       Table({"tender_id", "work_type_id", "match_method", "match_score", "match_grade"}, {}, {}, {},
             {OfScreening, OfWorkType})),
     CreateTable("tender_eligibility_projects",
       Table({"tender_id", "project_id", "rank", "work_value"}, {}, {}, {}, {OfScreening, OfProject})),
     CreateTable("portfolio_version", Table({"id", "counter", "updated_at"}, {}, {}, {}, {})),
     AddColumn("past_projects", "loa_reference"), AddColumn("past_projects", "loa_reference_normalised"),
     AddColumn("past_projects", "completion_certificate_date"),
     AddColumn("past_projects", "completion_certificate_note"),
     CreateUnique("past_projects", "loa_reference_normalised") >>

eligibility_screening_down ==
  << DropIndex("past_projects", "loa_reference_normalised"),
     DropColumn("past_projects", "completion_certificate_note"),
     DropColumn("past_projects", "completion_certificate_date"),
     DropColumn("past_projects", "loa_reference_normalised"), DropColumn("past_projects", "loa_reference"),
     DropTable("portfolio_version", {}), DropTable("tender_eligibility_projects", {}),
     DropTable("tender_eligibility_work_types", {}), DropTable("tender_eligibility", {"status"}),
     DropTable("company_turnover", {"recorded_by", "financial_year"}),
     DropTable("past_project_work_types", {}),
     DropTable("work_type_aliases", {"alias_normalised", "work_type_id"}),
     DropTable("work_types", {"is_active", "category", "code"}) >>

document_purge == << AddColumn("tender_documents", "purged_at") >>
\* Mutant: a downgrade left empty.
document_purge_kept == <<>>

document_purge_down == << DropColumn("tender_documents", "purged_at") >>

eligibility_notifications ==
  << CreateTable("eligibility_notifications",
       Table({"id", "tender_id", "inputs_fingerprint", "status", "recipients", "sent_at"}, {},
             {"tender_id_inputs_fingerprint"}, {"tender_id"}, {OfTender})) >>
eligibility_notifications_down == << DropTable("eligibility_notifications", {}) >>

reduce_to_eligibility ==
  << DropTable("eligibility_notifications", {}), DropTable("tender_reviews", {}), DropTable("audit_logs", {}) >>
\* raise NotImplementedError.
reduce_to_eligibility_down == << Rows("refuse", "alembic_version") >>

\* Mutant: an index forgotten.
restore_audit_trail_unindexed == << CreateTable("audit_logs", AuditLogs({"actor_id"})) >>

restore_audit_trail == << CreateTable("audit_logs", AuditLogs({"actor_id", "created_at"})) >>
restore_audit_trail_down == << DropTable("audit_logs", {"created_at", "actor_id"}) >>

\* revision and down_revision: a chain without branches.
Revisions ==
  << [up |-> initial_schema, down |-> initial_schema_down],
     [up |-> collapse_roles, down |-> collapse_roles_down],
     [up |-> drop_password, down |-> drop_password_down],
     [up |-> create_role_assignments, down |-> create_role_assignments_down],
     [up |-> bootstrap_super_admin, down |-> bootstrap_super_admin_down],
     [up |-> split_correction, down |-> split_correction_down],
     [up |-> restore_password, down |-> restore_password_down],
     [up |-> eligibility_screening, down |-> eligibility_screening_down],
     [up |-> document_purge, down |-> document_purge_down],
     [up |-> eligibility_notifications, down |-> eligibility_notifications_down],
     [up |-> reduce_to_eligibility, down |-> reduce_to_eligibility_down],
     [up |-> restore_audit_trail, down |-> restore_audit_trail_down] >>

Latest == Len(Revisions)
-----------------------------------------------------------------------------
(* Rows, and what an operation does to them *)

LegacyRoles == {"ANALYST", "VIEWER", "MANAGER", "ADMIN", "SUPER_ADMIN"}
UserRole == {"EMPLOYEE", "MANAGER", "ADMIN", "SUPER_ADMIN"}
RolesOf(revision) == IF revision = 1 THEN LegacyRoles ELSE UserRole
Elevated == UserRole \ {"EMPLOYEE"}

\* assigned_by and consumed_at; a review with its kind, and whether it carries a verdict.
Grant == [role : Elevated, by : Emails \cup {None}, consumed : BOOLEAN]
Review == [by : Emails, kind : {"VERDICT", "CORRECTION", None}, verdict : BOOLEAN]

\* NULL is no role, no kind of review and no command.
ASSUME NoneIsNothing ==
  None \notin LegacyRoles \cup UserRole \cup {"VERDICT", "CORRECTION"}
              \cup [to : 0..Latest, next : Nat]

NoRow == [e \in Emails |-> None]
Empty == [at |-> 0, schema |-> <<>>, users |-> NoRow, grants |-> NoRow, reviews |-> {}]

Tables(d) == DOMAIN d.schema
Has(d, name, column) == name \in Tables(d) /\ column \in Column(d.schema[name])
Indexed(table) == table.unique \cup table.indexed
IsNull(review, column) ==
  \/ column = "kind" /\ review.kind = None
  \/ column = "verdict" /\ ~review.verdict

\* The bootstrap row is inserted for an address without one and without an account.
Seeds(d) == Bootstrap # None /\ d.grants[Bootstrap] = None /\ d.users[Bootstrap] = None
Unseeds(d) ==
  {e \in Emails : e = Bootstrap /\ d.grants[e] # None
                  /\ ~d.grants[e].consumed /\ d.grants[e].by = None}
\* Mutants: a role left out; a role too many.
CollapsedLess(role) == IF role = "VIEWER" THEN "EMPLOYEE" ELSE role
CollapsedMore(role) == IF role \notin {"ADMIN", "SUPER_ADMIN"} THEN "EMPLOYEE" ELSE role

Collapsed(role) == IF role \in {"ANALYST", "VIEWER"} THEN "EMPLOYEE" ELSE role
Split(role) == IF role = "EMPLOYEE" THEN "VIEWER" ELSE role
\* Mutant: the corrections are kept.
CorrectionsNone(d) == {}

Corrections(d) == {r \in d.reviews : r.kind = "CORRECTION"}
Backfilled(r) == [r EXCEPT !.kind = IF @ = None THEN "VERDICT" ELSE @]

\* What the database, or the revision itself, refuses.
Refused(op, d) ==
  CASE op.do = "create" -> \/ op.table \in Tables(d)
                           \/ \E r \in op.as.refers : r.to \notin Tables(d)
    [] op.do = "drop" -> \/ op.table \notin Tables(d)
                         \/ ~(op.indexes \subseteq Indexed(d.schema[op.table]))
                         \/ \E t \in Tables(d) \ {op.table} :
                              \E r \in d.schema[t].refers : r.to = op.table
    [] op.do = "add" -> op.table \notin Tables(d) \/ Has(d, op.table, op.column)
    [] op.do \in {"remove", "relax"} -> ~Has(d, op.table, op.column)
    [] op.do = "require" -> \/ ~Has(d, op.table, op.column)
                            \/ \E r \in d.reviews : IsNull(r, op.column)
    [] op.do \in {"index", "unique"} -> \/ ~Has(d, op.table, op.column)
                                        \/ op.column \in Indexed(d.schema[op.table])
    [] op.do = "unindex" -> \/ op.table \notin Tables(d)
                            \/ op.column \notin Indexed(d.schema[op.table])
    [] op.do = "seed" -> op.table \notin Tables(d) \/ (Seeds(d) /\ d.grants[Bootstrap] # None)
    [] op.do = "refuse" -> TRUE
    [] OTHER -> op.table \notin Tables(d)

Without(table, column) ==
  [table EXCEPT !.required = @ \ {column}, !.optional = @ \ {column}, !.unique = @ \ {column},
                !.indexed = @ \ {column}, !.refers = {r \in @ : r.column # column}]

\* The tables after an operation.
Altered(op, schema) ==
  LET table == schema[op.table]
      Alter(altered) == [schema EXCEPT ![op.table] = altered]
  IN CASE op.do = "create" ->
            [t \in DOMAIN schema \cup {op.table} |-> IF t = op.table THEN op.as ELSE schema[t]]
       [] op.do = "drop" -> [t \in DOMAIN schema \ {op.table} |-> schema[t]]
       [] op.do = "add" -> Alter([table EXCEPT !.optional = @ \cup {op.column}])
       [] op.do = "remove" -> Alter(Without(table, op.column))
       [] op.do = "require" -> Alter([table EXCEPT !.required = @ \cup {op.column},
                                                   !.optional = @ \ {op.column}])
       [] op.do = "relax" -> Alter([table EXCEPT !.required = @ \ {op.column},
                                                 !.optional = @ \cup {op.column}])
       [] op.do = "index" -> Alter([table EXCEPT !.indexed = @ \cup {op.column}])
       [] op.do = "unique" -> Alter([table EXCEPT !.unique = @ \cup {op.column}])
       [] op.do = "unindex" -> Alter([table EXCEPT !.indexed = @ \ {op.column},
                                                   !.unique = @ \ {op.column}])
       [] OTHER -> schema

\* The rows after an operation.
Rewritten(op, d) ==
  CASE op.do = "collapse" ->
         [d EXCEPT !.users = [e \in Emails |-> IF @[e] = None THEN None ELSE Collapsed(@[e])]]
    [] op.do = "split" ->
         [d EXCEPT !.users = [e \in Emails |-> IF @[e] = None THEN None ELSE Split(@[e])]]
    [] op.do = "seed" ->
         IF Seeds(d)
         THEN [d EXCEPT !.grants[Bootstrap] =
                 [role |-> "SUPER_ADMIN", by |-> None, consumed |-> FALSE]]
         ELSE d
    [] op.do = "unseed" ->
         [d EXCEPT !.grants = [e \in Emails |-> IF e \in Unseeds(d) THEN None ELSE @[e]]]
    [] op.do = "backfill" -> [d EXCEPT !.reviews = {Backfilled(r) : r \in @}]
    [] op.do = "delete" -> [d EXCEPT !.reviews = @ \ Corrections(d)]
    [] op.do = "remove" /\ op.table = "tender_reviews" ->
         [d EXCEPT !.reviews = {[r EXCEPT !.kind = None] : r \in @}]
    [] op.do = "drop" -> [d EXCEPT !.users = IF op.table = "users" THEN NoRow ELSE @,
                                   !.grants = IF op.table = "role_assignments" THEN NoRow ELSE @,
                                   !.reviews = IF op.table = "tender_reviews" THEN {} ELSE @]
    [] OTHER -> d

Execute(op, d) == [Rewritten(op, d) EXCEPT !.schema = Altered(op, d.schema)]

-----------------------------------------------------------------------------
(* Commands *)

Idle == cmd = None

Init == db = Empty /\ tx = Empty /\ cmd = None /\ writes = 0

\* "alembic upgrade" or "alembic downgrade" to a revision, or to "base".
Begin(revision) ==
  /\ Idle /\ revision # db.at
  /\ cmd' = [to |-> revision, next |-> 1]
  /\ UNCHANGED <<db, tx, writes>>

Upgrading == cmd.to > tx.at
Operations == IF Upgrading THEN Revisions[tx.at + 1].up ELSE Revisions[tx.at].down
Pending == ~Idle /\ cmd.to # tx.at /\ cmd.next <= Len(Operations)

Step ==
  /\ Pending /\ ~Refused(Operations[cmd.next], tx)
  /\ tx' = Execute(Operations[cmd.next], tx)
  /\ cmd' = [cmd EXCEPT !.next = @ + 1]
  /\ UNCHANGED <<db, writes>>

\* alembic_version moves after each revision.
Stamp ==
  /\ ~Idle /\ cmd.to # tx.at /\ cmd.next > Len(Operations)
  /\ tx' = [tx EXCEPT !.at = IF Upgrading THEN @ + 1 ELSE @ - 1]
  /\ cmd' = [cmd EXCEPT !.next = 1]
  /\ UNCHANGED <<db, writes>>

\* One transaction for the whole command.
Commit ==
  /\ ~Idle /\ cmd.to = tx.at
  /\ db' = tx /\ cmd' = None
  /\ UNCHANGED <<tx, writes>>

\* An operation that raises, or a command that is killed.
RollBack ==
  /\ ~Idle
  /\ tx' = db /\ cmd' = None
  /\ UNCHANGED <<db, writes>>

-----------------------------------------------------------------------------
(* The program of the revision in place *)

Write(d) ==
  /\ Idle /\ writes < MaxWrites
  /\ db' = d /\ tx' = d /\ writes' = writes + 1
  /\ UNCHANGED cmd

\* An account is born with the role reserved for its address, which is then consumed.
SignUp(e) ==
  /\ "users" \in Tables(db) /\ db.users[e] = None
  /\ IF db.grants[e] = None
     THEN \E role \in RolesOf(db.at) : Write([db EXCEPT !.users[e] = role])
     ELSE /\ ~db.grants[e].consumed
          /\ Write([db EXCEPT !.users[e] = db.grants[e].role, !.grants[e].consumed = TRUE])

\* SET NULL where it assigned a role; a review refuses its reviewer's deletion.
DeleteUser(e) ==
  /\ db.users[e] # None /\ \A r \in db.reviews : r.by # e
  /\ Write([db EXCEPT !.users[e] = None,
                      !.grants = [a \in Emails |->
                        IF @[a] # None /\ @[a].by = e THEN [@[a] EXCEPT !.by = None] ELSE @[a]]])

CreateRoleAssignment(e, by) ==
  /\ "role_assignments" \in Tables(db)
  /\ db.users[e] = None /\ db.grants[e] = None /\ db.users[by] # None
  /\ \E role \in Elevated :
       Write([db EXCEPT !.grants[e] = [role |-> role, by |-> by, consumed |-> FALSE]])

\* A decision, and once reviews have a kind a correction, which decides nothing.
SaveReview(e) ==
  /\ "tender_reviews" \in Tables(db) /\ db.users[e] # None
  /\ \/ /\ ~Has(db, "tender_reviews", "kind")
        /\ Write([db EXCEPT !.reviews = @ \cup {[by |-> e, kind |-> None, verdict |-> TRUE]}])
     \/ /\ Has(db, "tender_reviews", "kind")
        /\ \E kind \in {"VERDICT", "CORRECTION"} :
             Write([db EXCEPT !.reviews =
               @ \cup {[by |-> e, kind |-> kind, verdict |-> kind = "VERDICT"]}])

Next ==
  \/ \E revision \in 0..Latest : Begin(revision)
  \/ Step
  \/ Stamp
  \/ Commit
  \/ RollBack
  \/ \E e \in Emails : SignUp(e) \/ DeleteUser(e) \/ SaveReview(e)
  \/ \E e, by \in Emails : CreateRoleAssignment(e, by)

Spec == Init /\ [][Next]_vars

-----------------------------------------------------------------------------
(* What the program of today maps its entities to *)

AccountModels ==
  [users |-> Table({"id", "email", "full_name", "role", "is_active"} \cup Stamps,
       {"google_sub", "hashed_password", "last_login_at"}, {"email", "google_sub"}, {}, {}),
   role_assignments |-> Table({"id", "email", "role", "assigned_at"},
       {"assigned_by", "consumed_at", "consumed_user_id"}, {"email"},
       {"assigned_by", "consumed_user_id"},
       {Refers("assigned_by", "users", "SET_NULL"),
        Refers("consumed_user_id", "users", "SET_NULL")}),
   user_sessions |-> Table({"id", "user_id", "refresh_token_hash", "expires_at", "created_at"},
       {"ip_address", "user_agent", "revoked_at"}, {"refresh_token_hash"}, {"user_id"},
       {Refers("user_id", "users", "CASCADE")})]

TenderModels ==
  [tenders |-> Table({"id", "tender_number", "title", "status"} \cup Stamps,
       {"description", "estimated_value", "closing_date", "source_url", "department"},
       {"tender_number"}, {"status"}, {}),
   tender_documents |-> Table({"id", "tender_id", "status", "attempt_count"} \cup Stamps,
       {"source_url", "file_name", "file_path", "file_size", "mime_type", "sha256", "last_error",
        "downloaded_at", "purged_at", "raw_text"}, {}, {"tender_id", "sha256", "status"},
       {Refers("tender_id", "tenders", "CASCADE")}),
   tender_metadata |-> Table({"id", "tender_id", "fields", "raw_text"} \cup Stamps, {},
       {"tender_id"}, {}, {Refers("tender_id", "tenders", "CASCADE")}),
   boq_items |-> Table({"id", "tender_id", "description", "confidence"},
       {"item_number", "unit", "quantity", "unit_rate", "amount", "category", "page_number"}, {},
       {"tender_id", "category"}, {Refers("tender_id", "tenders", "CASCADE")}),
   audit_logs |-> Table({"id", "action", "entity_type", "diff", "created_at"},
       {"entity_id", "actor_id", "ip_address", "user_agent"}, {}, {"actor_id", "created_at"}, {})]

ScreeningModels ==
  [past_projects |-> Table({"id", "name", "embedding_indexed"} \cup Stamps,
       {"client", "work_value", "category", "location", "description", "completion_date",
        "loa_reference", "loa_reference_normalised", "completion_certificate_date",
        "completion_certificate_note"}, {"loa_reference_normalised"}, {"work_value", "category"}, {}),
   work_types |-> Table({"id", "code", "name", "category", "is_active"} \cup Stamps,
       {"description"}, {"code"}, {"category", "is_active"}, {}),
   work_type_aliases |-> Table({"id", "work_type_id", "alias", "alias_normalised", "alias_kind"}, {},
       {"alias_normalised"}, {"work_type_id"}, {Refers("work_type_id", "work_types", "CASCADE")}),
   past_project_work_types |-> Table({"project_id", "work_type_id", "source"},
       {"confidence", "evidence"}, {}, {}, {Refers("project_id", "past_projects", "CASCADE"),
       Refers("work_type_id", "work_types", "CASCADE")}),
   company_turnover |-> Table({"id", "financial_year", "contractual_turnover", "recorded_at"},
       {"certificate_document_id", "recorded_by"}, {"financial_year"}, {"recorded_by"},
       {Refers("recorded_by", "users", "SET_NULL")}),
   tender_eligibility |->
     Table({"tender_id", "status", "reasons", "inputs_fingerprint", "evaluated_at"},
       {"financial_pass", "financial_required", "financial_actual", "technical_pass",
        "rule_satisfied"}, {}, {"status"}, {Refers("tender_id", "tenders", "CASCADE")}),
   tender_eligibility_work_types |->
     Table({"tender_id", "work_type_id", "match_method", "match_score", "match_grade"}, {}, {}, {},
       {Refers("tender_id", "tender_eligibility", "CASCADE"),
        Refers("work_type_id", "work_types", "CASCADE")}),
   tender_eligibility_projects |->
     Table({"tender_id", "project_id", "rank", "work_value"}, {}, {}, {},
       {Refers("tender_id", "tender_eligibility", "CASCADE"),
        Refers("project_id", "past_projects", "CASCADE")}),
   portfolio_version |-> Table({"id", "counter", "updated_at"}, {}, {}, {}, {})]

Models ==
  [name \in DOMAIN AccountModels \cup DOMAIN TenderModels \cup DOMAIN ScreeningModels |->
     IF name \in DOMAIN AccountModels THEN AccountModels[name]
     ELSE IF name \in DOMAIN TenderModels THEN TenderModels[name] ELSE ScreeningModels[name]]

-----------------------------------------------------------------------------
(* Properties *)

\* The rows in hand are rows their tables admit, at every operation of a command; and from the
\* collapse of roles on, every committed account has a role that UserRole still names.
TypeOK ==
  /\ db.at \in 0..Latest /\ tx.at \in 0..Latest
  /\ \A d \in {db, tx} :
       /\ d.users \in [Emails -> LegacyRoles \cup UserRole \cup {None}]
       /\ d.grants \in [Emails -> Grant \cup {None}] /\ d.reviews \subseteq Review
  /\ db.at >= 2 => \A e \in Emails : db.users[e] \in UserRole \cup {None}

\* The only thing that stops a command is the revision whose retired data cannot come back: no
\* operation of any other meets a table, a column, an index or a row it cannot work on, whichever
\* way the database came to the revision and whatever the program wrote there.
OnlyRetirementRefuses ==
  Pending /\ Refused(Operations[cmd.next], tx) => Operations[cmd.next].do = "refuse"

\* The tables of a revision do not depend on the way there: a downgrade undoes exactly what its
\* upgrade did, up to the tables that were retired.
SchemaAt[revision \in 0..Latest] ==
  IF revision = 0 THEN Empty.schema
  ELSE FoldLeft(LAMBDA schema, op : Altered(op, schema), SchemaAt[revision - 1],
                Revisions[revision].up)
SchemaOfRevision == db.schema = SchemaAt[db.at]

\* At the last revision the tables are those the models expect, column by column.
LatestIsModels == db.at = Latest => db.schema = Models

\* A command moves nobody into or out of an elevated role, and leaves verdicts, accounts and
\* consumed assignments wherever their table stands.
RecordsStand ==
  [][Commit =>
      /\ "users" \in Tables(db') =>
           \A e \in Emails :
             /\ db.users[e] # None => db'.users[e] # None
             /\ db.users[e] \in Elevated \/ db'.users[e] \in Elevated => db'.users[e] = db.users[e]
      /\ "role_assignments" \in Tables(db') =>
           \A e \in Emails :
             db.grants[e] # None /\ db.grants[e].consumed => db'.grants[e] = db.grants[e]
      /\ "tender_reviews" \in Tables(db') =>
           \A r \in db.reviews : r.verdict => \E s \in db'.reviews : s.by = r.by /\ s.verdict]_vars

\* What a comment of the bootstrap revision says of its downgrade: "Only the unconsumed seed row
\* is removed."  The row of an administrator who is deleted has no assigned_by either.
OnlySeedRemoved ==
  [][Step /\ Operations[cmd.next].do = "unseed" =>
       \A e \in Emails : tx.grants[e] # None /\ tx'.grants[e] = None
                           => tx.grants[e].role = "SUPER_ADMIN"]_vars

=============================================================================
